# TLA+ models of the ADL tools

The ADL tools turn an architecture description (`.adl`) into an instruction-set
simulator and a micro-architecture description (`.uadl`) into a cycle-accurate
performance model. Most of the repository is a compiler: it reads descriptions
and writes C++. What runs for a long time, keeps state, and can go wrong in ways
a regression test does not reach, is the **run-time** that generated models are
linked with. This directory models that run-time.

## The system and its parts

| part | where | what it does |
|---|---|---|
| front end | `src/fe`, `src/helpers` | parses ADL, builds the object model, type and bit-width analysis |
| ISS generator | `src/iss/Gen*.C` | writes the C++ of an instruction-set simulator |
| uADL generator | `src/uadl/Uadl{Parser,Handlers}.C`, `GenCode.C`, `GenInstClass.C` | writes the C++ of a performance model |
| assembler, documentation, database generators | `src/asm`, `src/misc` | the other back ends |
| uADL run-time | `src/uadl/*.h`, `UadlMemory.C`, `Cache.C`, ... | timed memories, caches, fetch unit, pipeline stages, register resources, forwarding paths, branch predictor, semaphores, flags, timers, the cycle loop |
| ISS run-time | `src/iss/ThreadedKernel.C`, `Memory.h`, `BlockHash.h`, ... | multi-threaded kernel, sparse memory, memory locks, decode cache, DMI cache, packet pool, logging |
| shell of a simulator | `src/iss/ExecSupport.C`, `Scripting.C`, `GdbServer.C`, readers and writers | options, scripts, debugger, file formats |
| graphite, designs, tests | `src/graphite`, `src/designs`, `src/tests` | a distributed-simulation adapter, example models, regression tests |

`PROJECT.json` lists every part with its state: modelled, partly, or not, and why.

### How the parts of the uADL run-time interact

`UadlArch::run()` executes one cycle after another. In each cycle every memory and
cache runs `preCycle()`, then the pipeline's instructions (operation state
machines, OSMs, written by the generator) are tried in order. An OSM moves to its
next stage when every inquiry on the edge succeeds (`can_send_request`,
`can_alloc`, `can_lock`, ...); it then performs the matching actions. An edge that
fails is tried again in the next cycle. The fetch unit is one more client of the
instruction memory; it keeps its own list of outstanding fetches and is told by
`preemptFetch()` when one of them has been pushed off the bus by a load.

## Modules

| module | models | kind |
|---|---|---|
| `UadlMemory` | `uadl/UadlMemory.{h,C}`, `MemoryRequest.h`, `BandwidthControl.{h,C}` | specification |
| `UadlMemoryQueues`, `UadlMemoryProofs`, `UadlMemoryClients` | | lemmas about one port's queue; inductive invariant and theorems about the queues; about the clients, the lock and the activity flag |
| `Cache` | `uadl/Cache.{h,C}` and what `uadl/GenCode.C` generates for a cache | specification |
| `LinefillBuf`, `CacheArray` | the buffers of a cache; its tag and data array (`iss/GenCache.C`) | operators |
| `FetchUnit` | `uadl/DefaultFetchUnit.h` | specification |
| `Pipeline` | the generated core: `uadl/GenCode.C`, `GenInstClass.C`, for a description like `tests/uadl/dlx2-fwd.uadl` | specification, composed of the next three |
| `PipelineStage`, `RegResource`, `ForwardingPath` | `uadl/` files of these names | operators on their values |
| `SequentialCore` | what a pipelined core promises | abstract specification |
| `PipelineProofs` | | inductive invariant and theorems |
| `ThreadedKernel` | `iss/ThreadedKernel.C`, and the generated core as far as the kernel sees it (`iss/GenInstrs.C`, `GenSim.C`, `GenExceptions.C`) | specification |
| `ThreadedKernelProofs` | | inductive invariants and theorems |
| `SharedMemory` | `iss/Memory.h` (thread-safe build), `MemoryLocks.h`, `ThreadedSimLock.h`, the locked accesses of `iss/GenMems.C` and `GenInstrs.C` | specification |
| `AtomicMemory` | what a shared memory promises | abstract specification |
| `SharedMemoryInvariant`, `SharedMemoryProofs` | | inductive invariant; theorems and the refinement |
| `MergedLogging` | `iss/ThreadedLogger.{h,C}`, `LoggingMgrImpl.C` | specification |
| `TraceStream` | what a merged trace promises | abstract specification |
| `MergedLoggingProofs` | | inductive invariant, theorems, the refinement |
| `MC*` | | instances for TLC |

### UadlMemory

State: per port the request queue (`_requests`), the bus-waiting slot
(`_waitingRequest`), the activity bit and the bandwidth counters; for the memory the
request id, the status taken at the start of the cycle (`_queueWasFull`,
`_queueWasActive`, `_preemptionId`), the lock and its delayed release. `scan` says
which port `preCycle()` looks at next. `outstanding` is what the clients believe:
the tickets (request ids) of instructions and of the fetch unit.

| action | code |
|---|---|
| `sendFetchRequest`, `Load`, `Store` | `send*Request()` with its inquiry, `sendRequest()`: accept, preempt, or wait on the bus |
| `Complete` | `read()`, `write()`, the fetch unit's completion: the request leaves, the waiting one moves up |
| `Cancel` | `cancel()`, `cancel_internal()`, `check_waiting_for_cancel()` |
| `Lock`, `Unlock` | `lockAction`, forced locks, immediate and delayed unlocks |
| `PreCycle` | `preCycle()`: status and bandwidth, then each port in turn: ages, expiry, removal of dead requests |
| `reset` | `Memory::reset()` |

Clients call the inquiry before the action, as the generated code does, and act only
between two runs of `preCycle()` (the run-time is single-threaded). Time is
relative: a request carries its age, saturated at its latency, the only value an
age is compared with. Addresses and data are left out; no decision of the memory
depends on them.

| run | instance | shows |
|---|---|---|
| `memory_one_port` | one port, two queue slots and the bus, preemption, two instructions (one locks), a fetch unit, four requests | order of service, agreement with the clients, exclusion by the lock, truth of the activity flag |
| `memory_two_ports` | two ports of different latency, shared bandwidth on one, no preemption, fair clients | every request is answered or cancelled in the end |

Bounds. The memory compares only ids, ages and queue lengths. With a queue of two,
a bus slot and four requests there is one request more than the port can hold, so
every combination of full queue, waiting request, expiry out of order (reads take
one cycle, writes two) and a newcomer occurs. With two ports one slot each is
enough for the same reason.

Fairness (`FairSpec`). The cycle loop goes on: weak fairness of `PreCycle`. A client
repeats a failing transaction in every cycle, and `preCycle()` runs between two
tries, so a completion that is possible again and again is made: strong fairness of
`Complete`. An instruction that holds the lock gives it up.

Three restrictions of these instances are not the code's; the hazards of
`PROJECT.json` say what the model does without each. With two ports *and* preemption a
request that replaces a fetch is kept at the fetch's port and later pushed on its own
port's full queue. With two ports a lock is granted after a look at port 0 only. The
counter of a delayed unlock outlives an immediate one.

## Caches

A cycle of `Cache` is the code's: `preCycle()` first moves data for the actions it owes
to the next level, oldest first (`LinefillData`, `EvictData`, `ReadNextData`,
`StoreNextData`), then looks requests up (`ProcessRequest`, `PassRequest`,
`EndRequests`); instructions send, read, write, command and cancel; `postCycle()` sends
requests for the actions (`LinefillRequest`, ...). Each iteration of these loops is a
step. `conf` is the description's parameters; the next level is a timed memory seen from
its client, with `slots` transfers a cycle. `last` is the only history variable: what the last
`write()` to an address wrote.

| run | instance | shows |
|---|---|---|
| `cache_stores` | five descriptions, one way of two words, three lines, up to four requests | a read gets the last value written; store buffer and actions stay in step; no store is lost; the cache comes to rest |
| `cache_evict` | a write-back cache in which two lines share the way | *violated*: an evicted line goes to the address of its successor |

Bounds. Two words a line make a line fill take two transfers, so requests meet it
half done; three lines on one way give hits, misses, replacement of clean lines and an
uncached line; four requests are two more than the queue holds.

Fairness. Time goes on and the next level makes a transfer in infinitely many cycles
(`[]<><<BeginCycle(MaxSlots)>>_vars`). Instructions read and write as soon as the
inquiry allows (`prompt`): the cycle loop tries a waiting instruction in every cycle. An
instruction that stalls for another reason may read a line that was replaced
meanwhile; the hazards say so.

## Fetch unit

`FetchUnit` has the pending requests, the instruction buffer, the predictions made at
fetch time, the free-space counter and the alignment flags. A cycle is `receiveInstrData`
per answer, then the pipeline (`Issue`, `IssueDone`, `Flush`, `cancel`, `pause`, `force`, and a
load that preempts: `preemptFetch`), then `ResendRequest`, `SendRequest` or `FetchFault`.
Addresses count entries of the buffer. `expect` is the program's next address, kept by the
pipeline's side of the model. The memory is external and as `UadlMemory` shows it: in order,
bounded, preempting the newest fetch only.

`fetch_stream` runs six template instantiations over a program with a branch that
crosses a fetch, pages of which one is not executable, and flushes to aligned and
unaligned targets. It shows that the unit hands out the program's instructions whatever
it fetched ahead, that the space counter is exact, that no prediction outlives its
fetch, and that the unit keeps delivering. Twelve addresses, four entries and fetches of
one, two or four give every kind of padding and wrapping around; two pending requests are
what a preemption needs. Fairness: the cycle goes on, and the memory and the pipeline
do what they can do again and again.

Left out of the instances, with the hazard that says why: a prediction together with
the reuse of a pending request or with `cancel()`, and front padding together with
either. `KeepsDelivering` leaves out preemption in programs with fetch exceptions.

## Pipeline

`Pipeline` composes `PipelineStage`, `RegResource` and `ForwardingPath` the way the
generator's output does for a dual-issue in-order core: `cycle()` runs write-back, memory,
execute and decode in this order and then issues. An action of the model is what one
instruction's generated state function does (`S_WB`, `S_MM`, `S_EX`, `S_ID`, ...), with its
inquiries, allocations, reads through forwarding paths and its move. `Blocked`, `Repeat` and
`Move` are the lock-step scheduler; `S_EX_exception` and `S_ID_branch` flush
(`taken_flush_<stage>`, `flush_issue`). Fetching and loading are external and take any time.

`pipeline_runs` runs every program of four instructions that begins with a late or a
partial writer and ends with a reader, over six classes. It shows that the pipeline
implements `SequentialCore` (refinement mapping: the next instruction is the oldest that
has not written back), that stages stay consistent rings, that fetch-buffer entries are released once, that
instructions stay in order, and that every program finishes. Four instructions
in a pipeline of four stages of two fill decode, issue and the stages behind it and
leave one that is fetched when another flushes. Fairness: cycles follow each other, and
fetches and loads are answered.

`pipeline_flush` is the same core with decode in one state for every class (`SplitAlloc = {}`), which is how
the test descriptions write it: `S_ID` waits for its guard, reads, allocates and moves on. It checks
`AllocationsAreHeld`, that registers are allocated by those in flight that hold them and by nobody else, and
*violates* it. The flush function of `S_ID` releases what the action of `S_ID` allocates, but an instruction
that still waits there has not run the action. In the counterexample a load and a trap hold the register in `mEX`
and an `add` waits in decode; the trap flushes, the `add` releases the load's allocation, and the register
counts as free before the load has written it.

For the other promises `pipeline_runs` therefore takes a description that avoids this: classes of `SplitAlloc`
allocate in a state `S_IDa` of their own, in which nothing waits. No description of the repository does so; what is proved
about the pipeline (below) holds for either kind. `PartialPaths` is the second restriction: partial operands
read through both forwarding paths break `RunsSequentially`; the hazards say how.

## The multi-threaded kernel

A simulator of several cores can run each core in a thread of its own.
`threadedSimRun()` lets the threads of a pool start at one barrier, waits for them
at a second one, and returns. In between, a thread calls its core's `run()`, and
decides what to do when that returns: a core that has used up its time quantum
waits for the others, an inactive core sleeps, a breakpoint stops everyone, an
exception raised by another core is applied, and when the last core has halted
everyone leaves. One mutex, one condition variable and a few flags that are read
without the mutex carry all of that.

State: per core its activity, whether its activity callback is set, the counter and
threshold of the time quantum, the instruction count and a pending exception; per
thread its `_exception` flag and where it is (`pc`); the pool's counts and flags;
the main thread. A step is the code between two points where another thread can be
seen. Critical sections are one step each unless they call something that touches
state which the mutex does not protect.

| action | code |
|---|---|
| `threadedSimRun`, `Return`, `Delete` | the main thread: `reset()` and start barrier, the end, shutting down |
| `Start`, `Finish` | `run_internal()` at the two barriers, setting and clearing the callback |
| `Script` | the shell command `setactive` between two runs |
| `Loop`, `Plain`, `Halt` | the generated simulation loop, with its quantum and instruction limit |
| `HaltInstr`, `WakeInstr`, `StopInstr`, `Notify` | instructions that change a core's activity, through `SimThread::set_active_count()` |
| `BreakInstr`, `Broke` | a breakpoint |
| `genExceptions`, `trigger_exception` | an instruction raises an exception in a core |
| `Check`, `Synchronize` | `simulate()`, case `ACTIVE`: the unlocked test, then the quantum |
| `Evaluate`, `Woken` | case `HALT`: quit, sleep, limit, breakpoint |
| `applyExceptions`, `RestoreThreshold`, `ClearException` | a delayed exception is taken |

The constant `Events` says what programs and user may do. Runs that show a property
of all programs have all the events the property survives; what it does not survive
is said in the hazards of `PROJECT.json`.

Abstractions: an instruction is one of the events; the quantum's counter is
saturated at the largest finite threshold; memory is sequentially consistent (the
code reads `_brkpt` and `_exception` outside the mutex, so the interleavings of these
reads are modelled and weaker orders are not); the condition variable has no
spurious wake-ups; C++ exceptions out of `run()` are left out.

| run | instance | shows |
|---|---|---|
| `kernel_barriers` | two cores, instruction limit 1, two runs, all events but `script`, fair threads | types; threads simulate only inside `threadedSimRun()`; quit ends the run unless it is revoked. A core at its limit may block the pool for ever (`set_active_count()` is then called under the mutex that it locks), and a run started with no active core never ends, so deadlock is not checked |
| `kernel_awake` | three cores that halt themselves and wake each other, two runs | not everyone sleeps, no deadlock; the last active core does not wait; quit is never revoked; a run returns for a reason |
| `kernel_break` | two cores, breakpoints | *violated*: a thread goes to sleep after the breakpoint's wake-up |

`EndedForAReason` and `QuitStays` do not survive the event `stop`, and `SomeoneAwake` neither that nor a
breakpoint, hence the two runs; with breakpoints, the limit and a hasty user the first two are proved.

Bounds. Two cores have every race of two threads and the main thread; a third core
is needed for a thread that waits while two others change who is active. A quantum
of one makes the synchronisation happen after every instruction. The second run
starts from whatever thresholds, counters, callbacks and flags the first one left.

Fairness. A thread that can run is run (weak fairness of each thread), and the main
thread does not stop inside `threadedSimRun()`. Nothing is assumed about programs or
user.

## Shared memory and its locks

The cores of a multi-threaded simulation share one sparse memory, a tree whose nodes are
made when an access first needs them and put in place by compare-and-exchange. Around
its accesses a generated core takes up to three locks: the mutex of atomic instructions, its own mutex, and
one chosen by address.

State: the nodes that exist with their pointers and cells; the shared and the private hashes
of mutexes; who holds what; per thread its request, its place and the node it has come
to. Steps are the accesses to shared data: `LockAtomicInstr`, `AdlSimLock`, `GetMutex` or `NoMutex`,
`LockMemory`; `Load`, `NewChild`, `CompareExchange` in the walk (`Node::get()`); `ReadCell`,
`WriteCell`; `Unlock`, `Leave`; `Throw`, when the translation raises an exception; `UserCall`,
`setMem()` and `getMem()` from another thread; `reset`. `spans` is a history variable:
the addresses whose way leads through a node.

`shared_memory` has two cores that atomically update one address and read another, which
the user writes, in a tree of three levels. Both addresses lie on one page, so that all three threads race
for the inner node, for the page and for the one mutex; of the cores' reads only one's take it
(`LockedMem`, the build option `mt_locked_mem`). It shows the
refinement of `AtomicMemory`, that no node is leaked or installed twice, exclusion by
the mutexes, and that every access ends. Fairness: each thread that can go on again
and again does (strong fairness: the host's mutexes starve nobody).

Assumed: memory is sequentially consistent; compare-and-exchange does not fail
spuriously; an address that atomic instructions update is not also stored to plainly.

## Merged trace

`MergedLogging` has a queue per core, the I/O thread's scan over the loggers, one logger a step, and the
commit of the oldest instruction found. A commit's time stamp is read (`Stamp`) before the object is
pushed (`log_commit`); other threads may act in between. `logging_trace` (two cores, two
instructions each of up to two events) shows that the clients' trace is an
interleaving of whole instructions in program order (refinement of `TraceStream`), that
the scan never passes over an older instruction that was there when it began, that
shutting down loses nothing that was committed, and that the trace keeps up. Two cores are enough for
every race of a scan with a push before or behind it. Fairness: the I/O thread runs, and
a core about to push does. That the trace as a whole is ordered by time is not shown, and
does not hold: a stamp may be overtaken before its commit is pushed.

## Proofs

Each theorem is about every value of the constants that its assumptions allow; the runs above
check the same definitions on small instances, and TLC checked each inductive invariant there
before it was proved.

### The timed memory (`UadlMemoryProofs`, `UadlMemoryClients`)

For every number of ports, queue size, latency, bandwidth and set of clients, and a
memory with one port or without preemption (`Tidy`):

* `TypeCorrect`: `Spec => []TypeOK`; in particular no queue grows past its capacity.
* `FirstComeFirstServedCorrect`: requests stay in the order they were sent in.
* `WaitingOnlyWhenFullCorrect`: a request waits on the bus only behind a full queue.
* `ClientsAgreeCorrect`: the tickets that the clients hold are those of the requests that are in
  the memory and not cancelled.
* `InactiveIsQuietCorrect`: a memory that was inactive at the start of the cycle holds no request.
* `LockExcludesOthersCorrect`, for one port: while an instruction has the lock for itself, all
  requests in the memory are its own.

The inductive invariant is `MemoryInv`. Order alone is not inductive: a new request
may replace a preempted fetch, which is found by its id at the end of a queue, and
putting the new one there keeps the order only if nothing waits behind it.
`PreemptInv` says where the fetch that may be preempted is. `PortInv`
(`UadlMemoryQueues`) says of one port that its ids increase, that they are
below the next id, that the waiting request belongs to the port and is the newest,
and that it exists only behind a full queue. `Tidy` is needed: with two ports and
preemption a request can wait at a port it does not belong to, whose full queue says
nothing about its own.

What the clients can tell is not about where a request is. `UadlMemoryClients` describes every
step by what it does to the set of all requests (`Entries`), and shows on top of `MemoryInv`
that ids are unique in it, that the tickets are its image and that only the fetch unit fetches, so that a preemption
takes a ticket from nobody else (`ClientInv`); that an exclusive lock is granted only over the
locker's own requests (`LockInv`); and that the activity flag covers all ports (`QuietInv`). The lock's theorem
is for one port because the code looks at port 0 only.

### The multi-threaded kernel (`ThreadedKernelProofs`)

For every number of cores, quantum, instruction limit and number of runs:

* `TypeCorrect`: `Spec => []TypeOK`.
* `NoneOutsideRunCorrect`: threads simulate exactly while the main thread waits for
  the end of the run.
* `EndedForAReasonCorrect`: if programs halt no other core (`Polite`),
  `threadedSimRun()` returns only at a breakpoint or when all cores have stopped.
* `QuitStaysCorrect`: under the same condition no step of a run revokes quit. With it, `QuitEndsRun`, which the
  run checks for all programs, says that the halting of the last core ends the run.
* `SomeoneAwakeCorrect`, `LoneCoreRunsCorrect`: if all cores are active at first, have no instruction limit and
  halt only themselves, without breakpoints (`Steady`), never do all threads sleep in a run with an active core,
  and the last active core does not wait for the others.

`KernelInv` relates the place of the main thread with the places of the others: which
barrier each can be at, and that nobody waits at a barrier everybody has reached.
`ReasonInv` adds that a thread leaves `simulate()` only after quit or a breakpoint,
that quit means that no core is active, and that a core in an instruction is active.
The last one keeps an instruction from waking a core after quit, and it is what a
program breaks that halts another core in the middle of an instruction. A thread that
has left has cleared its core's callback, so an instruction could activate that core
behind the pool's back; `ReasonInv` therefore says where callbacks are set. `QuitInv` adds that quit means that no
core is active also after a breakpoint; who changes an activity is in an instruction, hence active, so quit is not set then.

`AwakeInv` is about the counters. The pool's count of active cores is right; its count of waiting threads is at
least the number of threads that sleep in the synchronisation, since a sleeper that was woken is still counted until
it runs; and if it has reached the number of active cores, or a thread sleeps without a reason, then somebody is
about to notify. Both counts change in steps of their own, so "fewer wait than are active"
alone is not inductive: a core that halts makes it false, and its own notification is what repairs it.
`Steady` excludes what breaks this in the code; the hazards name the cases.

### The shared memory (`SharedMemoryInvariant`, `SharedMemoryProofs`)

For any number of cores, any programs and any depth and width of the tree:

* `TypeCorrect`: no walk meets a null pointer.
* `NodesHeldOnceCorrect`: every node has exactly one owner.
* `LockedAccessesExcludeCorrect`: locked accesses of one key exclude each other.
* `MemoryIsAtomic`: `Spec` implements `AtomicMemory!ASpec`.

Assumptions: the constants' types (`TreeAssumption`), objects that are different
(`IdentityAssumption`), addresses that fit the tree (`CellsAssumption`), and programs as said above
(`ProgramAssumption`). The inductive invariant `Inv` has three parts. The tree: what a slot holds is one level
lower, is held nowhere else and lies on the way of exactly the addresses that the slot's index
selects (`TreeInv`), so that nodes of one level share no address (`Apart`) and addresses of one node
agree in all higher digits (`Together`); together they give each address one cell. The threads: who is at a
node has an address that leads through it (`WalkInv`). This is what makes a walk safe through nodes that others
add: a loser's node is freed only while nobody can be in it. The locks:
who holds which follows from where its thread is (`InstrInv`, `CoreInv`, `HolderInv`), and private hashes
agree with the shared one (`HashInv`). Last, between the read and the write of an atomic instruction its
cell keeps the value read (`UpdateInv`), which needs the mutex, `ProgramAssumption` and the fact that adding a
page changes no cell. For the refinement, an access takes effect at `ReadCell` or `WriteCell`; an atomic
instruction at its write, where `UpdateInv` says that what it read is still there. Every other
step maps to a call, a return, a clearing or a stutter.

### The merged trace (`MergedLoggingProofs`)

For any number of cores, instructions and events:

* `TypeCorrect`: `Spec => []TypeOK`.
* `OldestReadyFirstCorrect`: the scan never passes over an older instruction that was there when it began.
* `DrainedAtEndCorrect`: when the I/O thread has stopped, every committed instruction is in the trace.
* `WritesWhole`: `Spec` implements `TraceStream!Spec`, so the trace is an interleaving of whole
  instructions in program order.

`Inv` has three parts. `StreamInv` says where in a core's queue each instruction begins that the clients have not received:
the events of consecutive instructions, a commit between two, the first one partly gone. With it, what the
I/O thread has gathered at a commit is one whole instruction. `ScanInv` says that the loggers that were asked have their
next commit pending, the oldest of them being the scan's choice, and that the others still have what they had when the scan
began. `DrainInv` says that a scan that began after the cores had stopped leaves no queue
it has asked half full.

### The pipeline (`PipelineProofs`)

For any capacity of the stages, any size of the fetch buffer, any program over the six classes, any choice of split classes
and of paths for partial operands (so also where the instance of `pipeline_runs` is restricted):

* `StagesConsistentCorrect`: no stage is ever given more than it has room for, and no flush or move leaves a hole.
* `InOrderCorrect`: the instructions in flight are in the order of their issue.
* `BufferIsReleasedCorrect`: the fetch buffer has lent exactly what is in decode and in the issue slot.
* `TypeCorrect`: every instruction is in a stage that its state is mapped to; what is lent fits into the fetch buffer.

`ProgramAssumption` gives the types of the constants. A ring is handled through what its operations do to positions relative to its head
(`AddInstr`, `RemoveInstr`, `FlushBehind`, `AddAll`, ...): the arithmetic modulo the capacity stays in these lemmas.
The inductive invariant `PipelineInv` then has four parts. The types. The stages (`StageInv`): rings are consistent and hold only
instructions mapped to them, ids ascend in a ring and from stage to stage and end with the issue slot, and where
an instruction is done with its stage the next stage is empty (`DoneInv`). The last is why a whole lock-step stage fits when it moves: the
space was there when the first of its instructions executed, and the stages behind run later in the
cycle. The turn (`TurnInv`): while all actions of a lock-step stage have returned true, those evaluated are done, so that a
stage that moves has a done instruction at its head or is empty. The buffer (`BufferInv`): what is lent and what is kept fit together.

### Only model-checked

* Liveness (`RequestsEnd`, `QuitEndsRun`, `ComesToRest`, `KeepsDelivering`, `Finishes`, `TraceKeepsUp`, `AccessesEnd`):
  fairness and `ENABLED` are out of the prover's reach.
* `RunsSequentially` of the pipeline. It relates forwarded values to those of an execution one by one, and rests on what
  a flush releases: one instruction after the other, a fold over a sequence of any length. What a fold computes needs
  induction over data, which is also out of reach.
* Everything about the cache and the fetch unit.

## Disagreements between code and documentation

Each has a run whose counterexample shows it, and an entry under `findings` in
`PROJECT.json` with the line it contradicts.

* `kernel_break`: the breakpoint flag is tested before the mutex is taken and not
  again before the wait.
* `cache_evict`: the address of an evicted line is taken from the tag array, where the
  new line's tag already is.
* `pipeline_flush`: the flush function of a state releases what the state allocates, also for an
  instruction that still waits in it.

Others that were met while modelling are notes of the hazards in `PROJECT.json`: where an
instance excludes a configuration, its hazard says what the model does there.

## Plan

1. `FetchUnit` composed with `UadlMemory` and with `Pipeline`, in place of the memory and the
   pipeline that each of them now has as its environment.
2. `BlockHash` and `DmiMemHandler`: tables of the ISS run-time that must follow invalidations.
3. `BranchPredictor`, semaphores and flags; independent scheduling and shared stages.
4. Proofs still wanted: `StreamIsTheProgram` and `SpaceIsExact` of the fetch unit,
   `StoreBufferInStep` of the cache.

## Not modelled

The compilers (front end, generators, assembler, documentation) are sequential
functions from text to text; their state does not outlive a run. File readers and
writers, the debugger interface, the formatting of traces and the shell are input and output. Bit
vectors are pure functions. Of the modelled parts, the notes of the components say which
operations are left out: mainly modes that a description or a build selects (safe mode, threads
in one pipeline, transactional traces, further cache commands). `PROJECT.json` gives the reason part by part.
