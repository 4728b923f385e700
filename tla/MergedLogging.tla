--------------------------- MODULE MergedLogging ---------------------------
(***************************************************************************)
(* Multi-threaded tracing: iss/ThreadedLogger.C and class LoggingMgrMtImpl *)
(* in iss/LoggingMgrImpl.C.  Every core runs in a thread of its own, makes *)
(* log objects and pushes them onto its logger's queue; after each         *)
(* instruction it pushes a commit object that carries the time at which    *)
(* it was made.  One I/O thread pops the queues and calls the clients,     *)
(* with several cores instruction by instruction, smallest stamp first.    *)
(*                                                                         *)
(* An event is <<core, instruction, n>>; the clock is the machine's        *)
(* nanosecond clock, read by get_nstime, which here ticks at every read.   *)
(***************************************************************************)
EXTENDS Naturals, Sequences, FiniteSetsExt

CONSTANTS
    Cores,      \* number of cores: loggers are scanned in the order 1 .. Cores
    Instrs,     \* instructions each core executes
    MaxEvents   \* events an instruction logs at most

Core == 1 .. Cores

ASSUME CoresAssumption ==
    /\ Cores \in Nat /\ Cores > 1   \* _multicore
    /\ Instrs \in Nat /\ MaxEvents \in Nat

VARIABLES
    queue,      \* _tqueue of each core's logger: events and commits
    stamp,      \* the stamp of the commit a core has made and not yet pushed (0: none)
    current,    \* the events of the instruction a core is executing
    logged,     \* the instructions a core has finished, each the sequence of its events
    clock,      \* the time get_nstime returns next
    pending,    \* _pending of each logger
    pending_ts, \* _pending_ts of each logger, 0 when nothing is pending
    io,         \* the I/O thread's loop: where it is, and whether it saw _done
    done,       \* _done
    trace,      \* the events the clients have received
    written,    \* per core, the instructions the clients have received
    ready       \* per core, the stamp a whole queued instruction had when the scan began (0: none)

cores == <<queue, stamp, current, logged, clock>>
thread == <<pending, pending_ts, io, trace, written, ready>>
vars == <<cores, thread, done>>

Event == Core \X (1 .. Instrs) \X (1 .. MaxEvents)
Object == [ts : {0}, event : Event] \union [ts : Nat \ {0}]
IsCommit(obj) == obj.ts > 0
Position == [pc : {"scan", "stopped"}, i : 1 .. Cores + 1, min_ts : Nat, min_index : 0 .. Cores,
             last : BOOLEAN]

\* Every variable holds what its declaration allows, and the clients have received
\* no more instructions than were logged.
TypeOK ==
    /\ queue \in [Core -> Seq(Object)] /\ stamp \in [Core -> Nat]
    /\ current \in [Core -> Seq(Event)] /\ logged \in [Core -> Seq(Seq(Event))]
    /\ clock \in Nat \ {0}
    /\ pending \in [Core -> Seq(Event)] /\ pending_ts \in [Core -> Nat]
    /\ io \in Position
    /\ done \in BOOLEAN
    /\ trace \in Seq(Event)
    /\ written \in [Core -> Nat] /\ \A c \in Core : written[c] <= Len(logged[c])
    /\ ready \in [Core -> Nat]

---------------------------------------------------------------------------
(* The core threads                                                        *)

\* log_*: the core makes an object for an event of its current instruction
\* and pushes it: while (!_tqueue.push(obj)).  The queue of the locked variant
\* always has room, the lock-free one grows.
Log(c) ==
    /\ ~done /\ stamp[c] = 0
    /\ Len(logged[c]) < Instrs /\ Len(current[c]) < MaxEvents
    /\ LET event == <<c, Len(logged[c]) + 1, Len(current[c]) + 1>>
       IN  /\ queue' = [queue EXCEPT ![c] = Append(@, [ts |-> 0, event |-> event])]
           /\ current' = [current EXCEPT ![c] = Append(@, event)]
    /\ UNCHANGED <<stamp, logged, clock, thread, done>>

\* log_commit: the commit object reads the clock when it is made ...
Stamp(c) ==
    /\ ~done /\ stamp[c] = 0 /\ current[c] # <<>>
    /\ stamp' = [stamp EXCEPT ![c] = clock]
    /\ clock' = clock + 1
    /\ UNCHANGED <<queue, current, logged, thread, done>>

\* ... and is pushed at some later moment.
log_commit(c) ==
    /\ stamp[c] > 0
    /\ queue' = [queue EXCEPT ![c] = Append(@, [ts |-> stamp[c]])]
    /\ stamp' = [stamp EXCEPT ![c] = 0]
    /\ logged' = [logged EXCEPT ![c] = Append(@, current[c])]
    /\ current' = [current EXCEPT ![c] = <<>>]
    /\ UNCHANGED <<clock, thread, done>>

\* doneLogging: the simulation has ended, no core runs any more.
doneLogging ==
    /\ ~done /\ \A c \in Core : stamp[c] = 0
    /\ done' = TRUE
    /\ UNCHANGED <<cores, thread>>

---------------------------------------------------------------------------
(* The I/O thread                                                          *)

\* The position of the first commit in a queue, 0 when there is none.
FirstCommit(q) ==
    LET commits == {i \in 1 .. Len(q) : IsCommit(q[i])}
    IN  IF commits = {} THEN 0 ELSE Min(commits)
Events(q) == [i \in 1 .. Len(q) |-> q[i].event]

\* ThreadedLogger::handleMergedLogging: everything up to the next commit
\* goes to the pending list, unless an instruction is pending already.
TakeInstr(c) ==
    LET n == FirstCommit(queue[c])
        upto == IF n = 0 THEN Len(queue[c]) ELSE n
    IN  IF pending_ts[c] > 0 THEN UNCHANGED <<queue, pending, pending_ts>>
        ELSE /\ queue' = [queue EXCEPT ![c] = SubSeq(@, upto + 1, Len(@))]
             /\ pending' = [pending EXCEPT
                    ![c] = @ \o Events(SubSeq(queue[c], 1, IF n = 0 THEN upto ELSE n - 1))]
             /\ pending_ts' = [pending_ts EXCEPT ![c] = IF n = 0 THEN 0 ELSE queue[c][n].ts]

\* The stamp of the whole instruction a logger could hand out now, 0 if none.
Available(c) ==
    IF pending_ts[c] > 0 THEN pending_ts[c]
    ELSE IF FirstCommit(queue[c]) = 0 THEN 0 ELSE queue[c][FirstCommit(queue[c])].ts

\* LoggingMgrMtImpl::handleMergedLogging, the loop over the loggers: one
\* logger is asked, and the smallest time stamp so far is kept.
Better_Latest(ts, best) == ts > 0 /\ (best = 0 \/ ts > best)
Better(ts, best) == ts > 0 /\ (best = 0 \/ ts < best)
Scan ==
    /\ io.pc = "scan" /\ io.i =< Cores
    /\ TakeInstr(io.i)
    /\ LET ts == pending_ts'[io.i]
       IN  io' = IF Better(ts, io.min_ts)
                 THEN [io EXCEPT !.i = @ + 1, !.min_ts = ts, !.min_index = io.i]
                 ELSE [io EXCEPT !.i = @ + 1]
    /\ ready' = IF io.i = 1 THEN [c \in Core |-> Available(c)] ELSE ready
    /\ UNCHANGED <<stamp, current, logged, clock, trace, written, done>>

\* commitMergedLogging of the winner, or the end of the loops of
\* runMergedStream: after done, an empty scan ends the thread.
Restart == [pc |-> "scan", i |-> 1, min_ts |-> 0, min_index |-> 0, last |-> done]
commitMergedLogging_Keep ==
    /\ io.pc = "scan" /\ io.i > Cores /\ io.min_index > 0
    /\ LET c == io.min_index
       IN  /\ trace' = trace \o pending[c]
           /\ pending' = [pending EXCEPT ![c] = <<>>]
           /\ UNCHANGED pending_ts
           /\ written' = [written EXCEPT ![c] = @ + 1]
    /\ io' = Restart
    /\ UNCHANGED <<cores, ready, done>>
commitMergedLogging_NoClear ==
    /\ io.pc = "scan" /\ io.i > Cores /\ io.min_index > 0
    /\ LET c == io.min_index
       IN  /\ trace' = trace \o pending[c]
           /\ UNCHANGED pending
           /\ pending_ts' = [pending_ts EXCEPT ![c] = 0]
           /\ written' = [written EXCEPT ![c] = @ + 1]
    /\ io' = Restart
    /\ UNCHANGED <<cores, ready, done>>
commitMergedLogging ==
    /\ io.pc = "scan" /\ io.i > Cores /\ io.min_index > 0
    /\ LET c == io.min_index
       IN  /\ trace' = trace \o pending[c]
           /\ pending' = [pending EXCEPT ![c] = <<>>]
           /\ pending_ts' = [pending_ts EXCEPT ![c] = 0]
           /\ written' = [written EXCEPT ![c] = @ + 1]
    /\ io' = Restart
    /\ UNCHANGED <<cores, ready, done>>

\* Nothing to write: sched_yield and scan again while the simulation runs;
\* once done was seen before the scan began, the queues are drained.
runMergedStream_NoDrain ==
    /\ io.pc = "scan" /\ io.i > Cores /\ io.min_index = 0
    /\ io' = IF done THEN [Restart EXCEPT !.pc = "stopped"] ELSE Restart
    /\ UNCHANGED <<cores, pending, pending_ts, trace, written, ready, done>>
runMergedStream_Forever ==
    /\ io.pc = "scan" /\ io.i > Cores /\ io.min_index = 0
    /\ io' = Restart
    /\ UNCHANGED <<cores, pending, pending_ts, trace, written, ready, done>>
runMergedStream ==
    /\ io.pc = "scan" /\ io.i > Cores /\ io.min_index = 0
    /\ io' = IF io.last THEN [Restart EXCEPT !.pc = "stopped"] ELSE Restart
    /\ UNCHANGED <<cores, pending, pending_ts, trace, written, ready, done>>

---------------------------------------------------------------------------
Init ==
    /\ queue = [c \in Core |-> <<>>] /\ stamp = [c \in Core |-> 0]
    /\ current = [c \in Core |-> <<>>] /\ logged = [c \in Core |-> <<>>]
    /\ clock = 1
    /\ pending = [c \in Core |-> <<>>] /\ pending_ts = [c \in Core |-> 0]
    /\ done = FALSE
    /\ io = Restart
    /\ trace = <<>> /\ written = [c \in Core |-> 0] /\ ready = [c \in Core |-> 0]

\* doneLogging has joined the thread.
Joined == io.pc = "stopped" /\ UNCHANGED vars

Next ==
    \/ \E c \in Core : Log(c) \/ Stamp(c) \/ log_commit(c)
    \/ doneLogging
    \/ Scan \/ commitMergedLogging \/ runMergedStream
    \/ Joined

Spec == Init /\ [][Next]_vars

\* The I/O thread runs, and so does a core that is about to push.
Fairness ==
    /\ WF_vars(Scan) /\ WF_vars(commitMergedLogging) /\ WF_vars(runMergedStream)
    /\ \A c \in Core : WF_vars(log_commit(c))

FairSpec == Spec /\ Fairness

---------------------------------------------------------------------------
(* Properties                                                              *)

Stream == INSTANCE TraceStream

\* Refinement: whatever the threads do, the clients see every core's
\* instructions whole and in program order (handleMergedLogging gathers one
\* instruction, commitMergedLogging writes it).
WritesWholeInstructions == Stream!TSpec

\* The loop over the loggers chooses well: no core had, when the scan began,
\* a whole instruction older than the one about to be written.
OldestReadyFirst ==
    (io.i > Cores /\ io.min_index > 0) => \A c \in Core : ready[c] > 0 => io.min_ts =< ready[c]

\* After doneLogging has joined the thread, every instruction the cores
\* committed has reached the clients (the drain loop of runMergedStream).
DrainedAtEnd == io.pc = "stopped" => \A c \in Core : written[c] = Len(logged[c])

\* The trace keeps up: an instruction that was committed is written, with or
\* without the end of the simulation, and doneLogging's join returns.
TraceKeepsUp ==
    /\ \A c \in Core : \A k \in 1 .. Instrs : Len(logged[c]) >= k ~> written[c] >= k
    /\ done ~> io.pc = "stopped"
=============================================================================
