---------------------------- MODULE ThreadedKernel ----------------------------
(***************************************************************************)
(* The multi-threaded simulation kernel (iss/ThreadedKernel.C): one thread *)
(* per core, a main thread that starts a run and waits for its end, time   *)
(* quanta that keep the cores together, sleeping while a core is inactive, *)
(* breakpoints, and exceptions raised in one core by another.              *)
(*                                                                         *)
(* A step is the code between two points where another thread can be seen: *)
(* a critical section of _run_mutex is one step unless it calls something  *)
(* that reads or writes state the mutex does not protect, or waits.  The   *)
(* two barriers have no state of their own: the last thread to arrive lets *)
(* all the others go.                                                      *)
(*                                                                         *)
(* The simulated programs and the user are the environment: an instruction *)
(* may do any of the things named in Events.                               *)
(***************************************************************************)
EXTENDS Integers, FiniteSets

CONSTANTS
  Cores,       \* the children of the root node
  Front,       \* the first of them, which answers for the root
  InitActive,  \* the cores that are active when the pool is created
  Quantum,     \* td threshold of the cores when the pool is created
  InstrMax,    \* maximum instruction count; 0: no limit
  MaxRuns,     \* bound: calls of threadedSimRun()
  Events       \* what programs and user do, a subset of AllEvents

\* "halt": an instruction halts its own core; "wake", "stop": it activates or
\* halts another one (event bus); "break": it hits a breakpoint; "raise": it
\* raises an exception in a core.  Between two runs the user changes a core's
\* activity, once all threads wait for the next run ("script") or at any time
\* ("hasty"), and may start a run with no active core ("rerun").
AllEvents == {"halt", "wake", "stop", "break", "raise", "script", "hasty", "rerun"}

ASSUME KernelAssumption ==
  /\ IsFiniteSet(Cores) /\ Front \in Cores /\ InitActive \subseteq Cores
  /\ Quantum \in Nat \ {0} /\ InstrMax \in Nat /\ MaxRuns \in Nat
  /\ Events \subseteq AllEvents

VARIABLES
  \* of each core
  active,      \* _active
  callback,    \* _active_callback is set
  counter,     \* _td_counter, saturated at Top
  threshold,   \* _td_threshold; Never stands for (uint64_t)-1
  instrs,      \* instr_count(), saturated at InstrMax
  pending,     \* an exception waits in the core's temporary flag
  \* of each SimThread
  exception,   \* _exception
  pc,          \* where the thread is
  target,      \* the core its current instruction raises an exception in
  \* of the pool
  active_count, wait_count, quit, brkpt, full_stop,
  \* of the main thread
  main,        \* where it is
  orig_tdt,    \* the root's threshold when the run was started
  runs         \* runs started

coreVars == <<active, callback, counter, threshold, instrs, pending>>
poolVars == <<active_count, wait_count, quit, brkpt, full_stop>>
mainVars == <<main, orig_tdt, runs>>
vars     == <<coreVars, exception, pc, target, poolVars, mainVars>>

Top   == IF Quantum > InstrMax THEN Quantum ELSE InstrMax
Never == Top + 1

\* Where a thread is.  "top": start of run_internal(); "start", "end": at a
\* barrier; "run": at the top of the core's simulation loop; "exec": in an
\* instruction; "notify": set_active_count() has released the mutex; "raise":
\* trigger_exception() has cleared the threshold; "broke", "check", "halt":
\* run() has returned BREAK, ACTIVE, HALT; "quantum": about to lock because the
\* quantum is used up; "synch", "idle": asleep on _run_cond, in the quantum or
\* for lack of activity; "woken": out of the latter, without the mutex yet;
\* "apply", "applied", "restored": applying exceptions; "limit": calls
\* set_active_count() with the mutex held; "done": out of simulate().
Waiting    == {"top", "start", "exited"}
Simulating == {"run", "exec", "notify", "raise", "broke", "check", "quantum",
               "synch", "halt", "idle", "woken", "apply", "applied",
               "restored", "limit", "done"}
Holding    == {"apply", "applied", "restored", "limit"}

\* The type invariant: the state of the cores, the SimThread objects, the
\* ThreadPoolImpl and the main thread.
TypeOK ==
  /\ active \in [Cores -> BOOLEAN] /\ callback \in [Cores -> BOOLEAN]
  /\ counter \in [Cores -> 0 .. Top] /\ threshold \in [Cores -> 0 .. Never]
  /\ instrs \in [Cores -> 0 .. InstrMax] /\ pending \in [Cores -> BOOLEAN]
  /\ exception \in [Cores -> BOOLEAN] /\ target \in [Cores -> Cores]
  /\ pc \in [Cores -> Waiting \cup Simulating \cup {"end"}]
  /\ active_count \in Nat /\ wait_count \in Nat
  /\ quit \in BOOLEAN /\ brkpt \in BOOLEAN /\ full_stop \in BOOLEAN
  /\ main \in {"idle", "start", "end", "return", "stopping", "deleted"}
  /\ orig_tdt \in 0 .. Never /\ runs \in 0 .. MaxRuns

\* The pool is created by the first run (ExecSupport.C), with all its threads.
Init ==
  /\ active = [c \in Cores |-> c \in InitActive]
  /\ callback = [c \in Cores |-> FALSE]
  /\ counter = [c \in Cores |-> 0] /\ threshold = [c \in Cores |-> Quantum]
  /\ instrs = [c \in Cores |-> 0] /\ pending = [c \in Cores |-> FALSE]
  /\ exception = [c \in Cores |-> FALSE] /\ target = [c \in Cores |-> c]
  /\ pc = [c \in Cores |-> "top"]
  /\ active_count = Cardinality(Cores) /\ wait_count = 0
  /\ quit = FALSE /\ brkpt = FALSE /\ full_stop = FALSE
  /\ main = "idle" /\ orig_tdt = Quantum /\ runs = 0

\* No other thread holds _run_mutex across steps.
Free == \A c \in Cores : pc[c] \notin Holding

-----------------------------------------------------------------------------
(* The barriers and the main thread                                        *)

\* The threads leave the start barrier: the pool is shut down or a run begins.
Leave == pc' = [c \in Cores |-> IF full_stop' THEN "exited" ELSE "run"]

\* wait_on_start() in the main thread, which goes on to `next'.
ArriveMain(here, next) ==
  IF \A c \in Cores : pc[c] = "start"
    THEN Leave /\ main' = next
    ELSE main' = here /\ UNCHANGED pc

\* threadedSimRun() up to the start barrier, with ThreadPoolImpl::reset().
threadedSimRun ==
  /\ main = "idle" /\ runs < MaxRuns
  /\ "rerun" \in Events \/ \E c \in Cores : active[c]
  /\ runs' = runs + 1
  /\ orig_tdt' = threshold[Front]
  /\ quit' = FALSE /\ brkpt' = FALSE /\ wait_count' = 0
  /\ UNCHANGED <<coreVars, exception, target, active_count, full_stop>>
  /\ ArriveMain("start", "end")

\* threadedSimRun() after the done barrier.
Return ==
  /\ main = "return"
  /\ main' = "idle"
  /\ threshold' = IF threshold[Front] = 0 THEN [c \in Cores |-> orig_tdt] ELSE threshold
  /\ UNCHANGED <<active, callback, counter, instrs, pending, exception, pc,
                 target, poolVars, orig_tdt, runs>>

\* ~ThreadPoolImpl() up to and including the start barrier; the joins follow.
Delete ==
  /\ main = "idle"
  /\ full_stop' = TRUE
  /\ UNCHANGED <<coreVars, exception, target, active_count, wait_count, quit,
                 brkpt, orig_tdt, runs>>
  /\ ArriveMain("stopping", "deleted")

\* Start with a barrier that does not count the main thread.
Start_Early(c) ==
  /\ pc[c] = "top"
  /\ callback' = [callback EXCEPT ![c] = TRUE]
  /\ UNCHANGED <<active, counter, threshold, instrs, pending, exception, target,
                 poolVars, orig_tdt, runs>>
  /\ IF \A d \in Cores \ {c} : pc[d] = "start"
       THEN Leave /\ main' = IF main = "start" THEN "end" ELSE "deleted"
       ELSE pc' = [pc EXCEPT ![c] = "start"] /\ UNCHANGED main

\* run_internal() from the top of its loop into the start barrier.
Start(c) ==
  /\ pc[c] = "top"
  /\ callback' = [callback EXCEPT ![c] = TRUE]
  /\ UNCHANGED <<active, counter, threshold, instrs, pending, exception, target,
                 poolVars, orig_tdt, runs>>
  /\ IF main \in {"start", "stopping"} /\ \A d \in Cores \ {c} : pc[d] = "start"
       THEN Leave /\ main' = IF main = "start" THEN "end" ELSE "deleted"
       ELSE pc' = [pc EXCEPT ![c] = "start"] /\ UNCHANGED main

\* run_internal() after simulate(), into the done barrier.
Finish(c) ==
  /\ pc[c] = "done"
  /\ callback' = [callback EXCEPT ![c] = FALSE]
  /\ UNCHANGED <<active, counter, threshold, instrs, pending, exception, target,
                 poolVars, orig_tdt, runs>>
  /\ IF main = "end" /\ \A d \in Cores \ {c} : pc[d] = "end"
       THEN pc' = [d \in Cores |-> "top"] /\ main' = "return"
       ELSE pc' = [pc EXCEPT ![c] = "end"] /\ UNCHANGED main

-----------------------------------------------------------------------------
(* Activity                                                                *)

\* pc once _run_cond.notify_all() has been called and thread c goes to `next'.
notify_all(c, next) ==
  [d \in Cores |-> IF d = c THEN next
                   ELSE CASE pc[d] = "synch" -> "halt"
                          [] pc[d] = "idle"  -> "woken"
                          [] OTHER           -> pc[d]]

\* set_active_count that counts up and down.
set_active_count_Step(d, n) ==
  /\ active' = [active EXCEPT ![d] = n]
  /\ IF callback[d]
       THEN /\ Free
            /\ quit' = \A x \in Cores : ~active'[x]
            /\ active_count' = IF n THEN active_count + 1 ELSE active_count - 1
       ELSE UNCHANGED <<quit, active_count>>

\* set_active_count(n) of core d: the critical section, if a thread listens.
set_active_count(d, n) ==
  /\ active' = [active EXCEPT ![d] = n]
  /\ IF callback[d]
       THEN /\ Free
            /\ quit' = \A x \in Cores : ~active'[x]
            /\ active_count' = Cardinality({x \in Cores : active'[x]})
       ELSE UNCHANGED <<quit, active_count>>

\* The user changes a core's activity between two runs.
Script ==
  /\ main = "idle"
  /\ \/ "hasty" \in Events
     \/ "script" \in Events /\ \A c \in Cores : pc[c] = "start"
  /\ \E d \in Cores, n \in BOOLEAN : active[d] # n /\ set_active_count(d, n)
  /\ UNCHANGED <<callback, counter, threshold, instrs, pending, exception, pc,
                 target, wait_count, brkpt, full_stop, mainVars>>

-----------------------------------------------------------------------------
(* The core's simulation loop                                              *)

\* Loop without the test of the core's activity, and one whose thread leaves
\* simulate() whenever run() returns.
Loop_Blind(c) ==
  /\ pc[c] = "run"
  /\ LET go == counter[c] < threshold[c]
     IN  /\ pc' = [pc EXCEPT ![c] = IF go THEN "exec"
                                    ELSE IF active[c] THEN "check" ELSE "halt"]
         /\ counter' = [counter EXCEPT ![c] = IF go /\ @ < Top THEN @ + 1 ELSE @]
  /\ UNCHANGED <<active, callback, threshold, instrs, pending, exception, target,
                 poolVars, mainVars>>

Loop_Once(c) ==
  /\ pc[c] = "run"
  /\ LET go == active[c] /\ counter[c] < threshold[c]
     IN  /\ pc' = [pc EXCEPT ![c] = IF go THEN "exec" ELSE "done"]
         /\ counter' = [counter EXCEPT ![c] = IF go /\ @ < Top THEN @ + 1 ELSE @]
  /\ UNCHANGED <<active, callback, threshold, instrs, pending, exception, target,
                 poolVars, mainVars>>

\* The top of the loop: leave run() or begin an instruction.
Loop(c) ==
  /\ pc[c] = "run"
  /\ LET go == active[c] /\ counter[c] < threshold[c]
     IN  /\ pc' = [pc EXCEPT ![c] = IF ~active[c] THEN "halt"
                                    ELSE IF go THEN "exec" ELSE "check"]
         /\ counter' = [counter EXCEPT ![c] = IF go /\ @ < Top THEN @ + 1 ELSE @]
  /\ UNCHANGED <<active, callback, threshold, instrs, pending, exception, target,
                 poolVars, mainVars>>

\* The instruction limit is reached: simulate() halts the core.
OverLimit(c) == InstrMax # 0 /\ instrs[c] >= InstrMax

Count(c) == instrs' = [instrs EXCEPT ![c] = IF @ < InstrMax THEN @ + 1 ELSE @]

\* An instruction that does nothing of interest here; nothing is executed when
\* the core was halted since the top of the loop.
Plain(c) ==
  /\ pc[c] = "exec" /\ ~OverLimit(c)
  /\ IF active[c] THEN Count(c) ELSE UNCHANGED instrs
  /\ pc' = [pc EXCEPT ![c] = "run"]
  /\ UNCHANGED <<active, callback, counter, threshold, pending, exception,
                 target, poolVars, mainVars>>

\* The instruction changes the activity of core d: its own, or that of another
\* core, whose event bus handler runs in this thread (a broadcast calls the
\* handlers one after the other, and the simulation loop takes no part in their
\* lock).
Signal(c, d, n) ==
  /\ pc[c] = "exec"
  /\ set_active_count(d, n)
  /\ pc' = [pc EXCEPT ![c] = IF callback[d] THEN "notify" ELSE "run"]
  /\ UNCHANGED <<callback, counter, threshold, pending, exception, target,
                 wait_count, brkpt, full_stop, mainVars>>

Halt(c) == OverLimit(c) /\ Signal(c, c, FALSE) /\ UNCHANGED instrs

HaltInstr(c) == "halt" \in Events /\ ~OverLimit(c) /\ Signal(c, c, FALSE) /\ Count(c)

WakeInstr(c) ==
  "wake" \in Events /\ ~OverLimit(c) /\ Count(c) /\ \E d \in Cores \ {c} : Signal(c, d, TRUE)

StopInstr(c) ==
  "stop" \in Events /\ ~OverLimit(c) /\ Count(c) /\ \E d \in Cores \ {c} : Signal(c, d, FALSE)

\* set_active_count without notify_all().
Notify_Silent(c) ==
  /\ pc[c] = "notify"
  /\ pc' = [pc EXCEPT ![c] = "run"]
  /\ UNCHANGED <<coreVars, exception, target, poolVars, mainVars>>

\* set_active_count() wakes the sleepers after it has released the mutex.
Notify(c) ==
  /\ pc[c] = "notify"
  /\ pc' = notify_all(c, "run")
  /\ UNCHANGED <<coreVars, exception, target, poolVars, mainVars>>

\* The instruction hits a breakpoint.
BreakInstr(c) ==
  /\ pc[c] = "exec" /\ "break" \in Events /\ ~OverLimit(c)
  /\ pc' = [pc EXCEPT ![c] = "broke"]
  /\ UNCHANGED <<coreVars, exception, target, poolVars, mainVars>>

\* The exception lock of core d is held by a thread in genExceptions().
Raising(d) == \E c \in Cores : pc[c] = "raise" /\ target[c] = d

\* genExceptions() of core d up to the first assignment of trigger_exception().
genExceptions(c, d) ==
  /\ pc[c] = "exec" /\ "raise" \in Events /\ ~OverLimit(c) /\ ~Raising(d)
  /\ Count(c)
  /\ pending' = [pending EXCEPT ![d] = TRUE]
  /\ threshold' = [threshold EXCEPT ![d] = IF callback[d] THEN 0 ELSE @]
  /\ target' = [target EXCEPT ![c] = d]
  /\ pc' = [pc EXCEPT ![c] = IF callback[d] THEN "raise" ELSE "run"]
  /\ UNCHANGED <<active, callback, counter, exception, poolVars, mainVars>>

\* The rest of trigger_exception().
trigger_exception(c) ==
  /\ pc[c] = "raise"
  /\ exception' = [exception EXCEPT ![target[c]] = TRUE]
  /\ pc' = [pc EXCEPT ![c] = "run"]
  /\ UNCHANGED <<coreVars, target, poolVars, mainVars>>

-----------------------------------------------------------------------------
(* simulate(): what a thread does when run() has returned                  *)

\* case BREAK
Broke(c) ==
  /\ pc[c] = "broke" /\ Free
  /\ brkpt' = TRUE
  /\ threshold' = [d \in Cores |-> 0]
  /\ pc' = notify_all(c, "done")
  /\ UNCHANGED <<active, callback, counter, instrs, pending, exception, target,
                 active_count, wait_count, quit, full_stop, mainVars>>

Spent(c) == counter[c] >= threshold[c]

\* case ACTIVE: the test before the mutex is taken.
Check(c) ==
  /\ pc[c] = "check"
  /\ pc' = [pc EXCEPT ![c] = IF ~exception[c] /\ ~brkpt /\ Spent(c)
                             THEN "quantum" ELSE "halt"]
  /\ UNCHANGED <<coreVars, exception, target, poolVars, mainVars>>

\* Synchronize off by one.
Synchronize_Late(c) ==
  /\ pc[c] = "quantum" /\ Free
  /\ counter' = [counter EXCEPT ![c] = 0]
  /\ \/ /\ active_count > 1 /\ wait_count + 1 > active_count
        /\ wait_count' = 0
        /\ pc' = notify_all(c, "halt")
        /\ UNCHANGED threshold
     \/ /\ active_count > 1 /\ wait_count + 1 <= active_count
        /\ wait_count' = wait_count + 1
        /\ pc' = [pc EXCEPT ![c] = "synch"]
        /\ UNCHANGED threshold
     \/ /\ active_count <= 1
        /\ threshold' = [threshold EXCEPT ![c] = IF InstrMax # 0 THEN InstrMax ELSE Never]
        /\ pc' = [pc EXCEPT ![c] = "run"]
        /\ UNCHANGED wait_count
  /\ UNCHANGED <<active, callback, instrs, pending, exception, target,
                 active_count, quit, brkpt, full_stop, mainVars>>

\* case ACTIVE: the critical section, up to the wait.
Synchronize(c) ==
  /\ pc[c] = "quantum" /\ Free
  /\ counter' = [counter EXCEPT ![c] = 0]
  /\ \/ /\ active_count > 1 /\ wait_count + 1 >= active_count
        /\ wait_count' = 0
        /\ pc' = notify_all(c, "halt")
        /\ UNCHANGED threshold
     \/ /\ active_count > 1 /\ wait_count + 1 < active_count
        /\ wait_count' = wait_count + 1
        /\ pc' = [pc EXCEPT ![c] = "synch"]
        /\ UNCHANGED threshold
     \/ /\ active_count <= 1
        /\ threshold' = [threshold EXCEPT ![c] = IF InstrMax # 0 THEN InstrMax ELSE Never]
        /\ pc' = [pc EXCEPT ![c] = "run"]
        /\ UNCHANGED wait_count
  /\ UNCHANGED <<active, callback, instrs, pending, exception, target,
                 active_count, quit, brkpt, full_stop, mainVars>>

\* Evaluate where quit only keeps a thread from sleeping.
Evaluate_Spins(c) ==
  /\ pc[c] = "halt" /\ Free
  /\ pc' = [pc EXCEPT ![c] =
       IF quit THEN "run"
       ELSE IF ~active[c] /\ ~brkpt THEN "idle"
       ELSE IF ~Spent(c) THEN "run"
       ELSE IF exception[c] THEN "apply"
       ELSE IF OverLimit(c) THEN "limit"
       ELSE IF brkpt THEN "done" ELSE "run"]
  /\ UNCHANGED <<coreVars, exception, target, poolVars, mainVars>>

\* case HALT
Evaluate(c) ==
  /\ pc[c] = "halt" /\ Free
  /\ pc' = [pc EXCEPT ![c] =
       IF quit THEN "done"
       ELSE IF ~active[c] /\ ~brkpt THEN "idle"
       ELSE IF ~Spent(c) THEN "run"
       ELSE IF exception[c] THEN "apply"
       ELSE IF OverLimit(c) THEN "limit"
       ELSE IF brkpt THEN "done" ELSE "run"]
  /\ UNCHANGED <<coreVars, exception, target, poolVars, mainVars>>

\* Out of the wait for activity, back to the top of the loop.
Woken(c) ==
  /\ pc[c] = "woken" /\ Free
  /\ pc' = [pc EXCEPT ![c] = "run"]
  /\ UNCHANGED <<coreVars, exception, target, poolVars, mainVars>>

\* applyExceptions(), under the core's exception lock.
applyExceptions(c) ==
  /\ pc[c] = "apply" /\ ~Raising(c)
  /\ pending' = [pending EXCEPT ![c] = FALSE]
  /\ pc' = [pc EXCEPT ![c] = "applied"]
  /\ UNCHANGED <<active, callback, counter, threshold, instrs, exception, target,
                 poolVars, mainVars>>

RestoreThreshold(c) ==
  /\ pc[c] = "applied"
  /\ threshold' = [threshold EXCEPT ![c] = Quantum]
  /\ pc' = [pc EXCEPT ![c] = "restored"]
  /\ UNCHANGED <<active, callback, counter, instrs, pending, exception, target,
                 poolVars, mainVars>>

ClearException(c) ==
  /\ pc[c] = "restored"
  /\ exception' = [exception EXCEPT ![c] = FALSE]
  /\ pc' = [pc EXCEPT ![c] = "run"]
  /\ UNCHANGED <<coreVars, target, poolVars, mainVars>>

-----------------------------------------------------------------------------
Thread(c) ==
  \/ Start(c) \/ Finish(c) \/ Loop(c) \/ Plain(c) \/ Halt(c)
  \/ HaltInstr(c) \/ WakeInstr(c) \/ StopInstr(c) \/ Notify(c) \/ BreakInstr(c)
  \/ \E d \in Cores : genExceptions(c, d)
  \/ trigger_exception(c) \/ Broke(c) \/ Check(c) \/ Synchronize(c)
  \/ Evaluate(c) \/ Woken(c)
  \/ applyExceptions(c) \/ RestoreThreshold(c) \/ ClearException(c)

\* The pool has been deleted and its threads have been joined.
Deleted == main = "deleted" /\ UNCHANGED vars

Next == threadedSimRun \/ Return \/ Delete \/ Script \/ (\E c \in Cores : Thread(c)) \/ Deleted

Spec == Init /\ [][Next]_vars

\* The operating system runs every thread that can run, and the main thread
\* does not stop inside threadedSimRun().
Fairness == WF_vars(Return) /\ \A c \in Cores : WF_vars(Thread(c))

FairSpec == Spec /\ Fairness

-----------------------------------------------------------------------------
(* Properties. *)

\* "When this function completes, you can call it again" (ThreadedKernel.C:381):
\* threads simulate only while the main thread waits in threadedSimRun(), so
\* nothing moves while a debugger looks at the cores, and every thread takes
\* part in every run.
NoneOutsideRun ==
  \A c \in Cores : (pc[c] \in Simulating \cup {"end"}) <=> main = "end"

\* "At this point, we've hit a breakpoint or all cores have stopped"
\* (ThreadedKernel.C:401).
EndedForAReason == main = "return" => brkpt \/ \A c \in Cores : ~active[c]

\* Not everyone waits for everyone: during a run some thread is awake, and not
\* waiting for a mutex that it holds.
SomeoneAwake ==
  main = "end" => \E c \in Cores : pc[c] \in Simulating \ {"synch", "idle", "limit"}

\* The threads all leave a run that a core has ended by halting last: unless
\* set_active_count() revokes it, quit leaves nobody asleep, whatever
\* breakpoints, exceptions and limits come on top of it.
QuitEndsRun == quit /\ main = "end" ~> ~quit \/ main = "return"

\* set_active_count() recomputes quit at every change of activity, but in one
\* run it never takes it back, so no thread follows a quit that others miss;
\* true of programs that halt no other core.
QuitStays == [][quit /\ main = "end" => quit']_vars

\* "Wake up anybody who is sleeping due to synchronization"
\* (ThreadedKernel.C:219): after a breakpoint nobody sleeps in the quantum.
BreakWakesAll == brkpt => \A c \in Cores : pc[c] # "synch"

\* "Don't bother waiting if there's only one of us" (ThreadedKernel.C:241): the
\* only active core never sleeps in the quantum, except until the notification
\* of the core that was halted last.
LoneCoreRuns ==
  \A c \in Cores :
    pc[c] = "synch" /\ (\A d \in Cores : active[d] <=> d = c) =>
      \E d \in Cores : pc[d] = "notify"

=============================================================================
