------------------------- MODULE ThreadedKernelProofs -------------------------
(***************************************************************************)
(* Proofs about ThreadedKernel, for any number of cores, any quantum and   *)
(* instruction limit: the barriers keep the threads inside the runs; a run *)
(* only ends at a breakpoint or when all cores have stopped, if no program *)
(* halts another core; and never do all threads sleep, nor does the last   *)
(* active core wait, for the systems of Steady.                            *)
(***************************************************************************)
EXTENDS ThreadedKernel, FiniteSetTheorems, TLAPS

\* The pool is being shut down from the destructor on, and only then.
StopInv == full_stop <=> main \in {"stopping", "deleted"}

KernelInv == TypeOK /\ NoneOutsideRun /\ StopInv

Places == Waiting \cup Simulating \cup {"end"}

LEMMA TopType == Top \in Nat /\ Never \in Nat /\ Quantum \in 0 .. Top /\ InstrMax \in 0 .. Top
BY KernelAssumption DEF Top, Never

LEMMA CountType == ASSUME NEW S \in SUBSET Cores PROVE Cardinality(S) \in Nat
BY KernelAssumption, FS_Subset, FS_CardinalityType

\* notify_all() only moves threads that sleep, and they stay in simulate().
LEMMA NotifyType ==
  ASSUME pc \in [Cores -> Places], NEW c \in Cores, NEW next \in Simulating
  PROVE  /\ notify_all(c, next) \in [Cores -> Places]
         /\ notify_all(c, next)[c] = next
         /\ \A d \in Cores \ {c} :
              \/ notify_all(c, next)[d] = pc[d]
              \/ /\ pc[d] \in {"synch", "idle"}
                 /\ notify_all(c, next)[d] \in {"halt", "woken"}
BY DEF notify_all, Places, Simulating, Waiting

LEMMA InitKernel == Init => KernelInv
<1> SUFFICES ASSUME Init PROVE KernelInv
  BY Zenon
<1>1. TypeOK
  <2>1. /\ 0 \in 0 .. Top /\ 0 \in 0 .. InstrMax /\ 0 \in 0 .. MaxRuns
        /\ Quantum \in 0 .. Never
    BY KernelAssumption, TopType DEF Never
  <2>2. active_count \in Nat
    BY CountType, Zenon DEF Init
  <2>3. active \in [Cores -> BOOLEAN] /\ callback \in [Cores -> BOOLEAN]
    BY DEF Init
  <2>4. /\ counter \in [Cores -> 0 .. Top] /\ threshold \in [Cores -> 0 .. Never]
        /\ instrs \in [Cores -> 0 .. InstrMax]
        /\ orig_tdt \in 0 .. Never /\ runs \in 0 .. MaxRuns
    BY <2>1, Zenon DEF Init
  <2> QED
    BY <2>2, <2>3, <2>4, Zenon DEF Init, TypeOK, Waiting
<1>2. NoneOutsideRun /\ StopInv
  BY Zenon DEF Init, NoneOutsideRun, StopInv, Simulating
<1> QED
  BY <1>1, <1>2, Zenon DEF KernelInv

\* What a thread does inside simulate(), as far as the barriers see it.
Inside(c) ==
  /\ pc[c] \in Simulating /\ pc' \in [Cores -> Places]
  /\ pc'[c] \in Simulating
  /\ \A d \in Cores \ {c} :
       \/ pc'[d] = pc[d]
       \/ pc[d] \in Simulating /\ pc'[d] \in Simulating
  /\ UNCHANGED <<main, full_stop>>

\* A step that moves only thread c, within simulate().
LEMMA OneInside ==
  ASSUME TypeOK, NEW c \in Cores, NEW next \in Simulating, pc[c] \in Simulating,
         pc' = [pc EXCEPT ![c] = next], UNCHANGED <<main, full_stop>>
  PROVE  Inside(c)
BY DEF TypeOK, Inside, Places

LEMMA AllInside ==
  ASSUME TypeOK, NEW c \in Cores, NEW next \in Simulating, pc[c] \in Simulating,
         pc' = notify_all(c, next), UNCHANGED <<main, full_stop>>
  PROVE  Inside(c)
<1>1. pc \in [Cores -> Places]
  BY Zenon DEF TypeOK, Places
<1>2. {"synch", "idle", "halt", "woken"} \subseteq Simulating
  BY Zenon DEF Simulating
<1>3. /\ pc' \in [Cores -> Places] /\ pc'[c] = next
      /\ \A d \in Cores \ {c} :
           \/ pc'[d] = pc[d]
           \/ pc[d] \in {"synch", "idle"} /\ pc'[d] \in {"halt", "woken"}
  BY <1>1, NotifyType
<1> QED
  BY <1>2, <1>3, Zenon DEF Inside

\* The steps of simulate() and of the core it runs.
Simulate(c) ==
  \/ Loop(c) \/ Plain(c) \/ Halt(c)
  \/ HaltInstr(c) \/ WakeInstr(c) \/ StopInstr(c) \/ Notify(c) \/ BreakInstr(c)
  \/ \E d \in Cores : genExceptions(c, d)
  \/ trigger_exception(c) \/ Broke(c) \/ Check(c) \/ Synchronize(c)
  \/ Evaluate(c) \/ Woken(c)
  \/ applyExceptions(c) \/ RestoreThreshold(c) \/ ClearException(c)

LEMMA SimulateInside ==
  ASSUME TypeOK, NEW c \in Cores, Simulate(c)
  PROVE  Inside(c)
<1> USE DEF poolVars, mainVars
<1>1. CASE Loop(c)
  BY <1>1, OneInside, Zenon DEF Loop, Simulating
<1>2. CASE Plain(c)
  BY <1>2, OneInside, Zenon DEF Plain, Simulating
<1>3. ASSUME NEW d \in Cores, NEW n \in BOOLEAN, Signal(c, d, n)
      PROVE  Inside(c)
  BY <1>3, OneInside, Zenon DEF Signal, Simulating
<1>4. CASE Halt(c) \/ HaltInstr(c) \/ WakeInstr(c) \/ StopInstr(c)
  BY <1>3, <1>4, Zenon DEF Halt, HaltInstr, WakeInstr, StopInstr
<1>5. CASE Notify(c)
  BY <1>5, AllInside, Zenon DEF Notify, Simulating
<1>6. CASE BreakInstr(c)
  BY <1>6, OneInside, Zenon DEF BreakInstr, Simulating
<1>7. CASE \E d \in Cores : genExceptions(c, d)
  BY <1>7, OneInside, Zenon DEF genExceptions, Simulating
<1>8. CASE trigger_exception(c)
  BY <1>8, OneInside, Zenon DEF trigger_exception, Simulating
<1>9. CASE Broke(c)
  BY <1>9, AllInside, Zenon DEF Broke, Simulating
<1>10. CASE Check(c)
  BY <1>10, OneInside, Zenon DEF Check, Simulating
<1>11. CASE Synchronize(c)
  BY <1>11, OneInside, AllInside, Zenon DEF Synchronize, Simulating
<1>12. CASE Evaluate(c)
  BY <1>12, OneInside, Zenon DEF Evaluate, Simulating
<1>13. CASE Woken(c)
  BY <1>13, OneInside, Zenon DEF Woken, Simulating
<1>14. CASE applyExceptions(c) \/ RestoreThreshold(c) \/ ClearException(c)
  BY <1>14, OneInside, Zenon DEF applyExceptions, RestoreThreshold, ClearException, Simulating
<1> QED
  BY <1>1, <1>2, <1>4, <1>5, <1>6, <1>7, <1>8, <1>9, <1>10, <1>11, <1>12, <1>13,
     <1>14 DEF Simulate

\* The barriers keep NoneOutsideRun.
LEMMA BarrierStep ==
  ASSUME KernelInv, [Next]_vars
  PROVE  NoneOutsideRun' /\ StopInv'
<1> USE DEF KernelInv
<1>1. ASSUME NEW c \in Cores, Simulate(c)
      PROVE  NoneOutsideRun' /\ StopInv'
  BY <1>1, SimulateInside, Zenon DEF Inside, NoneOutsideRun, StopInv
<1>2. \A c \in Cores : pc[c] \in {"top", "start", "exited"} => pc[c] \notin Simulating \cup {"end"}
  BY Zenon DEF Simulating
<1>3. ASSUME main # "end", Leave, full_stop' = full_stop,
             main' = IF full_stop THEN "deleted" ELSE "end"
      PROVE  NoneOutsideRun' /\ StopInv'
  BY <1>3, Zenon DEF Leave, NoneOutsideRun, StopInv, Simulating
<1>4. CASE threadedSimRun
  BY <1>3, <1>4, Zenon DEF threadedSimRun, ArriveMain, NoneOutsideRun, StopInv
<1>5. CASE Delete
  <2>1. CASE \A c \in Cores : pc[c] = "start"
    BY <1>5, <2>1 DEF Delete, ArriveMain, Leave, NoneOutsideRun, StopInv, Simulating
  <2>2. CASE ~\A c \in Cores : pc[c] = "start"
    BY <1>5, <2>2, Zenon DEF Delete, ArriveMain, NoneOutsideRun, StopInv
  <2> QED
    BY <2>1, <2>2, Zenon
<1>6. ASSUME NEW c \in Cores, Start(c)
      PROVE  NoneOutsideRun' /\ StopInv'
  <2>1. main # "end"
    BY <1>2, <1>6, Zenon DEF Start, NoneOutsideRun
  <2>2. CASE main \in {"start", "stopping"} /\ \A d \in Cores \ {c} : pc[d] = "start"
    BY <1>3, <1>6, <2>1, <2>2, Zenon DEF Start, StopInv, poolVars
  <2>3. CASE ~(main \in {"start", "stopping"} /\ \A d \in Cores \ {c} : pc[d] = "start")
    <3>1. pc' = [pc EXCEPT ![c] = "start"] /\ UNCHANGED <<main, full_stop>>
      BY <1>6, <2>3, Zenon DEF Start, poolVars
    <3>2. "start" \notin Simulating \cup {"end"} /\ pc \in [Cores -> Places]
      BY Zenon DEF Simulating, TypeOK, Places
    <3> QED
      BY <2>1, <3>1, <3>2, Zenon DEF NoneOutsideRun, StopInv
  <2> QED
    BY <2>2, <2>3, Zenon
<1>7. ASSUME NEW c \in Cores, Finish(c)
      PROVE  NoneOutsideRun' /\ StopInv'
  <2>1. main = "end" /\ UNCHANGED full_stop
    BY <1>7, Zenon DEF Finish, NoneOutsideRun, Simulating, poolVars
  <2>2. CASE \A d \in Cores \ {c} : pc[d] = "end"
    BY <1>7, <2>1, <2>2, Zenon DEF Finish, NoneOutsideRun, StopInv, Simulating
  <2>3. CASE ~\A d \in Cores \ {c} : pc[d] = "end"
    <3>1. pc' = [pc EXCEPT ![c] = "end"] /\ UNCHANGED main
      BY <1>7, <2>3, Zenon DEF Finish
    <3>2. pc \in [Cores -> Places]
      BY Zenon DEF TypeOK, Places
    <3> QED
      BY <2>1, <3>1, <3>2, Zenon DEF NoneOutsideRun, StopInv
  <2> QED
    BY <2>2, <2>3, Zenon
<1>8. CASE Return
  BY <1>8, Zenon DEF Return, NoneOutsideRun, StopInv, poolVars
<1>9. CASE Script \/ Deleted \/ UNCHANGED vars
  BY <1>9 DEF Script, Deleted, NoneOutsideRun, StopInv, mainVars, poolVars, vars
<1> QED
  BY <1>1, <1>4, <1>5, <1>6, <1>7, <1>8, <1>9, Zenon DEF Next, Thread, Simulate

-----------------------------------------------------------------------------
(* Types                                                                   *)

\* The part of TypeOK that simulate() changes.
SimulateType ==
  /\ active \in [Cores -> BOOLEAN]
  /\ counter \in [Cores -> 0 .. Top] /\ threshold \in [Cores -> 0 .. Never]
  /\ instrs \in [Cores -> 0 .. InstrMax] /\ pending \in [Cores -> BOOLEAN]
  /\ exception \in [Cores -> BOOLEAN] /\ target \in [Cores -> Cores]
  /\ active_count \in Nat /\ wait_count \in Nat
  /\ quit \in BOOLEAN /\ brkpt \in BOOLEAN

LEMMA BoundsType ==
  /\ \A x \in 0 .. Top : x < Top => x + 1 \in 0 .. Top
  /\ \A x \in 0 .. InstrMax : x < InstrMax => x + 1 \in 0 .. InstrMax
  /\ 0 \in 0 .. Top /\ 0 \in 0 .. Never /\ Quantum \in 0 .. Never
  /\ InstrMax \in 0 .. Never /\ Never \in 0 .. Never
BY KernelAssumption, TopType DEF Never

LEMMA CountInstrType ==
  ASSUME SimulateType, NEW c \in Cores, Count(c)
  PROVE  instrs' \in [Cores -> 0 .. InstrMax]
BY BoundsType DEF SimulateType, Count

LEMMA ActivityType ==
  ASSUME SimulateType, NEW d \in Cores, NEW n \in BOOLEAN, set_active_count(d, n)
  PROVE  /\ active' \in [Cores -> BOOLEAN]
         /\ quit' \in BOOLEAN /\ active_count' \in Nat
<1>1. active' \in [Cores -> BOOLEAN]
  BY Zenon DEF SimulateType, set_active_count
<1>2. Cardinality({x \in Cores : active'[x]}) \in Nat
  BY CountType, Zenon
<1> QED
  BY <1>1, <1>2, Zenon DEF SimulateType, set_active_count

LEMMA SimulateTypeStep ==
  ASSUME SimulateType, NEW c \in Cores, Simulate(c)
  PROVE  SimulateType'
<1> USE DEF coreVars, poolVars, mainVars
<1>1. CASE Loop(c)
  <2>1. counter' \in [Cores -> 0 .. Top]
    BY <1>1, BoundsType, Zenon DEF Loop, SimulateType
  <2> QED
    BY <1>1, <2>1, Zenon DEF Loop, SimulateType
<1>2. CASE Plain(c)
  <2>1. instrs' \in [Cores -> 0 .. InstrMax]
    BY <1>2, CountInstrType, Zenon DEF Plain, SimulateType
  <2> QED
    BY <1>2, <2>1, Zenon DEF Plain, SimulateType
<1>3. ASSUME NEW d \in Cores, NEW n \in BOOLEAN, Signal(c, d, n),
             instrs' \in [Cores -> 0 .. InstrMax]
      PROVE  SimulateType'
  <2>1. /\ active' \in [Cores -> BOOLEAN]
        /\ quit' \in BOOLEAN /\ active_count' \in Nat
    BY <1>3, ActivityType, Zenon DEF Signal
  <2> QED
    BY <1>3, <2>1, Zenon DEF Signal, SimulateType
<1>4. CASE Halt(c)
  BY <1>3, <1>4, Zenon DEF Halt, SimulateType
<1>5. CASE HaltInstr(c) \/ WakeInstr(c) \/ StopInstr(c)
  <2>1. instrs' \in [Cores -> 0 .. InstrMax]
    BY <1>5, CountInstrType, Zenon DEF HaltInstr, WakeInstr, StopInstr
  <2> QED
    BY <1>3, <1>5, <2>1, Zenon DEF HaltInstr, WakeInstr, StopInstr
<1>6. CASE Notify(c) \/ BreakInstr(c) \/ Check(c) \/ Evaluate(c) \/ Woken(c)
  BY <1>6, Zenon DEF Notify, BreakInstr, Check, Evaluate, Woken, SimulateType
<1>7. ASSUME NEW d \in Cores, genExceptions(c, d)
      PROVE  SimulateType'
  <2>1. instrs' \in [Cores -> 0 .. InstrMax]
    BY <1>7, CountInstrType, Zenon DEF genExceptions
  <2>2. threshold' \in [Cores -> 0 .. Never]
    BY <1>7, BoundsType, Zenon DEF genExceptions, SimulateType
  <2>3. pending' \in [Cores -> BOOLEAN] /\ target' \in [Cores -> Cores]
    BY <1>7, Zenon DEF genExceptions, SimulateType
  <2> QED
    BY <1>7, <2>1, <2>2, <2>3, Zenon DEF genExceptions, SimulateType
<1>8. CASE trigger_exception(c)
  BY <1>8, Zenon DEF trigger_exception, SimulateType
<1>9. CASE Broke(c)
  <2>1. threshold' \in [Cores -> 0 .. Never]
    BY <1>9, BoundsType, Zenon DEF Broke
  <2> QED
    BY <1>9, <2>1, Zenon DEF Broke, SimulateType
<1>10. CASE Synchronize(c)
  <2>1. counter' \in [Cores -> 0 .. Top]
    BY <1>10, BoundsType, Zenon DEF Synchronize, SimulateType
  <2>2. threshold' \in [Cores -> 0 .. Never]
    BY <1>10, BoundsType, Zenon DEF Synchronize, SimulateType
  <2>3. wait_count' \in Nat
    BY <1>10 DEF Synchronize, SimulateType
  <2> QED
    BY <1>10, <2>1, <2>2, <2>3, Zenon DEF Synchronize, SimulateType
<1>11. CASE applyExceptions(c) \/ ClearException(c)
  BY <1>11, Zenon DEF applyExceptions, ClearException, SimulateType
<1>12. CASE RestoreThreshold(c)
  <2>1. threshold' \in [Cores -> 0 .. Never]
    BY <1>12, BoundsType, Zenon DEF RestoreThreshold, SimulateType
  <2> QED
    BY <1>12, <2>1, Zenon DEF RestoreThreshold, SimulateType
<1> QED
  BY <1>1, <1>2, <1>4, <1>5, <1>6, <1>7, <1>8, <1>9, <1>10, <1>11, <1>12, Zenon DEF Simulate

\* The rest of TypeOK.
FrameType ==
  /\ callback \in [Cores -> BOOLEAN] /\ pc \in [Cores -> Places]
  /\ full_stop \in BOOLEAN
  /\ main \in {"idle", "start", "end", "return", "stopping", "deleted"}
  /\ orig_tdt \in 0 .. Never /\ runs \in 0 .. MaxRuns

LEMMA TypeParts == TypeOK <=> SimulateType /\ FrameType
BY DEF TypeOK, SimulateType, FrameType, Places

LEMMA TypeStep ==
  ASSUME KernelInv, [Next]_vars
  PROVE  TypeOK'
<1>1. SimulateType /\ FrameType
  BY TypeParts, Zenon DEF KernelInv
<1> SUFFICES SimulateType' /\ FrameType'
  BY PTL, TypeParts
<1> USE DEF coreVars, poolVars, mainVars
<1>2. ASSUME NEW c \in Cores, Simulate(c)
      PROVE  SimulateType' /\ FrameType'
  <2>1. SimulateType'
    BY <1>1, <1>2, SimulateTypeStep, Zenon
  <2>2. pc' \in [Cores -> Places] /\ UNCHANGED <<main, full_stop>>
    BY <1>2, SimulateInside, Zenon DEF Inside, KernelInv
  <2>3. UNCHANGED <<callback, orig_tdt, runs>>
    BY <1>2, Zenon DEF Simulate, Loop, Plain, Halt, HaltInstr, WakeInstr, StopInstr, Signal, Notify,
       BreakInstr, genExceptions, trigger_exception, Broke, Check, Synchronize, Evaluate,
       Woken, applyExceptions, RestoreThreshold, ClearException
  <2> QED
    BY <1>1, <2>1, <2>2, <2>3, Zenon DEF FrameType
<1>3. ASSUME Leave PROVE pc' \in [Cores -> Places]
  BY <1>3, Zenon DEF Leave, Places, Waiting, Simulating
<1>4. CASE threadedSimRun
  <2>1. runs' \in 0 .. MaxRuns
    BY <1>1, <1>4, KernelAssumption DEF threadedSimRun, FrameType
  <2>2. orig_tdt' \in 0 .. Never
    BY <1>1, <1>4, KernelAssumption, Zenon DEF threadedSimRun, SimulateType
  <2>3. SimulateType'
    BY <1>1, <1>4, Zenon DEF threadedSimRun, SimulateType
  <2>4. pc' \in [Cores -> Places] /\ main' \in {"start", "end"}
    BY <1>1, <1>3, <1>4, Zenon DEF threadedSimRun, ArriveMain, FrameType
  <2> QED
    BY <1>1, <1>4, <2>1, <2>2, <2>3, <2>4, Zenon DEF threadedSimRun, FrameType
<1>5. CASE Return
  BY <1>1, <1>5, Zenon DEF Return, SimulateType, FrameType
<1>6. CASE Delete
  BY <1>1, <1>3, <1>6, Zenon DEF Delete, ArriveMain, SimulateType, FrameType
<1>7. CASE Script
  <2>1. PICK d \in Cores, n \in BOOLEAN : set_active_count(d, n)
    BY <1>7, Zenon DEF Script
  <2>2. /\ active' \in [Cores -> BOOLEAN]
        /\ quit' \in BOOLEAN /\ active_count' \in Nat
    BY <1>1, <2>1, ActivityType, Zenon
  <2> QED
    BY <1>1, <1>7, <2>2, Zenon DEF Script, SimulateType, FrameType
<1>8. ASSUME NEW c \in Cores, Start(c)
      PROVE  SimulateType' /\ FrameType'
  <2>1. SimulateType'
    BY <1>1, <1>8, Zenon DEF Start, SimulateType
  <2>2. pc' \in [Cores -> Places]
    BY <1>1, <1>3, <1>8, Zenon DEF Start, FrameType, Places, Waiting
  <2> QED
    BY <1>1, <1>8, <2>1, <2>2, Zenon DEF Start, FrameType
<1>9. ASSUME NEW c \in Cores, Finish(c)
      PROVE  SimulateType' /\ FrameType'
  <2>1. SimulateType'
    BY <1>1, <1>9, Zenon DEF Finish, SimulateType
  <2>2. pc' \in [Cores -> Places]
    BY <1>1, <1>9, Zenon DEF Finish, FrameType, Places, Waiting
  <2> QED
    BY <1>1, <1>9, <2>1, <2>2, Zenon DEF Finish, FrameType
<1>10. CASE Deleted \/ UNCHANGED vars
  BY <1>1, <1>10 DEF Deleted, vars, SimulateType, FrameType
<1> QED
  BY <1>2, <1>4, <1>5, <1>6, <1>7, <1>8, <1>9, <1>10, Zenon DEF Next, Thread, Simulate

-----------------------------------------------------------------------------
(* Why a run ends                                                          *)

\* Programs that halt no other core: one that is halted in the middle of an
\* instruction may still activate a core after quit.
Polite == "stop" \notin Events

\* In a run that no breakpoint has ended, quit means that all cores are
\* inactive, a core in an instruction is active, and a thread leaves simulate()
\* only for one of the two reasons.  A core whose thread has left has no
\* callback, so that an instruction may activate it behind the kernel's back.
ReasonInv ==
  /\ main = "end" /\ quit /\ ~brkpt => \A c \in Cores : ~active[c]
  /\ \A c \in Cores : pc[c] = "exec" => active[c]
  /\ \A c \in Cores : pc[c] \in {"done", "end"} => quit \/ brkpt
  /\ \A c \in Cores : main = "end" /\ ~callback[c] => pc[c] = "end"
  /\ \A c \in Cores : pc[c] = "start" => callback[c]
  /\ main = "start" => ~quit
  /\ EndedForAReason

\* A step of simulate() that changes no core's activity.
LEMMA QuietStep ==
  ASSUME KernelInv, ReasonInv, NEW c \in Cores, Inside(c),
         UNCHANGED <<active, callback, quit>>, brkpt \in BOOLEAN, brkpt => brkpt',
         pc'[c] = "exec" => active[c],
         pc'[c] = "done" => quit \/ brkpt',
         \A d \in Cores \ {c} : pc'[d] = pc[d] \/ pc'[d] \notin {"exec", "done", "end"}
  PROVE  ReasonInv'
<1>1. main = "end" /\ main' = "end"
  BY Zenon DEF KernelInv, Inside, NoneOutsideRun
<1>2. pc'[c] # "end" /\ pc[c] # "end"
  BY Zenon DEF Inside, Simulating
<1>3. callback[c]
  BY <1>1, <1>2, Zenon DEF ReasonInv
<1>4. \A d \in Cores : ~callback[d] => pc'[d] = "end"
  <2> SUFFICES ASSUME NEW d \in Cores, ~callback[d] PROVE pc'[d] = "end"
    BY Zenon
  <2>1. d # c /\ pc[d] = "end"
    BY <1>1, <1>3, Zenon DEF ReasonInv
  <2> QED
    BY <2>1 DEF Inside, Simulating
<1> QED
  BY <1>1, <1>2, <1>4, Zenon DEF ReasonInv, EndedForAReason

\* An instruction that changes a core's activity.
LEMMA SignalStep ==
  ASSUME KernelInv, ReasonInv, NEW c \in Cores, NEW d \in Cores, NEW n \in BOOLEAN,
         Signal(c, d, n), d = c \/ n
  PROVE  ReasonInv'
<1> USE DEF mainVars
<1>1. /\ pc[c] = "exec" /\ active[c] /\ main = "end" /\ main' = "end"
      /\ UNCHANGED <<callback, brkpt>>
  BY Zenon DEF Signal, ReasonInv, KernelInv, NoneOutsideRun, Simulating
<1>2. pc \in [Cores -> Places] /\ active \in [Cores -> BOOLEAN]
  BY Zenon DEF KernelInv, TypeOK, Places
<1>3. ~quit \/ brkpt
  BY <1>1, Zenon DEF ReasonInv
<1>4. callback[c]
  BY <1>1, Zenon DEF ReasonInv
<1>5. /\ pc'[c] \in {"notify", "run"}
      /\ \A x \in Cores \ {c} : pc'[x] = pc[x] /\ (active[x] => active'[x])
  BY <1>2, Zenon DEF Signal, set_active_count
<1>6. \A x \in Cores : pc'[x] = "exec" => active'[x]
  BY <1>5, Zenon DEF ReasonInv
<1>7. \A x \in Cores : pc'[x] \in {"done", "end"} => brkpt
  BY <1>3, <1>5, Zenon DEF ReasonInv
<1>8. \A x \in Cores : ~callback[x] => pc'[x] = "end"
  BY <1>1, <1>4, <1>5, Zenon DEF ReasonInv
<1>9. quit' /\ ~brkpt => \A x \in Cores : ~active'[x]
  BY <1>3, Zenon DEF Signal, set_active_count
<1> QED
  BY <1>1, <1>6, <1>7, <1>8, <1>9 DEF ReasonInv, EndedForAReason

LEMMA SimulateReason ==
  ASSUME Polite, KernelInv, ReasonInv, NEW c \in Cores, Simulate(c)
  PROVE  ReasonInv'
<1> USE DEF coreVars, poolVars, mainVars
<1>1. Inside(c) /\ pc \in [Cores -> Places] /\ brkpt \in BOOLEAN
  BY SimulateInside, Zenon DEF KernelInv, TypeOK, Places
<1>2. ASSUME NEW next, next # "exec", pc' = [pc EXCEPT ![c] = next],
             UNCHANGED <<active, callback, quit, brkpt>>,
             next = "done" => quit \/ brkpt
      PROVE  ReasonInv'
  BY <1>1, <1>2, QuietStep, Zenon
<1>3. ASSUME NEW next \in Simulating, next # "exec", pc' = notify_all(c, next),
             UNCHANGED <<active, callback, quit>>, brkpt => brkpt',
             next = "done" => brkpt'
      PROVE  ReasonInv'
  <2>1. pc'[c] = next
    BY <1>1, <1>3, NotifyType, Zenon
  <2>2. \A d \in Cores \ {c} : pc'[d] = pc[d] \/ pc'[d] \notin {"exec", "done", "end"}
    BY <1>1, <1>3, NotifyType
  <2> QED
    BY <1>1, <1>3, <2>1, <2>2, QuietStep
<1>4. CASE Loop(c)
  <2>1. \/ pc' = [pc EXCEPT ![c] = "exec"] /\ active[c]
        \/ \E next \in {"halt", "check"} : pc' = [pc EXCEPT ![c] = next]
    BY <1>4, Zenon DEF Loop
  <2>2. UNCHANGED <<active, callback, quit, brkpt>>
    BY <1>4, Zenon DEF Loop
  <2>3. CASE pc' = [pc EXCEPT ![c] = "exec"] /\ active[c]
    BY <1>1, <2>2, <2>3, QuietStep, Zenon
  <2> QED
    BY <1>2, <2>1, <2>2, <2>3, Zenon
<1>5. CASE Plain(c) \/ BreakInstr(c)
  BY <1>2, <1>5, Zenon DEF Plain, BreakInstr
<1>6. CASE Halt(c) \/ HaltInstr(c) \/ WakeInstr(c) \/ StopInstr(c)
  BY <1>6, SignalStep, Zenon DEF Halt, HaltInstr, WakeInstr, StopInstr, Polite
<1>7. CASE Notify(c)
  BY <1>3, <1>7, Zenon DEF Notify, Simulating
<1>8. ASSUME NEW d \in Cores, genExceptions(c, d)
      PROVE  ReasonInv'
  <2>1. UNCHANGED <<active, callback, quit, brkpt>>
    BY <1>8, Zenon DEF genExceptions
  <2>2. \E next \in {"raise", "run"} : pc' = [pc EXCEPT ![c] = next]
    BY <1>8, Zenon DEF genExceptions
  <2> QED
    BY <1>2, <2>1, <2>2, Zenon
<1>9. CASE trigger_exception(c) \/ Check(c) \/ Woken(c)
  BY <1>2, <1>9 DEF trigger_exception, Check, Woken
<1>10. CASE Broke(c)
  BY <1>3, <1>10, Zenon DEF Broke, Simulating
<1>11. CASE Synchronize(c)
  <2>1. UNCHANGED <<active, callback, quit, brkpt>>
    BY <1>11, Zenon DEF Synchronize
  <2>2. \/ pc' = notify_all(c, "halt") \/ pc' = [pc EXCEPT ![c] = "synch"]
        \/ pc' = [pc EXCEPT ![c] = "run"]
    BY <1>11, Zenon DEF Synchronize
  <2> QED
    BY <1>2, <1>3, <2>1, <2>2, Zenon DEF Simulating
<1>12. CASE Evaluate(c)
  <2>1. UNCHANGED <<active, callback, quit, brkpt>>
    BY <1>12, Zenon DEF Evaluate
  <2>2. \/ pc' = [pc EXCEPT ![c] = "done"] /\ (quit \/ brkpt)
        \/ \E next \in {"idle", "run", "apply", "limit"} : pc' = [pc EXCEPT ![c] = next]
    BY <1>12, Zenon DEF Evaluate
  <2> QED
    BY <1>2, <2>1, <2>2, Zenon
<1>13. CASE applyExceptions(c) \/ RestoreThreshold(c) \/ ClearException(c)
  BY <1>2, <1>13, Zenon DEF applyExceptions, RestoreThreshold, ClearException
<1> QED
  BY <1>4, <1>5, <1>6, <1>7, <1>8, <1>9, <1>10, <1>11, <1>12, <1>13 DEF Simulate

LEMMA ReasonStep ==
  ASSUME Polite, KernelInv, ReasonInv, [Next]_vars
  PROVE  ReasonInv'
<1> USE DEF coreVars, poolVars, mainVars
<1>1. CASE \E c \in Cores : Simulate(c)
  BY <1>1, SimulateReason, Zenon
<1>2. \A c \in Cores : main # "end" => pc[c] \notin {"exec", "done", "end"}
  BY Zenon DEF KernelInv, NoneOutsideRun, Simulating
<1>3. NoneOutsideRun'
  BY BarrierStep, Zenon
\* Outside a run, ReasonInv speaks of the threads that wait for the next one
\* and of the moment of the return.
<1>4. ASSUME main' # "end", main' = "return" => EndedForAReason',
             \A c \in Cores : pc'[c] = "start" => callback'[c],
             main' = "start" => ~quit'
      PROVE  ReasonInv'
  BY <1>3, <1>4, Zenon DEF ReasonInv, EndedForAReason, NoneOutsideRun, Simulating
<1>5. ASSUME Leave, ~full_stop', \A c \in Cores : callback'[c], ~quit', main' = "end"
      PROVE  ReasonInv'
  BY <1>5, Zenon DEF Leave, ReasonInv, EndedForAReason
<1>6. CASE threadedSimRun
  <2>1. ~quit' /\ ~full_stop' /\ callback' = callback
    BY <1>6, Zenon DEF threadedSimRun, KernelInv, StopInv
  <2>2. CASE \A c \in Cores : pc[c] = "start"
    BY <1>5, <1>6, <2>1, <2>2, Zenon DEF threadedSimRun, ArriveMain, ReasonInv
  <2>3. CASE ~\A c \in Cores : pc[c] = "start"
    BY <1>4, <1>6, <2>1, <2>3, Zenon DEF threadedSimRun, ArriveMain, ReasonInv
  <2> QED
    BY <2>2, <2>3, Zenon
<1>7. CASE Return
  BY <1>4, <1>7, Zenon DEF Return, ReasonInv
<1>8. CASE Delete
  <2>1. main' \in {"stopping", "deleted"} /\ callback' = callback
    BY <1>8, Zenon DEF Delete, ArriveMain
  <2>2. \A c \in Cores : pc'[c] = "start" => pc[c] = "start"
    BY <1>8, Zenon DEF Delete, ArriveMain, Leave
  <2> QED
    BY <1>4, <2>1, <2>2, Zenon DEF ReasonInv
<1>9. CASE Script
  BY <1>4, <1>9, Zenon DEF Script, ReasonInv
<1>10. ASSUME NEW c \in Cores, Start(c)
       PROVE  ReasonInv'
  <2>1. main # "end" /\ pc \in [Cores -> Places] /\ callback \in [Cores -> BOOLEAN]
    BY <1>10, Zenon DEF Start, KernelInv, NoneOutsideRun, TypeOK, Places, Simulating
  <2>2. callback'[c] /\ \A d \in Cores \ {c} : callback'[d] = callback[d]
    BY <1>10, <2>1, Zenon DEF Start
  <2>3. UNCHANGED <<active, quit, brkpt, full_stop>>
    BY <1>10, Zenon DEF Start
  <2>4. CASE main = "start" /\ \A d \in Cores \ {c} : pc[d] = "start"
    BY <1>5, <1>10, <2>2, <2>3, <2>4 DEF Start, ReasonInv, KernelInv, StopInv
  <2>5. CASE main = "stopping" /\ \A d \in Cores \ {c} : pc[d] = "start"
    <3>1. main' = "deleted" /\ \A d \in Cores : pc'[d] \in {"exited", "run"}
      BY <1>10, <2>5, Zenon DEF Start, Leave
    <3> QED
      BY <1>4, <3>1, Zenon
  <2>6. CASE ~(main \in {"start", "stopping"} /\ \A d \in Cores \ {c} : pc[d] = "start")
    <3>1. main' = main /\ pc' = [pc EXCEPT ![c] = "start"]
      BY <1>10, <2>6, Zenon DEF Start
    <3>2. \A d \in Cores : pc'[d] = "start" => callback'[d]
      BY <2>1, <2>2, <3>1, Zenon DEF ReasonInv
    <3> QED
      BY <1>4, <2>1, <2>3, <3>1, <3>2, Zenon DEF ReasonInv, EndedForAReason
  <2> QED
    BY <2>4, <2>5, <2>6, Zenon
<1>11. ASSUME NEW c \in Cores, Finish(c)
       PROVE  ReasonInv'
  <2>1. /\ main = "end" /\ pc[c] = "done" /\ (quit \/ brkpt)
        /\ pc \in [Cores -> Places] /\ callback \in [Cores -> BOOLEAN]
    BY <1>11, Zenon DEF Finish, KernelInv, ReasonInv, NoneOutsideRun, TypeOK, Places, Simulating
  <2>2. UNCHANGED <<active, quit, brkpt>> /\ callback' = [callback EXCEPT ![c] = FALSE]
    BY <1>11, Zenon DEF Finish
  <2>3. CASE \A d \in Cores \ {c} : pc[d] = "end"
    <3>1. main' = "return" /\ \A d \in Cores : pc'[d] = "top"
      BY <1>11, <2>1, <2>3 DEF Finish
    <3>2. EndedForAReason'
      BY <2>1, <2>2, Zenon DEF ReasonInv, EndedForAReason
    <3> QED
      BY <1>4, <3>1, <3>2
  <2>4. CASE ~\A d \in Cores \ {c} : pc[d] = "end"
    <3>1. main' = "end" /\ pc' = [pc EXCEPT ![c] = "end"]
      BY <1>11, <2>1, <2>4, Zenon DEF Finish
    <3>2. pc'[c] = "end" /\ \A d \in Cores \ {c} : pc'[d] = pc[d] /\ callback'[d] = callback[d]
      BY <2>1, <2>2, <3>1
    <3>3. \A d \in Cores : pc[d] # "start"
      BY <2>1, Zenon DEF KernelInv, NoneOutsideRun, Simulating
    <3> QED
      BY <2>1, <2>2, <3>1, <3>2, <3>3, Zenon DEF ReasonInv, EndedForAReason
  <2> QED
    BY <2>3, <2>4, Zenon
<1>12. CASE Deleted \/ UNCHANGED vars
  <2>1. UNCHANGED <<active, callback, pc, quit, brkpt, main>>
    BY <1>12, Zenon DEF Deleted, vars
  <2> QED
    BY <2>1, Zenon DEF ReasonInv, EndedForAReason
<1> QED
  BY <1>1, <1>6, <1>7, <1>8, <1>9, <1>10, <1>11, <1>12, Zenon DEF Next, Thread, Simulate

\* Quit means that all cores are inactive, breakpoint or not.
QuitInv == main = "end" /\ quit => \A c \in Cores : ~active[c]

\* Whoever changes a core's activity in a run is active, so quit is not set yet.
LEMMA QuitStep ==
  ASSUME Polite, KernelInv, ReasonInv, QuitInv, [Next]_vars
  PROVE  QuitInv' /\ (quit /\ main = "end" => quit')
<1> USE DEF coreVars, poolVars, mainVars
<1>1. ASSUME UNCHANGED <<active, quit>>, main' = "end" => main = "end" \/ ~quit
      PROVE  QuitInv' /\ (quit /\ main = "end" => quit')
  BY <1>1, Zenon DEF QuitInv
<1>2. ASSUME NEW c \in Cores, NEW d \in Cores, NEW n \in BOOLEAN, Signal(c, d, n), d = c \/ n
      PROVE  QuitInv' /\ (quit /\ main = "end" => quit')
  <2>1. pc[c] = "exec" /\ active[c] /\ main = "end" /\ main' = "end"
    BY <1>2, Zenon DEF Signal, ReasonInv, KernelInv, NoneOutsideRun, Simulating
  <2>2. ~quit
    BY <2>1, Zenon DEF QuitInv
  <2>3. quit' => \A x \in Cores : ~active'[x]
    BY <1>2, <2>2, Zenon DEF Signal, set_active_count
  <2> QED
    BY <2>2, <2>3, Zenon DEF QuitInv
<1>3. ASSUME NEW c \in Cores, Halt(c) \/ HaltInstr(c) \/ WakeInstr(c) \/ StopInstr(c)
      PROVE  QuitInv' /\ (quit /\ main = "end" => quit')
  BY <1>2, <1>3, Zenon DEF Halt, HaltInstr, WakeInstr, StopInstr, Polite
<1>4. ASSUME NEW c \in Cores,
             \/ Loop(c) \/ Plain(c) \/ Notify(c) \/ BreakInstr(c)
             \/ \E d \in Cores : genExceptions(c, d)
             \/ trigger_exception(c) \/ Broke(c) \/ Check(c) \/ Synchronize(c)
             \/ Evaluate(c) \/ Woken(c)
             \/ applyExceptions(c) \/ RestoreThreshold(c) \/ ClearException(c)
      PROVE  UNCHANGED <<active, quit, main>>
  BY <1>4, Zenon DEF Loop, Plain, Notify, BreakInstr, genExceptions, trigger_exception, Broke,
     Check, Synchronize, Evaluate, Woken, applyExceptions, RestoreThreshold, ClearException
<1>5. CASE threadedSimRun
  BY <1>5, Zenon DEF threadedSimRun, QuitInv
<1>6. CASE Return \/ Delete \/ Script
  <2>1. main # "end" /\ main' # "end"
    BY <1>6, Zenon DEF Return, Delete, ArriveMain, Script
  <2> QED
    BY <2>1, Zenon DEF QuitInv
<1>7. ASSUME NEW c \in Cores, Start(c) \/ Finish(c)
      PROVE  QuitInv' /\ (quit /\ main = "end" => quit')
  <2>1. UNCHANGED <<active, quit>>
    BY <1>7, Zenon DEF Start, Finish
  <2>2. main' = "end" => main \in {"start", "end"}
    BY <1>7, Zenon DEF Start, Finish
  <2> QED
    BY <1>1, <2>1, <2>2, Zenon DEF ReasonInv
<1>8. CASE Deleted \/ UNCHANGED vars
  BY <1>1, <1>8, Zenon DEF Deleted, vars
<1> QED
  BY <1>1, <1>3, <1>4, <1>5, <1>6, <1>7, <1>8, Zenon DEF Next, Thread

-----------------------------------------------------------------------------
(* Nobody is left asleep                                                   *)

\* All cores start active, programs stop no other core and hit no breakpoint,
\* the user acts between two runs only, and there is no instruction limit: the
\* cases in which the code as it is can put everyone to sleep are left out.
Steady ==
  /\ InitActive = Cores /\ InstrMax = 0
  /\ Events \subseteq {"halt", "wake", "raise", "script"}

ActiveCores == {c \in Cores : active[c]}
Synched     == {c \in Cores : pc[c] = "synch"}
Notifying   == \E c \in Cores : pc[c] = "notify"

\* The pool's counters are right, too many are counted as waiting rather than
\* too few, and while somebody sleeps for no good reason any more, the one who
\* changed that is about to wake the sleepers.
AwakeInv ==
  /\ ~brkpt /\ \A c \in Cores : pc[c] \notin {"broke", "limit"}
  /\ active_count = Cardinality(ActiveCores)
  /\ main \in {"start", "end"} => (quit <=> \A c \in Cores : ~active[c])
  /\ Cardinality(Synched) <= wait_count
  /\ \A c \in Cores : pc[c] \in {"check", "quantum", "synch"} => active[c]
  /\ Synched # {} => wait_count < active_count \/ Notifying
  /\ \A c \in Cores : pc[c] = "idle" /\ (active[c] \/ quit) => Notifying
  /\ main = "end" => \E c \in Cores : pc[c] # "end"

LEMMA FewerCounted ==
  ASSUME NEW S \in SUBSET Cores, NEW T \in SUBSET S, NEW n \in Nat, Cardinality(S) <= n
  PROVE  Cardinality(T) <= n
<1>1. IsFiniteSet(S) /\ IsFiniteSet(T)
  BY KernelAssumption, FS_Subset
<1>2. Cardinality(T) <= Cardinality(S) /\ Cardinality(T) \in Nat /\ Cardinality(S) \in Nat
  BY <1>1, FS_Subset, FS_CardinalityType
<1> QED
  BY <1>2

LEMMA NoneCounted == ASSUME NEW S, S = {} PROVE Cardinality(S) = 0
BY FS_EmptySet

\* A thread goes on, and falls asleep only while its core is inactive.
LEMMA AwakeMove ==
  ASSUME KernelInv, AwakeInv, NEW c \in Cores, NEW next, pc' = [pc EXCEPT ![c] = next],
         next \notin {"synch", "broke", "limit", "end"}, pc[c] # "notify",
         next = "idle" => ~active[c] /\ ~quit,
         next \in {"check", "quantum"} => active[c],
         UNCHANGED <<active, active_count, wait_count, quit, brkpt, main>>
  PROVE  AwakeInv'
<1>1. pc \in [Cores -> Places] /\ wait_count \in Nat
  BY Zenon DEF KernelInv, TypeOK, Places
<1>2. pc'[c] = next /\ \A d \in Cores \ {c} : pc'[d] = pc[d]
  BY <1>1, Zenon
<1>3. Synched' \in SUBSET Synched /\ Synched \in SUBSET Cores
  BY <1>2, Zenon DEF Synched
<1>4. Cardinality(Synched') <= wait_count
  BY <1>1, <1>3, FewerCounted DEF AwakeInv
<1>5. Notifying => Notifying'
  BY <1>2, Zenon DEF Notifying
<1>6. ActiveCores' = ActiveCores
  BY Zenon DEF ActiveCores
<1>7. \A d \in Cores : pc'[d] \notin {"broke", "limit"}
  BY <1>2, Zenon DEF AwakeInv
<1>8. \A d \in Cores : pc'[d] \in {"check", "quantum", "synch"} => active[d]
  BY <1>2, Zenon DEF AwakeInv
<1>9. Synched' # {} => wait_count < active_count \/ Notifying'
  BY <1>3, <1>5, Zenon DEF AwakeInv
<1>10. \A d \in Cores : pc'[d] = "idle" /\ (active[d] \/ quit) => Notifying'
  BY <1>2, <1>5, Zenon DEF AwakeInv
<1>11. \E d \in Cores : pc'[d] # "end"
  BY <1>2, Zenon
<1> QED
  BY <1>4, <1>6, <1>7, <1>8, <1>9, <1>10, <1>11, Zenon DEF AwakeInv

\* notify_all() leaves nobody asleep.
LEMMA AwakeAll ==
  ASSUME KernelInv, AwakeInv, NEW c \in Cores, NEW next \in {"run", "halt"},
         pc' = notify_all(c, next), wait_count' \in Nat,
         UNCHANGED <<active, active_count, quit, brkpt, main>>
  PROVE  AwakeInv'
<1>1. pc'[c] = next /\ \A d \in Cores : pc'[d] \notin {"synch", "idle"}
  BY DEF notify_all
<1>2. \A d \in Cores : /\ pc'[d] \notin {"broke", "limit"}
                       /\ pc'[d] \in {"check", "quantum"} => active[d]
  BY DEF notify_all, AwakeInv
<1>3. Synched' = {}
  BY <1>1, Zenon DEF Synched
<1>4. Cardinality(Synched') <= wait_count'
  BY <1>3, NoneCounted
<1>5. ActiveCores' = ActiveCores
  BY Zenon DEF ActiveCores
<1>6. \E d \in Cores : pc'[d] # "end"
  BY <1>1, Zenon
<1> QED
  BY <1>1, <1>2, <1>3, <1>4, <1>5, <1>6, Zenon DEF AwakeInv

\* In a run of these programs every change of activity reaches the pool.
LEMMA HeardSignal ==
  ASSUME KernelInv, ReasonInv, AwakeInv, NEW c \in Cores, NEW d \in Cores, pc[c] = "exec"
  PROVE  main = "end" /\ active[c] /\ callback[d]
<1>1. main = "end" /\ active[c]
  BY Zenon DEF KernelInv, NoneOutsideRun, ReasonInv, Simulating
<1>2. pc[d] # "end"
  BY <1>1, Zenon DEF ReasonInv, AwakeInv
<1> QED
  BY <1>1, <1>2, Zenon DEF ReasonInv

LEMMA AwakeSignal ==
  ASSUME KernelInv, ReasonInv, AwakeInv, NEW c \in Cores, NEW d \in Cores,
         NEW n \in BOOLEAN, Signal(c, d, n), d = c \/ n
  PROVE  AwakeInv'
<1> USE DEF mainVars
<1>1. pc[c] = "exec" /\ main = "end" /\ active[c] /\ callback[d]
  BY HeardSignal, Zenon DEF Signal
<1>2. /\ pc \in [Cores -> Places] /\ active \in [Cores -> BOOLEAN] /\ wait_count \in Nat
  BY Zenon DEF KernelInv, TypeOK, Places
<1>3. /\ pc' = [pc EXCEPT ![c] = "notify"] /\ active' = [active EXCEPT ![d] = n]
      /\ active_count' = Cardinality({x \in Cores : active'[x]})
      /\ quit' = (\A x \in Cores : ~active'[x])
      /\ UNCHANGED <<wait_count, brkpt, main>>
  BY <1>1, Zenon DEF Signal, set_active_count
<1>4. pc'[c] = "notify" /\ \A x \in Cores \ {c} : pc'[x] = pc[x] /\ (active[x] => active'[x])
  BY <1>2, <1>3, Zenon
<1>5. Notifying'
  BY <1>4, Zenon DEF Notifying
<1>6. Synched' \in SUBSET Synched /\ Synched \in SUBSET Cores
  BY <1>4, Zenon DEF Synched
<1>7. Cardinality(Synched') <= wait_count
  BY <1>2, <1>6, FewerCounted DEF AwakeInv
<1>8. active_count' = Cardinality(ActiveCores')
  BY <1>3, Zenon DEF ActiveCores
<1>9. \A x \in Cores : pc'[x] \notin {"broke", "limit"}
  BY <1>4, Zenon DEF AwakeInv
<1>10. \A x \in Cores : pc'[x] \in {"check", "quantum", "synch"} => active'[x]
  BY <1>4, Zenon DEF AwakeInv
<1> QED
  BY <1>3, <1>4, <1>5, <1>7, <1>8, <1>9, <1>10, Zenon DEF AwakeInv

\* The last to arrive wakes the others; whoever sleeps is not the last.
LEMMA AwakeSynchronize ==
  ASSUME KernelInv, AwakeInv, NEW c \in Cores, Synchronize(c)
  PROVE  AwakeInv'
<1> USE DEF mainVars
<1>1. /\ pc \in [Cores -> Places] /\ wait_count \in Nat /\ active_count \in Nat
  BY Zenon DEF KernelInv, TypeOK, Places
<1>2. /\ pc[c] = "quantum" /\ active[c]
      /\ UNCHANGED <<active, active_count, quit, brkpt, main>>
  BY Zenon DEF Synchronize, AwakeInv
<1>3. CASE wait_count' = 0 /\ pc' = notify_all(c, "halt")
  BY <1>2, <1>3, AwakeAll
<1>4. CASE wait_count' = wait_count /\ pc' = [pc EXCEPT ![c] = "run"]
  BY <1>2, <1>4, AwakeMove, Zenon
<1>5. CASE /\ wait_count + 1 < active_count /\ wait_count' = wait_count + 1
           /\ pc' = [pc EXCEPT ![c] = "synch"]
  <2>1. pc'[c] = "synch" /\ \A d \in Cores \ {c} : pc'[d] = pc[d]
    BY <1>1, <1>5, Zenon
  <2>2. Synched' = Synched \cup {c} /\ Synched \in SUBSET Cores
    BY <2>1, Zenon DEF Synched
  <2>3. Cardinality(Synched') <= wait_count'
    <3>1. IsFiniteSet(Synched) /\ c \notin Synched
      BY <1>2, <2>2, KernelAssumption, FS_Subset DEF Synched
    <3>2. Cardinality(Synched \cup {c}) = Cardinality(Synched) + 1
      BY <3>1, FS_AddElement, Zenon
    <3>3. Cardinality(Synched) \in Nat /\ Cardinality(Synched) <= wait_count
      BY <3>1, FS_CardinalityType DEF AwakeInv
    <3> QED
      BY <1>1, <1>5, <2>2, <3>2, <3>3
  <2>4. wait_count' < active_count'
    BY <1>2, <1>5
  <2>5. ActiveCores' = ActiveCores
    BY <1>2, Zenon DEF ActiveCores
  <2>6. \A d \in Cores : /\ pc'[d] \notin {"broke", "limit"}
                         /\ pc'[d] \in {"check", "quantum", "synch"} => active[d]
    BY <1>2, <2>1, Zenon DEF AwakeInv
  <2>7. Notifying => Notifying'
    BY <1>2, <2>1, Zenon DEF Notifying
  <2>8. \A d \in Cores : pc'[d] = "idle" /\ (active[d] \/ quit) => Notifying'
    BY <2>1, <2>7, Zenon DEF AwakeInv
  <2>9. \E d \in Cores : pc'[d] # "end"
    BY <2>1, Zenon
  <2> QED
    BY <1>2, <2>3, <2>4, <2>5, <2>6, <2>8, <2>9, Zenon DEF AwakeInv
<1> QED
  BY <1>3, <1>4, <1>5, Zenon DEF Synchronize

LEMMA SimulateAwake ==
  ASSUME Steady, KernelInv, ReasonInv, AwakeInv, NEW c \in Cores, Simulate(c)
  PROVE  AwakeInv'
<1> USE DEF coreVars, poolVars, mainVars
<1>1. /\ "stop" \notin Events /\ "break" \notin Events
      /\ \A d \in Cores : ~OverLimit(d)
  BY DEF Steady, OverLimit
<1>2. ASSUME NEW next, pc' = [pc EXCEPT ![c] = next], pc[c] # "notify",
             next \notin {"synch", "broke", "limit", "end"},
             next = "idle" => ~active[c] /\ ~quit,
             next \in {"check", "quantum"} => active[c],
             UNCHANGED <<active, active_count, wait_count, quit, brkpt, main>>
      PROVE  AwakeInv'
  BY <1>2, AwakeMove, Zenon
<1>3. ~brkpt /\ pc[c] # "broke" /\ pc[c] # "limit" /\ (pc[c] = "check" => active[c])
  BY Zenon DEF AwakeInv
<1>4. CASE Loop(c)
  <2>1. /\ UNCHANGED <<active, active_count, wait_count, quit, brkpt, main>>
        /\ pc[c] = "run"
        /\ \/ pc' = [pc EXCEPT ![c] = "check"] /\ active[c]
           \/ pc' = [pc EXCEPT ![c] = "halt"] \/ pc' = [pc EXCEPT ![c] = "exec"]
    BY <1>4, Zenon DEF Loop
  <2> QED
    BY <1>2, <2>1, Zenon
<1>5. CASE Plain(c)
  BY <1>2, <1>5, Zenon DEF Plain
<1>6. CASE Halt(c) \/ HaltInstr(c) \/ WakeInstr(c) \/ StopInstr(c)
  BY <1>1, <1>6, AwakeSignal, Zenon DEF Halt, HaltInstr, WakeInstr, StopInstr
<1>7. CASE Notify(c)
  <2>1. wait_count' \in Nat
    BY <1>7 DEF Notify, KernelInv, TypeOK
  <2> QED
    BY <1>7, <2>1, AwakeAll, Zenon DEF Notify
<1>8. CASE BreakInstr(c) \/ Broke(c)
  BY <1>1, <1>3, <1>8, Zenon DEF BreakInstr, Broke
<1>9. ASSUME NEW d \in Cores, genExceptions(c, d)
      PROVE  AwakeInv'
  <2>1. /\ UNCHANGED <<active, active_count, wait_count, quit, brkpt, main>>
        /\ pc[c] = "exec"
        /\ \E next \in {"raise", "run"} : pc' = [pc EXCEPT ![c] = next]
    BY <1>9, Zenon DEF genExceptions
  <2> QED
    BY <1>2, <2>1, Zenon
<1>10. CASE trigger_exception(c) \/ Woken(c)
  BY <1>2, <1>10, Zenon DEF trigger_exception, Woken
<1>11. CASE Check(c)
  <2>1. /\ UNCHANGED <<active, active_count, wait_count, quit, brkpt, main>>
        /\ pc[c] = "check"
        /\ \E next \in {"quantum", "halt"} : pc' = [pc EXCEPT ![c] = next]
    BY <1>11, Zenon DEF Check
  <2> QED
    BY <1>2, <1>3, <2>1, Zenon
<1>12. CASE Synchronize(c)
  BY <1>12, AwakeSynchronize, Zenon
<1>13. CASE Evaluate(c)
  <2>1. /\ UNCHANGED <<active, active_count, wait_count, quit, brkpt, main>>
        /\ pc[c] = "halt"
    BY <1>13, Zenon DEF Evaluate
  <2>2. \/ pc' = [pc EXCEPT ![c] = "idle"] /\ ~active[c] /\ ~quit
        \/ \E next \in {"done", "run", "apply"} : pc' = [pc EXCEPT ![c] = next]
    BY <1>1, <1>3, <1>13, Zenon DEF Evaluate
  <2> QED
    BY <1>2, <2>1, <2>2, Zenon
<1>14. CASE applyExceptions(c) \/ RestoreThreshold(c) \/ ClearException(c)
  BY <1>2, <1>14, Zenon DEF applyExceptions, RestoreThreshold, ClearException
<1> QED
  BY <1>4, <1>5, <1>6, <1>7, <1>8, <1>9, <1>10, <1>11, <1>12, <1>13, <1>14 DEF Simulate

LEMMA AwakeStep ==
  ASSUME Steady, KernelInv, ReasonInv, AwakeInv, [Next]_vars
  PROVE  AwakeInv'
<1> USE DEF coreVars, poolVars, mainVars
<1>1. ASSUME NEW c \in Cores, Simulate(c) PROVE AwakeInv'
  BY <1>1, SimulateAwake, Zenon
<1>2. NoneOutsideRun' /\ "hasty" \notin Events /\ "rerun" \notin Events
  BY BarrierStep DEF Steady
<1>3. wait_count \in Nat /\ wait_count' \in Nat /\ pc \in [Cores -> Places]
  BY TypeStep DEF KernelInv, TypeOK, Places
\* Where no thread simulates, or all are at the top of the loop, nobody sleeps.
<1>4. ASSUME \/ main' # "end"
             \/ main' = "end" /\ \A c \in Cores : pc'[c] = "run",
             active_count' = Cardinality(ActiveCores'), brkpt' => brkpt,
             main' \in {"start", "end"} => (quit' <=> \A c \in Cores : ~active'[c])
      PROVE  AwakeInv'
  <2>1. \A c \in Cores : pc'[c] \notin {"synch", "idle", "broke", "limit", "check", "quantum"}
    <3>1. CASE main' # "end"
      BY <1>2, <3>1, Zenon DEF NoneOutsideRun, Simulating
    <3>2. CASE \A c \in Cores : pc'[c] = "run"
      BY <3>2, Zenon
    <3> QED
      BY <1>4, <3>1, <3>2, Zenon
  <2>2. Synched' = {}
    BY <2>1, Zenon DEF Synched
  <2>3. Cardinality(Synched') <= wait_count'
    BY <1>3, <2>2, NoneCounted
  <2>4. ~brkpt'
    BY <1>4, Zenon DEF AwakeInv
  <2>5. main' = "end" => \E c \in Cores : pc'[c] # "end"
    BY <1>4, KernelAssumption, Zenon
  <2> QED
    BY <1>4, <2>1, <2>2, <2>3, <2>4, <2>5, Zenon DEF AwakeInv
<1>5. active_count = Cardinality(ActiveCores)
  BY Zenon DEF AwakeInv
<1>6. UNCHANGED active => ActiveCores' = ActiveCores
  BY Zenon DEF ActiveCores
<1>7. CASE threadedSimRun
  <2>1. /\ UNCHANGED <<active, active_count, full_stop>> /\ ~quit' /\ ~brkpt'
        /\ \E c \in Cores : active[c]
    BY <1>2, <1>7, Zenon DEF threadedSimRun
  <2>2. \/ main' = "start"
        \/ main' = "end" /\ \A c \in Cores : pc'[c] = "run"
    <3>1. ~full_stop'
      BY <1>7, <2>1 DEF threadedSimRun, KernelInv, StopInv
    <3> QED
      BY <1>7, <3>1, Zenon DEF threadedSimRun, ArriveMain, Leave
  <2>3. (quit' <=> \A c \in Cores : ~active'[c]) /\ "start" # "end"
    BY <2>1
  <2> QED
    BY <1>4, <1>5, <1>6, <2>1, <2>2, <2>3, Zenon
<1>8. CASE Return \/ Delete
  <2>1. /\ UNCHANGED <<active, active_count, brkpt>>
        /\ main' \in {"idle", "stopping", "deleted"}
    BY <1>8, Zenon DEF Return, Delete, ArriveMain
  <2>2. main' # "end" /\ main' # "start"
    BY <2>1
  <2> QED
    BY <1>4, <1>5, <1>6, <2>1, <2>2, Zenon
<1>9. CASE Script
  <2>1. /\ main' = "idle" /\ UNCHANGED brkpt /\ \A c \in Cores : pc[c] = "start"
        /\ \E d \in Cores, n \in BOOLEAN : set_active_count(d, n)
    BY <1>2, <1>9, Zenon DEF Script
  <2>2. active_count' = Cardinality(ActiveCores')
    BY <2>1, Zenon DEF set_active_count, ReasonInv, ActiveCores
  <2> QED
    BY <1>4, <2>1, <2>2, Zenon
<1>10. ASSUME NEW c \in Cores, Start(c) PROVE AwakeInv'
  <2>1. UNCHANGED <<active, active_count, wait_count, quit, brkpt, full_stop>> /\ main # "end"
    BY <1>10, Zenon DEF Start, KernelInv, NoneOutsideRun, Simulating
  <2>2. \/ main' = main \/ main' = "deleted"
        \/ main = "start" /\ main' = "end" /\ \A d \in Cores : pc'[d] = "run"
    <3>1. CASE main = "start" /\ \A d \in Cores \ {c} : pc[d] = "start"
      BY <1>10, <2>1, <3>1 DEF Start, Leave, KernelInv, StopInv
    <3>2. CASE ~(main = "start" /\ \A d \in Cores \ {c} : pc[d] = "start")
      BY <1>10, <3>2, Zenon DEF Start
    <3> QED
      BY <3>1, <3>2, Zenon
  <2>3. main' \in {"start", "end"} => (quit' <=> \A d \in Cores : ~active'[d])
    BY <2>1, <2>2, Zenon DEF AwakeInv
  <2> QED
    BY <1>4, <1>5, <1>6, <2>1, <2>2, <2>3, Zenon
<1>11. ASSUME NEW c \in Cores, Finish(c) PROVE AwakeInv'
  <2>1. UNCHANGED <<active, active_count, wait_count, quit, brkpt>> /\ main = "end"
    BY <1>11, Zenon DEF Finish, KernelInv, NoneOutsideRun, Simulating
  <2>2. CASE \A d \in Cores \ {c} : pc[d] = "end"
    <3>1. main' = "return"
      BY <1>11, <2>1, <2>2, Zenon DEF Finish
    <3> QED
      BY <1>4, <1>5, <1>6, <2>1, <3>1, Zenon
  <2>3. CASE ~\A d \in Cores \ {c} : pc[d] = "end"
    <3>1. main' = main /\ pc' = [pc EXCEPT ![c] = "end"] /\ pc[c] = "done"
      BY <1>11, <2>1, <2>3, Zenon DEF Finish
    <3>2. pc'[c] = "end" /\ \A d \in Cores \ {c} : pc'[d] = pc[d]
      BY <1>3, <3>1, Zenon
    <3>3. Synched' = Synched /\ (Notifying => Notifying')
      BY <3>1, <3>2, Zenon DEF Synched, Notifying
    <3>4. \A d \in Cores : /\ pc'[d] \notin {"broke", "limit"}
                           /\ pc'[d] \in {"check", "quantum", "synch"} => active[d]
                           /\ pc'[d] = "idle" /\ (active[d] \/ quit) => Notifying'
      BY <3>2, <3>3, Zenon DEF AwakeInv
    <3>5. \E d \in Cores : pc'[d] # "end"
      BY <2>3, <3>2, Zenon
    <3> QED
      BY <1>6, <2>1, <3>1, <3>3, <3>4, <3>5, Zenon DEF AwakeInv
  <2> QED
    BY <2>2, <2>3, Zenon
<1>12. CASE Deleted \/ UNCHANGED vars
  <2>1. UNCHANGED <<active, pc, active_count, wait_count, quit, brkpt, main>>
    BY <1>12, Zenon DEF Deleted, vars
  <2>2. ActiveCores' = ActiveCores /\ Synched' = Synched /\ Notifying' = Notifying
    BY <2>1, Zenon DEF ActiveCores, Synched, Notifying
  <2> QED
    BY <2>1, <2>2, Zenon DEF AwakeInv
<1> QED
  BY <1>1, <1>7, <1>8, <1>9, <1>10, <1>11, <1>12, Zenon DEF Next, Thread, Simulate

-----------------------------------------------------------------------------
(* The theorems                                                            *)

LEMMA KernelInvariance == Spec => []KernelInv
<1>1. KernelInv /\ [Next]_vars => KernelInv'
  BY TypeStep, BarrierStep, Zenon DEF KernelInv
<1> QED
  BY <1>1, InitKernel, PTL DEF Spec

\* The kernel's state keeps its types: no counter leaves its range, in
\* particular the activity count of the pool.
THEOREM TypeCorrect == Spec => []TypeOK
<1>1. KernelInv => TypeOK
  BY Zenon DEF KernelInv
<1> QED
  BY <1>1, KernelInvariance, PTL

\* Threads simulate only between the two barriers of threadedSimRun(), and each
\* of them does so in every run.
THEOREM NoneOutsideRunCorrect == Spec => []NoneOutsideRun
<1>1. KernelInv => NoneOutsideRun
  BY Zenon DEF KernelInv
<1> QED
  BY <1>1, KernelInvariance, PTL

\* Programs that halt no other core only make threadedSimRun() return at a
\* breakpoint or when all cores have stopped, whatever else they do.
THEOREM EndedForAReasonCorrect ==
  ASSUME Polite
  PROVE  Spec => []EndedForAReason
<1>1. Init => ReasonInv
  BY Zenon DEF Init, ReasonInv, EndedForAReason
<1>2. KernelInv /\ ReasonInv /\ [Next]_vars => ReasonInv'
  BY ReasonStep, Zenon
<1>3. ReasonInv => EndedForAReason
  BY Zenon DEF ReasonInv
<1> QED
  BY <1>1, <1>2, <1>3, KernelInvariance, PTL DEF Spec

\* Programs that halt no other core never revoke quit in a run: threads that
\* act on it and threads that look later see the same.
THEOREM QuitStaysCorrect ==
  ASSUME Polite
  PROVE  Spec => QuitStays
<1>1. Init => ReasonInv /\ QuitInv
  BY Zenon DEF Init, ReasonInv, EndedForAReason, QuitInv
<1>2. KernelInv /\ ReasonInv /\ [Next]_vars => ReasonInv'
  BY ReasonStep, Zenon
<1>3. KernelInv /\ ReasonInv /\ QuitInv /\ [Next]_vars => QuitInv'
  BY QuitStep, Zenon
<1>4. KernelInv /\ ReasonInv /\ QuitInv /\ [Next]_vars => [quit /\ main = "end" => quit']_vars
  BY QuitStep, Zenon
<1> QED
  BY <1>1, <1>2, <1>3, <1>4, KernelInvariance, PTL DEF Spec, QuitStays

LEMMA AwakeInvariance ==
  ASSUME Steady
  PROVE  Spec => [](KernelInv /\ ReasonInv /\ AwakeInv)
<1>1. Init => AwakeInv
  <2> SUFFICES ASSUME Init PROVE AwakeInv
    BY Zenon
  <2>1. /\ ~brkpt /\ main = "idle" /\ wait_count = 0 /\ active_count = Cardinality(Cores)
        /\ \A c \in Cores : pc[c] = "top" /\ active[c]
    BY Zenon DEF Init, Steady
  <2>2. Synched = {} /\ ActiveCores = Cores
    BY <2>1, Zenon DEF Synched, ActiveCores
  <2>3. Cardinality(Synched) <= wait_count
    BY <2>1, <2>2, NoneCounted
  <2> QED
    BY <2>1, <2>2, <2>3, Zenon DEF AwakeInv
<1>2. Init => ReasonInv
  BY Zenon DEF Init, ReasonInv, EndedForAReason
<1>3. Polite
  BY Zenon DEF Steady, Polite
<1>4. KernelInv /\ ReasonInv /\ AwakeInv /\ [Next]_vars => ReasonInv' /\ AwakeInv'
  BY <1>3, ReasonStep, AwakeStep, Zenon
<1> QED
  BY <1>1, <1>2, <1>4, KernelInvariance, PTL DEF Spec

\* Not everyone waits for everyone: with any number of cores that halt themselves,
\* wake and interrupt each other, some thread of a run is awake, however the
\* notifications and the two sleeps of simulate() interleave.
THEOREM SomeoneAwakeCorrect ==
  ASSUME Steady
  PROVE  Spec => []SomeoneAwake
<1>1. KernelInv /\ ReasonInv /\ AwakeInv => SomeoneAwake
  <2> SUFFICES ASSUME KernelInv, ReasonInv, AwakeInv, main = "end",
                      \A c \in Cores : pc[c] \notin Simulating \ {"synch", "idle", "limit"}
               PROVE  FALSE
    BY Zenon DEF SomeoneAwake
  <2>1. \A c \in Cores : pc[c] \in {"synch", "idle", "end"}
    BY Zenon DEF KernelInv, NoneOutsideRun, AwakeInv
  <2>2. ~Notifying
    BY <2>1 DEF Notifying
  <2>3. \A c \in Cores : pc[c] = "idle" => ~active[c] /\ ~quit
    BY <2>2, Zenon DEF AwakeInv
  <2>4. quit <=> \A c \in Cores : ~active[c]
    BY Zenon DEF AwakeInv
  <2>5. \A c \in Cores : pc[c] = "end" => quit
    BY Zenon DEF ReasonInv, AwakeInv
  <2>6. ~quit
    <3> SUFFICES ASSUME quit PROVE FALSE
      OBVIOUS
    <3>1. \A c \in Cores : pc[c] # "synch" /\ pc[c] # "idle"
      BY <2>3, <2>4, Zenon DEF AwakeInv
    <3> QED
      BY <2>1, <3>1, Zenon DEF AwakeInv
  <2>7. ActiveCores = Synched
    BY <2>1, <2>3, <2>5, <2>6, Zenon DEF ActiveCores, Synched, AwakeInv
  <2>8. Synched # {}
    BY <2>4, <2>6, <2>7, Zenon DEF ActiveCores
  <2>9. wait_count < active_count /\ active_count <= wait_count
    BY <2>2, <2>7, <2>8, Zenon DEF AwakeInv
  <2>10. wait_count \in Nat /\ active_count \in Nat
    BY Zenon DEF KernelInv, TypeOK
  <2> QED
    BY <2>9, <2>10
<1> QED
  BY <1>1, AwakeInvariance, PTL

\* The only active core does not wait in the quantum for cores that are halted:
\* what set_active_count() counts is what simulate() compares with.
THEOREM LoneCoreRunsCorrect ==
  ASSUME Steady
  PROVE  Spec => []LoneCoreRuns
<1>1. KernelInv /\ ReasonInv /\ AwakeInv => LoneCoreRuns
  <2> SUFFICES ASSUME KernelInv, AwakeInv, NEW c \in Cores, pc[c] = "synch",
                      \A d \in Cores : active[d] <=> d = c
               PROVE  Notifying
    BY Zenon DEF LoneCoreRuns, Notifying
  <2>1. ActiveCores = {c} /\ Synched = {c}
    BY Zenon DEF ActiveCores, Synched, AwakeInv
  <2>2. Cardinality({c}) = 1
    BY FS_Singleton, Zenon
  <2>3. active_count = 1 /\ 1 <= wait_count
    BY <2>1, <2>2, Zenon DEF AwakeInv
  <2>4. wait_count \in Nat
    BY Zenon DEF KernelInv, TypeOK
  <2>5. ~(wait_count < active_count)
    BY <2>3, <2>4
  <2> QED
    BY <2>1, <2>5, Zenon DEF AwakeInv
<1> QED
  BY <1>1, AwakeInvariance, PTL

=============================================================================
