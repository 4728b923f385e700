------------------------------ MODULE Pipeline ------------------------------
(***************************************************************************)
(* The timed core that uadl generates from a uADL description, in normal   *)
(* mode: one cycle() after another, each of which runs the stages from the *)
(* last to the first and then issues new instructions.  The description is *)
(* that of a dual-issue in-order core like tests/uadl/dlx2-fwd.uadl: a     *)
(* dependent decode stage mID that is also the issue stage, and lock-step  *)
(* stages mEX, mMM and mWB; forwarding paths FwdEX and FwdMM; and classes  *)
(* of instructions that differ in what they read, allocate and write.      *)
(***************************************************************************)
EXTENDS PipelineStage, ForwardingPath

CONSTANTS
    N,              \* the program is at the addresses 0 .. N - 1
    Kinds,          \* the instruction classes
    Programs,       \* the programs to run, a class for every address
    FetchSpace,     \* instructions that fit into the fetch unit's buffer
    SplitAlloc,     \* the classes that allocate in a decode state of their own
    PartialPaths    \* the forwarding paths that partial sources are read from

(***************************************************************************)
(* The instruction classes: their sources and targets, the kinds they must *)
(* not be issued behind, and where the program goes on.                    *)
(***************************************************************************)
Sources(c) == CASE c = "add" -> Fields [] c = "test" -> {"lo"} [] OTHER -> {}

(* What the class allocates; a trap is an instruction that raises an        *)
(* exception when it executes, and never writes its target.                 *)
Allocates(c) ==
    CASE c \in {"add", "load", "trap"} -> Fields
      [] c = "half" -> {"lo"}
      [] OTHER -> {}

Targets(c) == IF c = "trap" THEN {} ELSE Allocates(c)

(* The attributes each class names in its IssueCheck. *)
IssuesBehind(c) ==
    CASE c \in {"half", "test"} -> Kinds
      [] c \in {"load", "branch"} -> Kinds \ {"load", "branch"}
      [] OTHER -> Kinds \ {"branch"}

(* A branch is taken and skips an instruction; a trap goes to the handler at *)
(* the last address.                                                         *)
Follows(c, a) ==
    CASE c = "branch" -> a + 2
      [] c = "trap" -> IF a < N - 1 THEN N - 1 ELSE N
      [] OTHER -> a + 1

VARIABLES
    prog,           \* the program: a kind for every address
    reg,            \* the architected register, a value for each field
    alloc,          \* its scoreboard (RegResource)
    stage,          \* the four rings (PipelineStage)
    issue,          \* the single slot of the issue stage
    fwd,            \* the two forwarding paths of this cycle
    fetched,        \* addresses in the fetch buffer, not decoded yet
    fetchAddr,      \* the next address to fetch
    held,           \* decoded instructions the fetch buffer still keeps
    answered,       \* loads whose data has come
    issueId,        \* _issueId
    at, k,          \* where cycle() is: a stage and a position in it
    r,              \* whether every action of a lock-step stage returned true
    retired         \* the last instruction to write back, with what it read

vars == <<prog, reg, alloc, stage, issue, fwd, fetched, fetchAddr, held, answered,
          issueId, at, k, r, retired>>

Stages == {"mID", "mEX", "mMM", "mWB"}
Paths == {"FwdEX", "FwdMM"}

(* Which states are bound to which stage; nothing waits in S_IDa. *)
Mapping == [mID |-> {"S_ID", "S_IDx"}, mEX |-> {"S_EX", "S_EXe"},
            mMM |-> {"S_MM", "S_MMe"}, mWB |-> {"S_WB", "S_WBe"}]

(* States of an instruction class before a given one: its from_states().    *)
(* A class of SplitAlloc reads in S_ID, goes on to S_IDa, which allocates   *)
(* and goes on to S_IDx, which waits for space: states of one stage follow  *)
(* each other in the same cycle.  In the other classes S_ID does it all.    *)
(* No state leads to an exception state: only exceptions do.                *)
From == [S_INIT |-> {}, S_ID |-> {"S_INIT"}, S_IDx |-> {"S_INIT", "S_ID", "S_IDa"},
         S_EX |-> {"S_INIT", "S_ID", "S_IDa", "S_IDx"},
         S_MM |-> {"S_INIT", "S_ID", "S_IDa", "S_IDx", "S_EX"},
         S_WB |-> {"S_INIT", "S_ID", "S_IDa", "S_IDx", "S_EX", "S_MM"},
         S_EXe |-> {}, S_MMe |-> {}, S_WBe |-> {}]

AllocState(c) == IF c \in SplitAlloc THEN "S_IDa" ELSE "S_ID"

(* The state a move to the next stage leads to. *)
Onward == [S_EX |-> "S_MM", S_EXe |-> "S_MMe", S_MM |-> "S_WB", S_MMe |-> "S_WBe"]

Instr == [iid : Nat \ {0}, addr : 0 .. N - 1, st : DOMAIN From, done : BOOLEAN,
          src : UNION {[F -> 0 .. N] : F \in SUBSET Fields}]

ASSUME ProgramAssumption ==
    /\ N \in Nat /\ FetchSpace \in Nat
    /\ Programs \subseteq [0 .. N - 1 -> Kinds]
    /\ "lo" \in Fields
    /\ PartialPaths \in Seq(Paths)
    /\ NoInstr \notin Instr

kind(i) == prog[i.addr]

NoSource == [f \in {} |-> N]

-----------------------------------------------------------------------------
(* Operands: Trg.allocate(), Trg.deallocate(), and what a flush releases.   *)

Allocate(ra, i) ==
    LET m == Allocates(kind(i))
    IN  IF m = {} THEN ra
        ELSE IF m = Fields THEN allocate(ra, i.iid)
        ELSE allocate_partial(ra, i.iid, m)

Deallocate(ra, i) ==
    LET m == Allocates(kind(i))
    IN  IF m = {} THEN ra
        ELSE IF m = Fields THEN deallocate(ra)
        ELSE deallocate_partial(ra, m)

(* The flush function of a state: the deallocations of its own action and   *)
(* of the actions of all states before it.                                   *)
FlushInstr(ra, i) ==
    IF AllocState(kind(i)) \in {i.st} \cup From[i.st] THEN Deallocate(ra, i) ELSE ra

(* One flushed instruction after the other. *)
FlushAll(ra, seq) ==
    MapThenFoldSet(LAMBDA i, sofar : FlushInstr(sofar, i), ra, LAMBDA j : seq[j],
                   LAMBDA S : Max(S), DOMAIN seq)

(* FwdXX.write(Trg). *)
Forward(path, i) ==
    IF Allocates(kind(i)) = {} THEN path
    ELSE write(path, i.iid, Allocates(kind(i)), [f \in Allocates(kind(i)) |-> i.addr])

(* Src.can_read_fp() and Src.read(): a full operand comes from the first     *)
(* path that has it, or else from the register ...                            *)
CanReadFull(i) ==
    \/ \E p \in Paths : can_read(fwd[p], alloc.last)
    \/ can_alloc(alloc, i.iid)

ReadFull ==
    IF can_read(fwd["FwdEX"], alloc.last) THEN read(fwd["FwdEX"])
    ELSE IF can_read(fwd["FwdMM"], alloc.last) THEN read(fwd["FwdMM"])
    ELSE reg

(* ... a partial operand from the register, with each of its paths in turn  *)
(* laid over it: the last one that has a field decides it.                   *)
CanReadPartial(mask) ==
    can_alloc_partial(alloc, mask \
      UNION {rm_later_partial_alloc(alloc, PathMask(fwd[p]), PathTag(fwd[p])) :
             p \in {q \in Range(PartialPaths) : fwd[q] # <<>>}})

ReadPartial(mask) ==
    LET over(f) == {j \in DOMAIN PartialPaths : f \in PathMask(fwd[PartialPaths[j]])}
    IN  [f \in mask |-> IF over(f) = {} THEN reg[f]
                        ELSE read_partial(fwd[PartialPaths[Max(over(f))]], reg)[f]]

CanRead(i) ==
    LET m == Sources(kind(i))
    IN  CASE m = {} -> TRUE
          [] m = Fields -> CanReadFull(i)
          [] OTHER -> CanReadPartial(m)

Read(i) ==
    LET m == Sources(kind(i))
    IN  CASE m = {} -> NoSource
          [] m = Fields -> ReadFull
          [] OTHER -> ReadPartial(m)

-----------------------------------------------------------------------------
(* taken_flush_<stage>(): what is behind position p of stage s goes, with    *)
(* everything in mID when s is mEX, and the instruction in the issue slot;   *)
(* the flush function of each is called, those that have not left decode are *)
(* released from the fetch buffer, and fetching starts anew.                 *)

Behind(s, p) ==
    LET own == Contents(stage[s])
    IN  SubSeq(own, p + 2, Len(own))
          \o (IF s = "mEX" THEN Contents(stage["mID"]) ELSE <<>>)

\* Mutant of Undecode: the issue slot is forgotten.
Undecode_Stages(s) == stage["mID"].count - (IF s = "mID" THEN 1 ELSE 0)

Undecode(s) ==
    stage["mID"].count - (IF s = "mID" THEN 1 ELSE 0) + (IF issue = NoInstr THEN 0 ELSE 1)

flush_issue(target) ==
    /\ issue' = NoInstr
    /\ fetched' = <<>>
    /\ fetchAddr' = target

-----------------------------------------------------------------------------
(* cycle(): the stages in turn, one step for every action of an instruction. *)

After == [mWB |-> "mMM", mMM |-> "mEX", mEX |-> "mID", mID |-> "issue"]
NextStage == [mMM |-> "mWB", mEX |-> "mMM"]

LockStep == {"mWB", "mMM", "mEX"}

SetAt(s, p, x) == [s EXCEPT !.instrs[pos(s, p)] = x]

Leave == at' = After[at] /\ k' = 0 /\ r' = TRUE

(* Positions of a lock-step stage that are still to be evaluated; an empty  *)
(* one counts as an action that returned true.                              *)
Left == {p \in k .. Capacity - 1 : At(stage[at], p) # NoInstr}

(* The position whose action runs: in a dependent stage always the head.    *)
Pos == IF at = "mID" THEN 0 ELSE Min(Left)

Cur == At(stage[at], Pos)

Turn(s, states) ==
    /\ at = s
    /\ IF s = "mID" THEN k < Capacity /\ Cur # NoInstr ELSE Left # {}
    /\ Cur.st \in states

Evaluated(ok) == k' = Pos + 1 /\ r' = (r /\ ok) /\ UNCHANGED at

(* change_state() to another stage from a lock-step one: the move is kept   *)
(* for later and the action becomes one that only returns true.             *)
Pending(i) == stage' = [stage EXCEPT ![at] = SetAt(@, Pos, [i EXCEPT !.done = TRUE])]

\* Mutant of MayLeave: room for one instruction.
MayLeave_One(s) == has_space(stage[NextStage[s]], 1)

(* The space check that is put around an action without one: room for all   *)
(* the instructions of a lock-step stage.                                   *)
MayLeave(s) == has_space(stage[NextStage[s]], Capacity)

fetchVars == <<issue, fetched, fetchAddr, held, issueId>>
archVars == <<reg, alloc, retired>>

Blocked ==          \* the action's guard is false
    /\ at \in {"mMM", "mEX"} /\ Left # {} /\ ~Cur.done
    /\ ~MayLeave(at) \/ (at = "mMM" /\ Cur.st = "S_MM" /\ kind(Cur) = "load"
                           /\ Cur.iid \notin answered)
    /\ Evaluated(FALSE)
    /\ UNCHANGED <<prog, stage, fwd, answered, fetchVars, archVars>>

\* Mutant of Repeat: an action that was done before returns false.
Repeat_False ==
    /\ at \in LockStep /\ Left # {} /\ Cur.done
    /\ Evaluated(FALSE)
    /\ UNCHANGED <<prog, stage, fwd, answered, fetchVars, archVars>>

Repeat ==           \* already done; a Repeat statement is executed again
    /\ at \in LockStep /\ Left # {} /\ Cur.done
    /\ fwd' = IF at = "mMM" /\ Cur.st = "S_MM" /\ kind(Cur) # "load"
              THEN [fwd EXCEPT !["FwdMM"] = Forward(@, Cur)] ELSE fwd
    /\ Evaluated(TRUE)
    /\ UNCHANGED <<prog, stage, answered, fetchVars, archVars>>

(* write_ops(): each target is deallocated and then committed.  The         *)
(* exception state has nothing to write.                                    *)
S_WB ==
    /\ Turn("mWB", {"S_WB", "S_WBe"}) /\ ~Cur.done
    /\ LET i == Cur
       IN  /\ alloc' = IF i.st = "S_WB" THEN Deallocate(alloc, i) ELSE alloc
           /\ reg' = [f \in Fields |-> IF f \in Targets(kind(i)) THEN i.addr ELSE reg[f]]
           /\ retired' = <<i.addr, i.src>>
           /\ Pending(i)
    /\ Evaluated(TRUE)
    /\ UNCHANGED <<prog, fwd, answered, fetchVars>>

S_MM ==
    /\ Turn("mMM", {"S_MM"}) /\ ~Cur.done /\ MayLeave("mMM")
    /\ kind(Cur) = "load" => Cur.iid \in answered
    /\ fwd' = [fwd EXCEPT !["FwdMM"] = Forward(@, Cur)]
    /\ answered' = answered \ {Cur.iid}
    /\ Pending(Cur)
    /\ Evaluated(TRUE)
    /\ UNCHANGED <<prog, fetchVars, archVars>>

S_MMe ==
    /\ Turn("mMM", {"S_MMe"}) /\ ~Cur.done /\ MayLeave("mMM")
    /\ Pending(Cur)
    /\ Evaluated(TRUE)
    /\ UNCHANGED <<prog, fwd, answered, fetchVars, archVars>>

(* exec(), and the result on FwdEX unless it is still to come from memory.  *)
S_EX ==
    /\ Turn("mEX", {"S_EX"}) /\ ~Cur.done /\ MayLeave("mEX") /\ kind(Cur) # "trap"
    /\ fwd' = IF kind(Cur) = "load" THEN fwd
              ELSE [fwd EXCEPT !["FwdEX"] = Forward(@, Cur)]
    /\ Pending(Cur)
    /\ Evaluated(TRUE)
    /\ UNCHANGED <<prog, answered, fetchVars, archVars>>

(* exec() throws: the instruction releases what it holds, everything behind *)
(* it is flushed, and it goes on through its exception states.              *)
S_EX_exception ==
    /\ Turn("mEX", {"S_EX"}) /\ ~Cur.done /\ MayLeave("mEX") /\ kind(Cur) = "trap"
    /\ LET i == Cur
       IN  /\ alloc' = FlushAll(FlushInstr(alloc, i), Behind("mEX", Pos))
           /\ held' = held - Undecode("mEX")
           /\ flush_issue(Follows("trap", i.addr))
           /\ stage' = [stage EXCEPT
                !["mEX"] = flush_behind(SetAt(@, Pos, [i EXCEPT !.st = "S_EXe", !.done = TRUE]), Pos),
                !["mID"] = EmptyStage]
    /\ Evaluated(TRUE)
    /\ UNCHANGED <<prog, reg, fwd, answered, issueId, retired>>

(* Move by move, the instructions in go, which are all of the stage, leave  *)
(* it and enter the next one.                                               *)
Moved(go) ==
    stage' = [s \in Stages |->
      IF s = at THEN remove_all(stage[s])
      ELSE IF at # "mWB" /\ s = NextStage[at]
      THEN add_all(stage[s], [j \in DOMAIN go |->
                                [go[j] EXCEPT !.st = Onward[@], !.done = FALSE]])
      ELSE stage[s]]

\* Mutant of Move: the youngest moves first.
Move_Reversed ==
    /\ at \in LockStep /\ Left = {}
    /\ IF r THEN Moved([j \in 1 .. stage[at].count |-> At(stage[at], stage[at].count - j)]) ELSE UNCHANGED stage
    /\ Leave
    /\ UNCHANGED <<prog, fwd, answered, fetchVars, archVars>>

(* All of the stage returned true: its instructions move on, oldest first. *)
Move ==
    /\ at \in LockStep /\ Left = {}
    /\ IF r THEN Moved(Contents(stage[at])) ELSE UNCHANGED stage
    /\ Leave
    /\ UNCHANGED <<prog, fwd, answered, fetchVars, archVars>>

-----------------------------------------------------------------------------
(* Decode: the head of mID acts, and if it leaves the next one acts too.    *)

Space == has_space(stage["mEX"], 1)

(* change_state(S_EX): issue() releases the instruction from the fetch       *)
(* buffer, and it moves from mID, as left by the action, to mEX.             *)
Enter(i, id) ==
    /\ stage' = [stage EXCEPT !["mID"] = remove_instr(id),
                              !["mEX"] = add_instr(@, [i EXCEPT !.st = "S_EX"])]
    /\ k' = k + 1
    /\ UNCHANGED <<at, r>>

(* A class that allocates in a state of its own: sources are read and the   *)
(* target is allocated, then it waits for space.                            *)
S_ID_split ==
    /\ Turn("mID", {"S_ID"}) /\ kind(Cur) \in SplitAlloc /\ CanRead(Cur)
    /\ alloc' = Allocate(alloc, Cur)
    /\ stage' = [stage EXCEPT !["mID"] =
                   SetAt(@, 0, [Cur EXCEPT !.st = "S_IDx", !.src = Read(Cur)])]
    /\ UNCHANGED <<prog, reg, fwd, answered, fetchVars, at, k, r, retired>>

S_IDx ==
    /\ Turn("mID", {"S_IDx"}) /\ Space
    /\ Enter(Cur, stage["mID"])
    /\ held' = held - 1
    /\ UNCHANGED <<prog, fwd, answered, issue, fetched, fetchAddr, issueId, archVars>>

(* A class that does it all in one state. *)
S_ID ==
    /\ Turn("mID", {"S_ID"}) /\ kind(Cur) \notin SplitAlloc \cup {"branch"}
    /\ CanRead(Cur) /\ Space
    /\ alloc' = Allocate(alloc, Cur)
    /\ Enter([Cur EXCEPT !.src = Read(Cur)], stage["mID"])
    /\ held' = held - 1
    /\ UNCHANGED <<prog, reg, fwd, answered, issue, fetched, fetchAddr, issueId, retired>>

(* A branch executes in decode; it is taken, nothing predicts it, and it     *)
(* flushes what is behind it before it moves on.                             *)
S_ID_branch ==
    /\ Turn("mID", {"S_ID"}) /\ kind(Cur) = "branch" /\ Space
    /\ alloc' = FlushAll(alloc, Behind("mID", 0))
    /\ flush_issue(Follows("branch", Cur.addr))
    /\ Enter(Cur, flush_behind(stage["mID"], 0))
    /\ held' = held - Undecode("mID") - 1
    /\ UNCHANGED <<prog, reg, fwd, answered, issueId, retired>>

(* The head cannot act, or there is none, or all have had their turn. *)
Waits(i) ==
    IF i.st = "S_IDx" THEN ~Space
    ELSE \/ ~CanRead(i)
         \/ ~Space /\ kind(i) \notin SplitAlloc

EndDecode ==
    /\ at = "mID"
    /\ k < Capacity /\ Cur # NoInstr => Waits(Cur)
    /\ Leave
    /\ UNCHANGED <<prog, stage, fwd, answered, fetchVars, archVars>>

-----------------------------------------------------------------------------
(* issueInstructions(), after what was left over from the last cycle.        *)

(* S_INIT: IssueCheck, against the instruction at position 0 of mID. *)
MayIssue(i) ==
    /\ has_space(stage["mID"], 1)
    /\ At(stage["mID"], 0) # NoInstr => kind(At(stage["mID"], 0)) \in IssuesBehind(kind(i))

\* Mutant of Decoded: the instruction's action is not updated.
Decoded_Init(i) == stage' = [stage EXCEPT !["mID"] = add_instr(@, i)]

Decoded(i) == stage' = [stage EXCEPT !["mID"] = add_instr(@, [i EXCEPT !.st = "S_ID"])]

IssueLeftOver ==
    /\ at = "issue" /\ k = 0 /\ issue # NoInstr
    /\ IF MayIssue(issue) THEN Decoded(issue) /\ issue' = NoInstr
       ELSE UNCHANGED <<stage, issue>>
    /\ k' = 1
    /\ UNCHANGED <<prog, fwd, answered, fetched, fetchAddr, held, issueId, archVars, at, r>>

(* issueInstruction(): decode the next instruction, and issue it if its     *)
(* class allows; otherwise it stays in the issue slot.                      *)
IssueNext ==
    /\ at = "issue"
    /\ issue = NoInstr /\ has_space(stage["mID"], 1) /\ fetched # <<>>
    /\ LET i == [iid |-> issueId, addr |-> Head(fetched), st |-> "S_INIT", done |-> FALSE,
                 src |-> NoSource]
       IN  IF MayIssue(i) THEN Decoded(i) /\ UNCHANGED issue
           ELSE issue' = i /\ UNCHANGED stage
    /\ issueId' = issueId + 1
    /\ fetched' = Tail(fetched)
    /\ held' = held + 1
    /\ k' = 1
    /\ UNCHANGED <<prog, fwd, answered, fetchAddr, archVars, at, r>>

(* postCycle(): the forwarding paths are good for one cycle. *)
postCycle ==
    /\ at = "issue" /\ (k = 1 \/ issue = NoInstr)
    /\ issue # NoInstr \/ ~has_space(stage["mID"], 1) \/ fetched = <<>>
    /\ fwd' = [p \in Paths |-> <<>>]
    /\ at' = "pre" /\ k' = 0
    /\ UNCHANGED <<prog, stage, answered, fetchVars, archVars, r>>

-----------------------------------------------------------------------------
(* preCycle(), and what goes on outside the core between two cycles: the     *)
(* fetch unit receives an instruction, the memory answers a load.            *)

InFlight == Contents(stage["mWB"]) \o Contents(stage["mMM"]) \o Contents(stage["mEX"])
              \o Contents(stage["mID"]) \o (IF issue = NoInstr THEN <<>> ELSE <<issue>>)

preCycle ==
    /\ at = "pre"
    /\ at' = "mWB"
    /\ UNCHANGED <<prog, stage, fwd, answered, fetchVars, archVars, k, r>>

FetchData ==
    /\ at = "pre"
    /\ fetchAddr < N /\ Len(fetched) + held < FetchSpace
    /\ fetched' = Append(fetched, fetchAddr)
    /\ fetchAddr' = fetchAddr + 1
    /\ UNCHANGED <<prog, stage, issue, fwd, held, answered, issueId, archVars, at, k, r>>

LoadData ==
    /\ at = "pre"
    /\ \E i \in Range(Contents(stage["mMM"])) :
         /\ i.st = "S_MM" /\ kind(i) = "load" /\ ~i.done /\ i.iid \notin answered
         /\ answered' = answered \cup {i.iid}
    /\ UNCHANGED <<prog, stage, fwd, fetchVars, archVars, at, k, r>>

Init ==
    /\ prog \in Programs
    /\ reg = [f \in Fields |-> N]
    /\ alloc = EmptyAlloc
    /\ stage = [s \in Stages |-> EmptyStage]
    /\ issue = NoInstr
    /\ fwd = [p \in Paths |-> <<>>]
    /\ fetched = <<>> /\ fetchAddr = 0 /\ held = 0
    /\ answered = {}
    /\ issueId = 1
    /\ at = "pre" /\ k = 0 /\ r = TRUE
    /\ retired = <<>>

Cycle ==
    \/ preCycle
    \/ Blocked \/ Repeat \/ Move
    \/ S_WB \/ S_MM \/ S_MMe \/ S_EX \/ S_EX_exception
    \/ S_ID_split \/ S_IDx \/ S_ID \/ S_ID_branch \/ EndDecode
    \/ IssueLeftOver \/ IssueNext \/ postCycle

Next == Cycle \/ FetchData \/ LoadData

Spec == Init /\ [][Next]_vars

(* cycle() is called for ever, and neither fetches nor loads are lost: their *)
(* data is seen only between two cycles, hence strong fairness.              *)
FairSpec == Spec /\ WF_vars(Cycle) /\ SF_vars(FetchData) /\ SF_vars(LoadData)

-----------------------------------------------------------------------------
(* Every variable holds what its declaration allows, and an instruction is  *)
(* in a stage only in a state that the machine maps to that stage.          *)
TypeOK ==
    /\ prog \in [0 .. N - 1 -> Kinds]
    /\ reg \in [Fields -> 0 .. N]
    /\ \A i \in Range(InFlight) : i \in Instr
    /\ \A s \in Stages : \A i \in Range(Contents(stage[s])) : i.st \in Mapping[s]
    /\ at \in Stages \cup {"pre", "issue"} /\ k \in 0 .. Capacity /\ r \in BOOLEAN
    /\ held \in 0 .. FetchSpace

(* No stage is ever given more than it has room for, and after any flush    *)
(* its instructions are the first ones from its head: the assertion in      *)
(* add_instr(), and what every access relative to the head relies on.       *)
StagesConsistent == \A s \in Stages : Consistent(stage[s])

(* An instruction holds its target from the state after the one that         *)
(* allocates it until it writes it back or gives it up.                      *)
Holding(i) ==
    /\ i.st \in {"S_IDx", "S_EX", "S_MM", "S_WB"}
    /\ ~(i.st = "S_WB" /\ i.done)
    /\ Allocates(kind(i)) # {}

(* The register is allocated by the instructions in flight that hold it and *)
(* by nobody else: a flush gives back what the flushed instructions held,   *)
(* no less and no more (doc/uadl-manual.rst:284).  It does not hold of the   *)
(* flush functions as they are generated: an instruction that waits in the  *)
(* state that allocates has not allocated yet, and releases nevertheless.    *)
AllocationsAreHeld ==
    LET holders(mask) == {i \in Range(InFlight) : Holding(i) /\ Allocates(kind(i)) = mask}
        parts(mask) == {j \in DOMAIN alloc.parts : alloc.parts[j].mask = mask}
        partial == (SUBSET Fields) \ {Fields, {}}
    IN  /\ alloc.full = Cardinality(holders(Fields))
        /\ \A mask \in partial : Cardinality(parts(mask)) = Cardinality(holders(mask))
        /\ alloc.mask = UNION {mask \in partial : holders(mask) # {}}

(* What was decoded and has not left decode is what the fetch buffer still  *)
(* keeps room for: no flush leaks buffer space or gives it back twice.       *)
BufferIsReleased == held = stage["mID"].count + (IF issue = NoInstr THEN 0 ELSE 1)

(* Instructions are in flight in program order of issue: no flush leaves an *)
(* older instruction behind a younger one.                                   *)
InOrder == \A i, j \in DOMAIN InFlight : i < j => InFlight[i].iid < InFlight[j].iid

(* The address of the oldest instruction that has not written back. *)
NextToRetire ==
    LET waiting == SelectSeq(InFlight, LAMBDA i : ~(i.st \in {"S_WB", "S_WBe"} /\ i.done))
    IN  IF waiting # <<>> THEN Head(waiting).addr
        ELSE IF fetched # <<>> THEN Head(fetched) ELSE fetchAddr

(* Every program runs as it would one instruction at a time: what each      *)
(* instruction reads, from the register or from a forwarding path, and what *)
(* it leaves in the register, is what sequential execution gives, whatever  *)
(* stalls, forwards, branches and exceptions come between.                   *)
Core == INSTANCE SequentialCore WITH pc <- NextToRetire
RunsSequentially == Core!Spec

(* Every program comes to its end: no combination of stalls, lock-step       *)
(* moves and flushes stops the pipeline for good.                            *)
Finishes == <>[](NextToRetire >= N /\ InFlight = <<>>)
=============================================================================
