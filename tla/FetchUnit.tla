----------------------------- MODULE FetchUnit -----------------------------
(***************************************************************************)
(* The fetch unit of a generated core, class DefaultFetchUnit in           *)
(* uadl/DefaultFetchUnit.h: a queue of fetch requests pending in the       *)
(* instruction memory, the instruction buffer they fill, and the list of   *)
(* branches predicted taken at fetch time that steers both.                *)
(*                                                                         *)
(* Addresses and sizes count buffer entries.  The template parameters are  *)
(* the record conf, chosen once from Configs.  The memory is external: it  *)
(* accepts a request while fewer than MaxPending are pending, answers      *)
(* the oldest when it likes and may preempt the newest.  The pipeline is   *)
(* what calls the unit: it decodes, issues, flushes, cancels and pauses.   *)
(***************************************************************************)
EXTENDS Integers, Sequences, SequencesExt

CONSTANTS
    Configs,      \* the template parameters to check
    NAddr,        \* addresses are 0 .. NAddr - 1 and wrap (_arch.ea)
    Size,         \* the size of the instruction at each address
    Target,       \* the branches: a function from their addresses to their targets
    FlushTargets, \* where the pipeline redirects the unit
    MaxPending,   \* requests the memory holds at a time
    Window        \* decoded instructions the decode stage holds

Addr == 0 .. NAddr - 1
ea_NoWrap(a) == a
ea(a) == a % NAddr
MaxSize == CHOOSE n \in {Size[a] : a \in Addr} : \A a \in Addr : Size[a] =< n

\* A template instantiation of the unit (the generator's arguments), and
\* which of its methods the instructions of the description call.
ASSUME ConfigsAssumption ==
    \A c \in Configs :
        /\ c.sizes # <<>>
        /\ \A i \in 1 .. Len(c.sizes) : NAddr % c.sizes[i] = 0
        /\ \A i \in 2 .. Len(c.sizes) : c.sizes[i] < c.sizes[i - 1]
        /\ c.sizes[1] =< c.nEntries
        /\ \A a \in DOMAIN Target : a \in Addr /\ a + Size[a] =< NAddr

VARIABLES
    conf,      \* the template parameters
    next,      \* _nextFetchAddr
    aligned,   \* _alignedFetch
    tryNew,    \* _tryNewFetch
    buf,       \* _instrBuf
    pending,   \* _pendingRequests
    preds,     \* _predTakenInstrs
    incomplete,\* _incompletePredTakenInstr
    space,     \* _currInstrBufSpace
    decoded,   \* sizes of the instructions decoded and not removed; _nextDecodeEntry is their sum
    fetchEx,   \* the core's _fetchException
    inProgress,\* the core's _fetchExceptionInProgress
    at,        \* where the cycle is: receive (pre-cycle), run, send (post-cycle)
    count,     \* fetchCount of sendFetchRequests
    expect     \* the address of the instruction the program executes next

unit == <<next, aligned, tryNew, buf, pending, preds, incomplete, space>>
core == <<decoded, fetchEx, inProgress, expect>>
vars == <<conf, unit, core, at, count>>

Total(s) == FoldLeft(+, 0, s)
nextDecode == Total(decoded)
Held == Len(buf) - nextDecode

Entry == [ea : Addr, taken : BOOLEAN, trg : Addr, size : Nat]
Request == [ea : Addr, size : Nat, front : Nat, rear : Nat, preempted : BOOLEAN]
Prediction == [addr : Addr, target : Addr, size : Nat]

\* Every variable holds what the unit's declarations allow.
TypeOK ==
    /\ conf \in Configs
    /\ next \in Addr /\ expect \in Addr
    /\ aligned \in BOOLEAN /\ tryNew \in BOOLEAN /\ incomplete \in BOOLEAN
    /\ fetchEx \in BOOLEAN /\ inProgress \in BOOLEAN
    /\ buf \in Seq(Entry) /\ pending \in Seq(Request) /\ preds \in Seq(Prediction)
    /\ Len(pending) =< MaxPending
    /\ space \in Int
    /\ decoded \in Seq(Nat) /\ Len(decoded) =< Window
    /\ at \in {"receive", "run", "send"} /\ count \in Nat

---------------------------------------------------------------------------
(* Requests and room for them                                              *)

size(req) == req.size - req.front - req.rear

\* The space the pending requests will take; a preempted one has given its
\* reservation back.
Reserved(reqs) == Total([i \in 1 .. Len(reqs) |-> IF reqs[i].preempted THEN 0 ELSE size(reqs[i])])

hasInstrSpace(b, s) ==
    IF conf.min > 0 THEN conf.nEntries - Len(b) >= conf.min ELSE s >= conf.sizes[1]

\* nextInstrAddr: where the next instruction to decode comes from.
nextInstrAddr ==
    IF Held > 0 THEN buf[nextDecode + 1].ea
    ELSE IF pending # <<>> THEN ea(Head(pending).ea + Head(pending).front)
    ELSE next

empty == Held =< 0 /\ pending = <<>>

---------------------------------------------------------------------------
(* receiveInstrData                                                        *)

\* The pre-cycle call decides first whether this cycle may fetch at all.
StartOfCycle_Sticky ==
    /\ at' = "receive"
    /\ tryNew' = (tryNew /\ (conf.lazy => hasInstrSpace(buf, space)))
StartOfCycle ==
    /\ at' = "receive"
    /\ tryNew' = (conf.lazy => hasInstrSpace(buf, space))

\* One entry e of the answer enters the buffer, marked when it begins the
\* oldest predicted-taken branch, whose prediction is dropped at its end.
Store(b, a) ==
    LET hit == conf.predictor /\ b.preds # <<>> /\ Head(b.preds).addr = a
        ends == conf.predictor /\ b.preds # <<>> /\ a + 1 = Head(b.preds).addr + Head(b.preds).size
        entry == IF hit
                 THEN [ea |-> a, taken |-> TRUE, trg |-> Head(b.preds).target, size |-> Head(b.preds).size]
                 ELSE [ea |-> a, taken |-> FALSE, trg |-> 0, size |-> 0]
    IN  [buf |-> Append(b.buf, entry), preds |-> IF ends THEN Tail(b.preds) ELSE b.preds]

\* The body of the receiving loop for the request the memory has answered.
receiveInstrData ==
    /\ at = "receive" /\ pending # <<>> /\ ~Head(pending).preempted
    /\ LET req == Head(pending)
           first == req.ea + req.front
           all == FoldLeft(Store, [buf |-> buf, preds |-> preds],
                           [i \in 1 .. size(req) |-> first + i - 1])
       IN  buf' = all.buf /\ preds' = all.preds
    /\ pending' = Tail(pending)
    /\ UNCHANGED <<conf, next, aligned, tryNew, incomplete, space, core, at, count>>

\* The rest of the pending requests is not answered in this cycle.
EndReceive ==
    /\ at = "receive"
    /\ at' = "run"
    /\ UNCHANGED <<conf, unit, core, count>>

---------------------------------------------------------------------------
(* sendFetchRequests                                                       *)

\* createAddrFetchSizes: the largest fetch size aligned at offset i of the
\* largest block, 0 when there is none.
addrFetchSize(i) ==
    IF i = 0 THEN conf.sizes[1]
    ELSE LET fits == {j \in 2 .. Len(conf.sizes) : i % conf.sizes[j] = 0}
         IN  IF fits = {} THEN 0 ELSE conf.sizes[CHOOSE j \in fits : \A k \in fits : j =< k]

\* The shape of the next fetch: its size, the entries before the wanted
\* address it over-fetches, and whether the fetch after it is aligned.
Shape ==
    LET largest == conf.sizes[1]
        i == next % largest
        distance == largest - i
        over == CHOOSE j \in 1 .. Len(conf.sizes) :
                    /\ conf.sizes[j] >= distance
                    /\ \A k \in j + 1 .. Len(conf.sizes) : conf.sizes[k] < distance
    IN  IF aligned THEN [size |-> largest, front |-> 0, aligned |-> TRUE]
        ELSE IF Len(conf.sizes) = 1 THEN [size |-> largest, front |-> i, aligned |-> TRUE]
        ELSE IF addrFetchSize(i) > 0
             THEN [size |-> addrFetchSize(i), front |-> 0, aligned |-> i = 0]
        ELSE [size |-> conf.sizes[over], front |-> conf.sizes[over] - distance, aligned |-> TRUE]

EndRun ==
    /\ at = "run"
    /\ at' = "send"
    /\ UNCHANGED <<conf, unit, core, count>>

\* The last request was preempted: send it again, its room is taken again.
ResendRequest ==
    /\ at = "send" /\ count = 0 /\ tryNew /\ ~fetchEx
    /\ pending # <<>> /\ Last(pending).preempted
    /\ pending' = [pending EXCEPT ![Len(pending)].preempted = FALSE]
    /\ space' = space - size(Last(pending))
    /\ count' = 1
    /\ UNCHANGED <<conf, next, aligned, tryNew, buf, preds, incomplete, core, at>>

\* The condition of the sending loop.  The memory refuses what comes behind
\* a preempted request, as it has just refused that one.
MaySend ==
    /\ at = "send" /\ tryNew /\ ~fetchEx
    /\ \/ hasInstrSpace(buf, space)
       \/ conf.min > 0 /\ count = 0
    /\ count < conf.maxCount
    /\ Len(pending) < MaxPending
    /\ (pending # <<>> => ~Last(pending).preempted)

\* The request goes out; taken is the prediction that ends it, if one does.
Follow_NoRear(start, shape, taken) ==
    LET end == start + shape.size
        branchEnd == taken.addr + taken.size
    IN  IF branchEnd > end
        THEN [next |-> ea(end), rear |-> 0, incomplete |-> TRUE, aligned |-> shape.aligned]
        ELSE [next |-> taken.target, rear |-> 0, incomplete |-> FALSE, aligned |-> FALSE]
Follow(start, shape, taken) ==
    LET end == start + shape.size
        branchEnd == taken.addr + taken.size
    IN  IF branchEnd > end
        THEN [next |-> ea(end), rear |-> 0, incomplete |-> TRUE, aligned |-> shape.aligned]
        ELSE [next |-> taken.target, rear |-> end - branchEnd, incomplete |-> FALSE, aligned |-> FALSE]

\* What the predictor answers for the addresses of the fetch: none taken, or
\* the first one taken, never asked while a predicted branch is incomplete.
Predictions(start, shape) ==
    IF ~conf.predictor \/ incomplete THEN {<<>>}
    ELSE {<<>>} \union
         {<<[addr |-> a, target |-> Target[a], size |-> Size[a]]>> :
             a \in {b \in DOMAIN Target : start + shape.front =< b /\ b < start + shape.size}}

SendRequest ==
    /\ MaySend
    /\ LET shape == Shape
           start == ea(next - shape.front)
       IN  /\ start \notin conf.bad
           /\ \E taken \in Predictions(start, shape) :
                LET all == preds \o taken
                    go == IF taken # <<>> \/ incomplete
                          THEN Follow(start, shape, Last(all))
                          ELSE [next |-> ea(start + shape.size), rear |-> 0,
                                incomplete |-> FALSE, aligned |-> shape.aligned]
                    req == [ea |-> start, size |-> shape.size, front |-> shape.front,
                            rear |-> go.rear, preempted |-> FALSE]
                IN  /\ preds' = all
                    /\ next' = go.next /\ aligned' = go.aligned /\ incomplete' = go.incomplete
                    /\ pending' = Append(pending, req)
                    /\ space' = space - size(req)
    /\ count' = count + 1
    /\ UNCHANGED <<conf, tryNew, buf, core, at>>

\* The translation raises an exception: the address is restored and the loop
\* ends; the exception waits in the core until the buffer has drained.
FetchFault ==
    /\ MaySend
    /\ LET shape == Shape
           start == ea(next - shape.front)
       IN  /\ start \in conf.bad
           /\ aligned' = shape.aligned
           /\ next' = start + shape.front
    /\ fetchEx' = TRUE /\ inProgress' = FALSE
    /\ UNCHANGED <<conf, tryNew, buf, pending, preds, incomplete, space, decoded, expect, at, count>>

EndSend ==
    /\ at = "send"
    /\ StartOfCycle
    /\ count' = 0
    /\ UNCHANGED <<conf, next, aligned, buf, pending, preds, incomplete, space, core>>

---------------------------------------------------------------------------
(* The calls of the pipeline                                               *)

\* issueInstruction: instrData, decode and decodeUpdate.  The data is there
\* when the whole instruction is; a predicted-taken branch must be complete.
Issue ==
    /\ at = "run" /\ ~inProgress /\ Len(decoded) < Window /\ Held > 0
    /\ LET e == buf[nextDecode + 1]
           n == IF MaxSize = 1 THEN 1 ELSE IF e.taken THEN e.size ELSE Size[e.ea]
       IN  /\ n =< Held
           /\ decoded' = Append(decoded, n)
           /\ expect' = IF e.taken THEN e.trg ELSE ea(e.ea + n)
    /\ UNCHANGED <<conf, unit, fetchEx, inProgress, at, count>>

\* issueInstruction when the unit has drained and a fetch exception waits:
\* the exception enters the pipeline as an instruction of size 0.
IssueFetchException ==
    /\ at = "run" /\ ~inProgress /\ Len(decoded) < Window
    /\ empty /\ fetchEx
    /\ decoded' = Append(decoded, 0)
    /\ inProgress' = TRUE /\ fetchEx' = FALSE
    /\ UNCHANGED <<conf, unit, expect, at, count>>

\* removeInstr: the oldest n entries leave the buffer.
removeInstr(n) ==
    /\ buf' = SubSeq(buf, n + 1, Len(buf))
    /\ space' = space + n

\* issue: the oldest decoded instruction leaves the decode stage.
IssueDone ==
    /\ at = "run" /\ decoded # <<>>
    /\ removeInstr(Head(decoded))
    /\ decoded' = Tail(decoded)
    /\ UNCHANGED <<conf, next, aligned, tryNew, pending, preds, incomplete, fetchEx, inProgress, at, count, expect>>

\* flushInstrBuf: from buffer b with d decoded entries and space s, keep at
\* most remain undecoded entries and forget every pending request.
flushInstrBuf_Preempted(b, d, s, remain, addr) ==
    LET kept == IF Len(b) > d + remain THEN SubSeq(b, 1, d + remain) ELSE b
    IN  /\ buf' = kept
        /\ space' = s + Len(b) - Len(kept) + Total([i \in 1 .. Len(pending) |-> size(pending[i])])
        /\ pending' = <<>>
        /\ next' = IF Len(kept) > d THEN ea(Last(kept).ea + 1) ELSE addr
        /\ aligned' = FALSE
        /\ preds' = IF conf.predictor THEN <<>> ELSE preds
        /\ incomplete' = (~conf.predictor /\ incomplete)
        /\ tryNew' = (conf.flushFetch \/ tryNew)
flushInstrBuf_KeepPreds(b, d, s, remain, addr) ==
    LET kept == IF Len(b) > d + remain THEN SubSeq(b, 1, d + remain) ELSE b
    IN  /\ buf' = kept
        /\ space' = s + Len(b) - Len(kept) + Reserved(pending)
        /\ pending' = <<>>
        /\ next' = IF Len(kept) > d THEN ea(Last(kept).ea + 1) ELSE addr
        /\ aligned' = FALSE
        /\ UNCHANGED preds
        /\ incomplete' = (~conf.predictor /\ incomplete)
        /\ tryNew' = (conf.flushFetch \/ tryNew)
flushInstrBuf(b, d, s, remain, addr) ==
    LET kept == IF Len(b) > d + remain THEN SubSeq(b, 1, d + remain) ELSE b
    IN  /\ buf' = kept
        /\ space' = s + Len(b) - Len(kept) + Reserved(pending)
        /\ pending' = <<>>
        /\ next' = IF Len(kept) > d THEN ea(Last(kept).ea + 1) ELSE addr
        /\ aligned' = FALSE
        /\ preds' = IF conf.predictor THEN <<>> ELSE preds
        /\ incomplete' = (~conf.predictor /\ incomplete)
        /\ tryNew' = (conf.flushFetch \/ tryNew)

\* flush(newFetchAddr) with reuseData: the target is found in the buffer
\* behind the d decoded entries, and what lies before it is erased.
ReuseBuffer(b, d, s, addr) ==
    LET i == CHOOSE j \in d + 1 .. Len(b) : b[j].ea = addr /\ \A k \in d + 1 .. j - 1 : b[k].ea # addr
    IN  /\ buf' = SubSeq(b, 1, d) \o SubSeq(b, i, Len(b))
        /\ space' = s + (i - 1 - d)
        /\ UNCHANGED <<next, aligned, tryNew, pending, preds, incomplete>>

\* flush(newFetchAddr) with reuseData: a pending request starts at the
\* target; the undecoded entries and the requests before it are forgotten.
ReusePending(b, d, s, addr) ==
    LET i == CHOOSE j \in 1 .. Len(pending) : pending[j].ea = addr /\ \A k \in 1 .. j - 1 : pending[k].ea # addr
    IN  /\ buf' = SubSeq(b, 1, d)
        /\ pending' = SubSeq(pending, i, Len(pending))
        /\ space' = s + (Len(b) - d) + Total([k \in 1 .. i - 1 |-> size(pending[k])])
        /\ UNCHANGED <<next, aligned, tryNew, preds, incomplete>>

flush(b, d, s, addr) ==
    IF conf.reuse /\ \E j \in d + 1 .. Len(b) : b[j].ea = addr THEN ReuseBuffer(b, d, s, addr)
    ELSE IF conf.reuse /\ \E j \in 1 .. Len(pending) : pending[j].ea = addr THEN ReusePending(b, d, s, addr)
    ELSE flushInstrBuf(b, d, s, 0, addr)

\* taken_flush of a stage: the youngest decoded instructions are removed
\* one by one, then the unit is sent to the new address.
FlushTo(n, addr) ==
    LET gone == nextDecode - Total(SubSeq(decoded, 1, n))
    IN  /\ flush(SubSeq(buf, gone + 1, Len(buf)), nextDecode - gone, space + gone, addr)
        /\ decoded' = SubSeq(decoded, 1, n)

Flush ==
    /\ at = "run"
    /\ \E n \in 0 .. Len(decoded), addr \in FlushTargets : FlushTo(n, addr) /\ expect' = addr
    /\ fetchEx' = FALSE /\ inProgress' = FALSE
    /\ UNCHANGED <<conf, at, count>>

\* cancel: new transactions stop, held data stays.
cancel ==
    /\ at = "run" /\ conf.cancel /\ pending # <<>>
    /\ flushInstrBuf(buf, nextDecode, space, Len(buf), Head(pending).ea)
    /\ UNCHANGED <<conf, core, at, count>>

\* pause and force: an instruction decides whether this cycle fetches.
pause ==
    /\ at = "run" /\ conf.pause
    /\ tryNew' = FALSE
    /\ UNCHANGED <<conf, next, aligned, buf, pending, preds, incomplete, space, core, at, count>>

force ==
    /\ at = "run" /\ conf.pause
    /\ tryNew' = TRUE
    /\ UNCHANGED <<conf, next, aligned, buf, pending, preds, incomplete, space, core, at, count>>

\* preemptFetch, called by the memory when a data access takes the bus.
preemptFetch ==
    /\ at = "run" /\ conf.preempt /\ pending # <<>> /\ ~Last(pending).preempted
    /\ pending' = [pending EXCEPT ![Len(pending)].preempted = TRUE]
    /\ space' = space + size(Last(pending))
    /\ UNCHANGED <<conf, next, aligned, tryNew, buf, preds, incomplete, core, at, count>>

---------------------------------------------------------------------------
\* full_reset, then the flush to the first address of the program.
Init ==
    /\ conf \in Configs
    /\ next = 0 /\ expect = 0
    /\ aligned = FALSE /\ tryNew = TRUE /\ incomplete = FALSE
    /\ buf = <<>> /\ pending = <<>> /\ preds = <<>> /\ decoded = <<>>
    /\ space = conf.nEntries
    /\ fetchEx = FALSE /\ inProgress = FALSE
    /\ at = "receive" /\ count = 0

Next ==
    \/ receiveInstrData \/ EndReceive
    \/ Issue \/ IssueFetchException \/ IssueDone \/ Flush \/ cancel \/ pause \/ force
    \/ preemptFetch \/ EndRun
    \/ ResendRequest \/ SendRequest \/ FetchFault \/ EndSend

Spec == Init /\ [][Next]_vars

\* The simulator's cycle never stops; the memory answers and accepts a
\* request it is offered again and again; the pipeline drains.
Fairness ==
    /\ WF_vars(EndReceive) /\ WF_vars(EndRun) /\ WF_vars(EndSend)
    /\ SF_vars(receiveInstrData) /\ SF_vars(ResendRequest) /\ SF_vars(SendRequest \/ FetchFault)
    /\ SF_vars(Issue) /\ SF_vars(IssueFetchException) /\ SF_vars(IssueDone)

FairSpec == Spec /\ Fairness

---------------------------------------------------------------------------
(* Properties                                                              *)

\* The unit's stream is the program's: whatever was fetched ahead, padded,
\* predicted, preempted, reused or cancelled, the instruction it hands out
\* next is the one that follows the last one handed out - its predicted
\* target when the unit marked it taken, else the next address, or the
\* target of the last flush (nextInstrAddr, instrData).  With nothing held
\* or pending this is the next fetch address, so a fetch exception enters
\* the pipeline with the address of the instruction that raised it.
StreamIsTheProgram == nextInstrAddr = expect

\* The assertion of hasInstrSpace: the free space is the buffer's size less
\* what it holds and less what the requests on their way will bring, so no
\* answer ever finds the buffer full, and no space leaks.
SpaceIsExact ==
    conf.min = 0 => /\ space = conf.nEntries - Len(buf) - Reserved(pending)
                    /\ space >= 0

\* Every prediction the unit still remembers is about an instruction on its
\* way: the predictions lie, in order, in the pending requests or begin in
\* the buffer and end in the pending requests or the next fetch.  A prediction
\* left over from a forgotten request would hide every later one.
PredictionsAreOfPending ==
    LET covers(r, p) == r.ea + r.front =< p.addr + p.size - 1 /\ p.addr + p.size =< r.ea + r.size - r.rear
    IN  \A i \in 1 .. Len(preds) :
            \/ \E r \in Range(pending) : covers(r, preds[i])
            \/ i = Len(preds) /\ incomplete

\* The unit never starves the pipeline: instructions, fetch exceptions or
\* redirections keep coming, as long as no instruction pauses the unit
\* (sendFetchRequests, receiveInstrData).  A preemptive memory under a program
\* that raises fetch exceptions is left out: while such an exception is waiting, the
\* unit does not send a preempted request again, and the exception is taken only
\* once no request is pending.
KeepsDelivering ==
    ~conf.pause /\ (conf.preempt => conf.bad = {}) => []<><<Issue \/ IssueFetchException \/ Flush>>_vars
=============================================================================
