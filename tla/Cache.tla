------------------------------- MODULE Cache -------------------------------
(***************************************************************************)
(* A cache of the uADL run-time (class Cache of uadl/Cache.{h,C} with the  *)
(* code uadl/GenCode.C and iss/GenCache.C generate for it): the queue of   *)
(* its port, the line-fill, store and eviction buffers, and the list of    *)
(* actions it owes to the next level of memory.                            *)
(*                                                                         *)
(* A cycle runs preCycle() in two loops (the data phase of the actions,    *)
(* then the requests), lets the instructions act, and runs postCycle()     *)
(* (the request phase of the actions); an iteration of a loop is a step.   *)
(* The cache's own port has no bandwidth limit and no bus-waiting slot.    *)
(* Times are ages, saturated at the latency they are compared with.        *)
(*                                                                         *)
(* The next level is a memory as UadlMemory has it, seen from its client:  *)
(* it accepts requests into a queue and lets the client read or write only *)
(* the one at the front, one a cycle, when it is ready.                    *)
(***************************************************************************)
EXTENDS LinefillBuf

CONSTANTS
    Configs,      \* the cache descriptions to check
    NLines,       \* lines of memory
    NSets,        \* sets of the cache
    QueueSize,    \* max_request
    MemQueueSize, \* max_request of the next level
    MaxRequests,  \* bound: requests sent in a behaviour
    MaxSlots      \* requests, and words, the next level takes in a cycle

Lines == 0 .. NLines - 1
Addr  == 0 .. NLines * WordsPerLine - 1
Sets  == 0 .. NSets - 1
Val   == 0 .. MaxRequests     \* a write writes its request's id
SetOf(line) == line % NSets

ASSUME CacheAssumption ==
    /\ NLines \in Nat \ {0} /\ NSets \in Nat \ {0} /\ Ways \in Nat \ {0}
    /\ WordsPerLine \in Nat \ {0} /\ NoLine \notin Lines
    /\ QueueSize \in Nat \ {0} /\ MemQueueSize \in Nat \ {0} /\ MaxRequests \in Nat
    /\ MaxSlots \in Nat \ {0}

VARIABLES
    conf,      \* the description
    reqs,      \* the requests of the port, oldest first
    nextId,    \* _requestId
    wasFull,   \* _queueWasFull
    sets,      \* the tag and data array
    fill,      \* _linefill
    fillIds,   \* _linefillIds
    actions,   \* _actions
    nActions,  \* _nActions
    storeBuf,  \* _storeBuf
    evictBuf,  \* _evictBuf
    command,   \* hasCommand()
    lock,      \* _canLookup, _lookupDisableTimes and _lookupEnableTimes
    clearing,  \* clearLinefill
    mem, memq, \* the next level: its contents, its queue
    slots,     \* what the next level still does this cycle
    pc, idx,   \* where the cycle is
    last       \* history: what the last write() to each address wrote

array  == <<sets, lock>>
buffers == <<fill, fillIds, storeBuf, evictBuf>>
owed   == <<actions, nActions>>
next   == <<mem, memq, slots>>
vars   == <<conf, reqs, nextId, wasFull, array, buffers, owed, command, clearing, next, pc, idx, last>>

Types   == {"Read", "Write", "Touch", "Invalidate", "Flush"}
Request == [id : 1 .. MaxRequests, type : Types, addr : Addr, age : Nat, lookupDone : BOOLEAN,
            action : {"none", "hit", "miss", "evict"}, way : 1 .. Ways, hitLinefillBuf : BOOLEAN,
            useStoreBuf : BOOLEAN, expired : BOOLEAN, cancelled : BOOLEAN,
            data : {"none", "fill", "array", "buf"}, dway : 1 .. Ways, buf : Val]
Action  == [type : {"LINEFILL", "EVICT", "READ_NEXT", "STORE_NEXT"}, id : 1 .. MaxRequests, addr : Addr,
            way : 1 .. Ways, parallelEvict : BOOLEAN, useStoreBuf : BOOLEAN, started : BOOLEAN]
Token   == [op : {"LINEFILL", "EVICT", "READ_NEXT", "STORE_NEXT"}, id : 1 .. MaxRequests, addr : Addr]

\* Every variable holds what the declarations of the classes allow.
TypeOK ==
    /\ conf \in Configs
    /\ reqs \in Seq(Request) /\ Len(reqs) =< QueueSize
    /\ nextId \in 1 .. MaxRequests + 1 /\ wasFull \in BOOLEAN
    /\ fill.sent \subseteq Words /\ fill.got \subseteq fill.sent
    /\ actions \in Seq(Action) /\ nActions \in Nat /\ (pc = "post" => nActions =< Len(actions))
    /\ storeBuf \in Seq([addr : Addr, val : Val, age : Nat])
    /\ command \in BOOLEAN /\ clearing \in BOOLEAN
    /\ mem \in [Addr -> Val] /\ memq \in Seq(Token) /\ Len(memq) =< MemQueueSize
    /\ slots \in Nat /\ pc \in {"data", "requests", "run", "post"} /\ idx \in Nat
    /\ last \in [Addr -> Val]

---------------------------------------------------------------------------
(* Requests                                                                *)

isHit(r)        == r.lookupDone /\ (r.action = "hit" \/ r.hitLinefillBuf)
needEviction(r) == r.lookupDone /\ r.action = "evict"
needLinefill(r) == r.lookupDone /\ r.action \in {"miss", "evict"}

\* A request hits the line-fill buffer unless a line fill it is newer than waits.
hitLinefillBuf(r) == hasEntry(fill, r.addr) /\ (fillIds # <<>> => r.id < Head(fillIds))

SetFor(r) == SetOf(LineOf(r.addr))

\* Mutant: a hit is served whether or not the line's data has arrived.
cacheLineHasData_Always(r) == TRUE

cacheLineHasData(r) == sets[SetFor(r)].way[r.way].hasData

\* What the request's data pointer points to now.
Value(r) ==
    CASE r.data = "fill"  -> fill.data[WordOf(r.addr)]
      [] r.data = "array" -> sets[SetFor(r)].way[r.dway].data[WordOf(r.addr)]
      [] OTHER            -> r.buf

\* Mutant: a store does not make its line dirty.
operationEnd_Clean(ss, r) ==
    IF r.action = "none" THEN ss
    ELSE [ss EXCEPT ![SetFor(r)] = end(@, r.way, r.action, FALSE, conf.through)]

\* operationEnd(): nothing for a request that bypassed the cache.
operationEnd(ss, r) ==
    IF r.action = "none" THEN ss
    ELSE [ss EXCEPT ![SetFor(r)] = end(@, r.way, r.action, r.type = "Write", conf.through)]

---------------------------------------------------------------------------
(* The next level of memory                                                *)

Tok(op, id, a) == [op |-> op, id |-> id, addr |-> a]

\* How many of the requests ts, in order, the next level answers now.
Answered(ts) ==
    Max({n \in 0 .. Min({slots, Len(ts), Len(memq)}) : SubSeq(ts, 1, n) = SubSeq(memq, 1, n)})

\* How many of ts, in order, it accepts now.
Accepted(ts) == Min({slots, Len(ts), MemQueueSize - Len(memq)})

\* The front of its queue is the request of this action, and it answers.
Ready(a) == slots > 0 /\ memq # <<>> /\ Head(memq).op = a.type /\ Head(memq).id = a.id

Answers(n) == memq' = SubSeq(memq, n + 1, Len(memq)) /\ slots' = slots - n
Accepts(ts) == LET n == Accepted(ts) IN memq' = memq \o SubSeq(ts, 1, n) /\ slots' = slots - n

---------------------------------------------------------------------------
(* preCycle(): the start of a cycle                                        *)

Older(t) == [i \in 1 .. Len(t) |-> IF t[i] > 0 THEN t[i] - 1 ELSE -1]
Fires(t) == t # <<>> /\ Head(t) = 0

\* Mutant: a disable that falls on an enable takes effect.
LockTick_DisableWins ==
    LET dis == Older(lock.disable)
        en  == Older(lock.enable)
    IN  [can |-> (lock.can \/ Fires(en)) /\ ~Fires(dis),
         disable |-> IF Fires(dis) THEN Tail(dis) ELSE dis,
         enable |-> IF Fires(en) THEN Tail(en) ELSE en]

\* The lookup times are relative to now. A disable that falls on an enable
\* does not take effect.
LockTick ==
    LET dis == Older(lock.disable)
        en  == Older(lock.enable)
    IN  [can |-> (lock.can /\ ~Fires(dis)) \/ Fires(en),
         disable |-> IF Fires(dis) THEN Tail(dis) ELSE dis,
         enable |-> IF Fires(en) THEN Tail(en) ELSE en]

MaxLatency == Max({conf.readLatency, conf.writeLatency, conf.fillReadLatency, conf.fillWriteLatency,
                    conf.commandLatency})
Grown(x, limit) == [x EXCEPT !.age = Min({@ + 1, limit})]

\* The loop over the actions goes on while they complete.
DataPhase(acts, go) ==
    IF go /\ acts # <<>> THEN pc' = "data" /\ idx' = 1 /\ nActions' = 0
    ELSE pc' = "requests" /\ idx' = 1 /\ nActions' = Len(acts)

PostDone == idx > nActions

BeginCycle(n) ==
    /\ pc = "post" /\ PostDone
    /\ slots' = n
    /\ wasFull' = (Len(reqs) = QueueSize)
    /\ lock' = LockTick
    /\ reqs' = [i \in 1 .. Len(reqs) |-> Grown(reqs[i], MaxLatency)]
    /\ storeBuf' = [i \in 1 .. Len(storeBuf) |-> Grown(storeBuf[i], conf.nextLatency)]
    /\ DataPhase(actions, TRUE)
    /\ UNCHANGED <<conf, nextId, clearing, sets, fill, fillIds, actions, evictBuf, command, mem, memq, last>>

---------------------------------------------------------------------------
(* preCycle(): the data phase of the actions                               *)

\* writeBackLinefill(): the line goes to the array unless a waiting line fill
\* will replace it there; then it stays while requests need it. The first
\* action is not looked at: it is the line fill that has completed.
Overloaded ==
    \E i \in 2 .. Len(actions) : /\ actions[i].type = "LINEFILL" /\ actions[i].way = fill.way
                                 /\ SetOf(LineOf(actions[i].addr)) = SetOf(fill.line)

WrittenBack(f) ==
    [sets EXCEPT ![SetOf(f.line)].way[f.way] = [@ EXCEPT !.data = f.data, !.hasData = TRUE]]

Redirected(f) ==
    [i \in 1 .. Len(reqs) |->
        IF hitLinefillBuf(reqs[i]) /\ reqs[i].expired
        THEN [reqs[i] EXCEPT !.data = "array", !.dway = f.way] ELSE reqs[i]]

writeBackLinefill(f) ==
    /\ sets' = IF Overloaded THEN sets ELSE WrittenBack(f)
    /\ reqs' = IF Overloaded THEN reqs ELSE Redirected(f)

\* It returns whether the buffer may be cleared.
MayClear == Overloaded => \A i \in 1 .. Len(reqs) : ~hitLinefillBuf(reqs[i])

WordToks(id, line, ws) == [i \in 1 .. Len(ws) |-> Tok("LINEFILL", id, AddrOf(line, ws[i]))]

LinefillData ==
    LET a == Head(actions)
        n == IF a.started /\ ~fill.empty THEN Answered(WordToks(a.id, fill.line, Missing(fill))) ELSE 0
        f == IF a.started /\ ~fill.empty
             THEN loadData(fill, {Missing(fill)[i] : i \in 1 .. n}, [w \in Words |-> mem[AddrOf(fill.line, w)]])
             ELSE fill
        acts(go) == IF go THEN Tail(actions) ELSE actions
    IN
    /\ pc = "data" /\ Head(actions).type = "LINEFILL"
    /\ fill' = f
    /\ Answers(n)
    \* Without a second action, the code reads one that is not there.
    /\ \E evictStarted \in IF Len(actions) > 1 THEN {actions[2].started} ELSE BOOLEAN :
           LET back == a.started /\ loaded(f) /\ ~conf.lazy /\ (a.parallelEvict => evictStarted)
               go   == a.started /\ ((back /\ MayClear) \/ quiet(f, conf.lazy))
           IN  /\ IF back THEN writeBackLinefill(f) ELSE UNCHANGED <<sets, reqs>>
               /\ clearing' = (clearing \/ (back /\ MayClear))
               /\ actions' = acts(go)
               /\ DataPhase(acts(go), go)
    /\ UNCHANGED <<conf, nextId, wasFull, lock, fillIds, storeBuf, evictBuf, command, mem, last>>

EvictData ==
    LET a == Head(actions)
        words == [i \in 1 .. evictBuf.sent - evictBuf.pushed |->
                     Tok("EVICT", evictBuf.id, AddrOf(evictBuf.line, evictBuf.pushed + i - 1))]
        n == IF a.started /\ ~evictBuf.empty THEN Answered(words) ELSE 0
        e == [evictBuf EXCEPT !.pushed = @ + n]
        go == a.started /\ (e.empty \/ evicted(e))
        acts == IF go THEN Tail(actions) ELSE actions
    IN
    /\ pc = "data" /\ Head(actions).type = "EVICT"
    /\ evictBuf' = IF a.started /\ evicted(e) THEN EmptyEvict ELSE e
    /\ mem' = [x \in Addr |-> IF \E i \in 1 .. n : words[i].addr = x THEN evictBuf.data[WordOf(x)] ELSE mem[x]]
    /\ Answers(n)
    /\ actions' = acts
    /\ DataPhase(acts, go)
    /\ UNCHANGED <<conf, reqs, nextId, wasFull, array, fill, fillIds, storeBuf, command, clearing, last>>

ReadNextData ==
    LET a  == Head(actions)
        go == a.started /\ Ready(a)
        acts == IF go THEN Tail(actions) ELSE actions
    IN
    /\ pc = "data" /\ Head(actions).type = "READ_NEXT"
    /\ reqs' = [i \in 1 .. Len(reqs) |->
                   IF go /\ reqs[i].id = a.id
                   THEN [reqs[i] EXCEPT !.data = "buf", !.buf = mem[reqs[i].addr], !.expired = TRUE]
                   ELSE reqs[i]]
    /\ Answers(IF go THEN 1 ELSE 0)
    /\ actions' = acts
    /\ DataPhase(acts, go)
    /\ UNCHANGED <<conf, nextId, wasFull, array, buffers, command, clearing, mem, last>>

\* A store that does not go through the store buffer is left to write().
StoreNextData ==
    LET a  == Head(actions)
        go == a.useStoreBuf /\ a.started /\ Ready(a)
        acts == IF go THEN Tail(actions) ELSE actions
    IN
    /\ pc = "data" /\ Head(actions).type = "STORE_NEXT"
    /\ IF go /\ storeBuf # <<>>
       THEN mem' = [mem EXCEPT ![Head(memq).addr] = Head(storeBuf).val] /\ storeBuf' = Tail(storeBuf)
       ELSE UNCHANGED <<mem, storeBuf>>
    /\ Answers(IF go THEN 1 ELSE 0)
    /\ actions' = acts
    /\ DataPhase(acts, go)
    /\ UNCHANGED <<conf, reqs, nextId, wasFull, array, fill, fillIds, evictBuf, command, clearing, last>>

---------------------------------------------------------------------------
(* preCycle(): the requests                                                *)

\* operationBegin(): the lookup in the array of the ISS. A command gives the
\* set and way it is about; the others find theirs.
operationBegin(r) ==
    LET S == sets[SetFor(r)]
        found == access(S, LineOf(r.addr), r.type = "Write")
        did(action, way, T) == [r |-> [r EXCEPT !.lookupDone = TRUE, !.action = action, !.way = way,
                                                !.age = IF r.type = "Read" THEN 0 ELSE @],
                                ss |-> [sets EXCEPT ![SetFor(r)] = T]]
    IN  CASE r.type = "Invalidate" -> did("none", r.way, invalidate(S, r.way))
          [] r.type = "Flush" -> did(IF flush_line_needed(S, r.way) THEN "evict" ELSE "none",
                                     r.way, flush_line(S, r.way))
          [] r.type \in {"Read", "Write", "Touch"} /\
             \/ r.type # "Touch" /\ LineOf(r.addr) \in conf.uncached
             \/ r.type = "Write" /\ ~conf.allocate /\ found.action # "hit" -> did("none", r.way, S)
          [] OTHER -> did(found.action, found.way, found.set)

\* A request the line-fill buffer will serve takes its set and way from it; a
\* false miss is undone by invalidating the way it was given.
AtLinefillBuf(r) == hitLinefillBuf(r) /\ ~clearing
Adopted(r)  == IF AtLinefillBuf(r) THEN [r EXCEPT !.hitLinefillBuf = TRUE, !.way = fill.way] ELSE r
Undone(ss, r) ==
    IF AtLinefillBuf(r) /\ r.way # fill.way /\ r.action \in {"miss", "evict"}
    THEN [ss EXCEPT ![SetFor(r)].way[r.way].valid = FALSE] ELSE ss

NewAction(type, r) ==
    [type |-> type, id |-> r.id, addr |-> r.addr, way |-> r.way, started |-> FALSE,
     parallelEvict |-> type = "LINEFILL" /\ needEviction(r),
     useStoreBuf |-> type = "STORE_NEXT" /\ r.useStoreBuf]

\* The actions addLinefillAction() appends.
addLinefillAction(r) ==
    <<NewAction("LINEFILL", r)>> \o (IF needEviction(r) THEN <<NewAction("EVICT", r)>> ELSE <<>>)

\* The request with its data, when it can be served now.
Served(r) ==
    LET write == r.type = "Write"
        taken == write => r.age >= conf.takenLatency
        since(rl, wl) == r.age >= (IF write THEN wl ELSE rl)
    IN  CASE AtLinefillBuf(r) ->
                 IF hasData(fill, r.addr) /\ taken /\ since(conf.fillReadLatency, conf.fillWriteLatency)
                 THEN [r EXCEPT !.data = "fill", !.expired = TRUE] ELSE r
          [] ~AtLinefillBuf(r) /\ isHit(r) ->
                 IF cacheLineHasData(r) /\ taken /\ since(conf.readLatency, conf.writeLatency)
                 THEN [r EXCEPT !.data = "array", !.dway = r.way, !.expired = TRUE] ELSE r
          [] OTHER ->
                 IF write /\ ~needLinefill(r) /\ taken
                 THEN [r EXCEPT !.data = "none", !.expired = TRUE] ELSE r

writesThrough(r) == r.type = "Write" /\ (r.action = "none" \/ conf.through)

\* A read or write, after its lookup if isNew: the request, and the actions
\* that are appended for it.
useStoreBufFor(r) == IF writesThrough(r) THEN [r EXCEPT !.useStoreBuf = conf.storeBuf \/ isHit(r)] ELSE r

ReadWrite(r, isNew) ==
    LET s == IF isNew THEN useStoreBufFor(Served(r)) ELSE Served(r)
        \* A store that was to bypass the store buffer and now hits.
        turned == ~isNew /\ writesThrough(s) /\ isHit(s) /\ ~s.useStoreBuf /\
                  \E i \in 1 .. Len(actions) : actions[i].id = s.id /\ actions[i].type = "STORE_NEXT"
        miss == isNew /\ ~AtLinefillBuf(r) /\ ~isHit(r)
    IN
    /\ reqs' = [reqs EXCEPT ![idx] = [s EXCEPT !.useStoreBuf = @ \/ turned]]
    /\ actions' =
           [i \in 1 .. Len(actions) |->
               IF turned /\ actions[i].id = s.id /\ actions[i].type = "STORE_NEXT"
               THEN [actions[i] EXCEPT !.useStoreBuf = TRUE] ELSE actions[i]]
           \o (IF miss /\ needLinefill(r) THEN addLinefillAction(r) ELSE <<>>)
           \o (IF miss /\ r.type = "Read" /\ ~needLinefill(r) THEN <<NewAction("READ_NEXT", r)>> ELSE <<>>)
           \o (IF isNew /\ writesThrough(s) /\ ~s.cancelled THEN <<NewAction("STORE_NEXT", s)>> ELSE <<>>)
    /\ fillIds' = IF miss /\ needLinefill(r) THEN Append(fillIds, r.id) ELSE fillIds
    /\ UNCHANGED command

\* A command; it ends, and is removed, when its latency has passed.
Command(r, isNew) ==
    LET fills == isNew /\ r.type = "Touch" /\ needLinefill(r)
        ends  == r.age >= conf.commandLatency /\ (r.type = "Touch" /\ needLinefill(r) => isHit(r))
    IN
    /\ reqs' = IF ends THEN Tail(reqs) ELSE [reqs EXCEPT ![idx] = r]
    /\ command' = ~ends
    /\ actions' = actions
           \o (IF fills THEN addLinefillAction(r) ELSE <<>>)
           \o (IF isNew /\ r.type = "Flush" /\ needEviction(r) THEN <<NewAction("EVICT", r)>> ELSE <<>>)
    /\ fillIds' = IF fills THEN Append(fillIds, r.id) ELSE fillIds

\* The line of a miss has no data until it is filled.
Disabled(ss, r, isNew) ==
    IF isNew /\ needLinefill(r) /\ r.type # "Flush" /\ (r.type # "Touch" => ~AtLinefillBuf(r) /\ ~isHit(r))
    THEN [ss EXCEPT ![SetFor(r)].way[r.way].hasData = FALSE] ELSE ss

ProcessRequest ==
    LET r0 == reqs[idx]
        isNew == ~r0.lookupDone
        begun == IF isNew THEN operationBegin(r0) ELSE [r |-> r0, ss |-> sets]
        r == Adopted(begun.r)
    IN
    /\ pc = "requests" /\ idx =< Len(reqs)
    /\ ~r0.expired
    /\ isNew => lock.can
    /\ sets' = Disabled(Undone(begun.ss, begun.r), r, isNew)
    /\ IF r.type \in {"Read", "Write"} THEN ReadWrite(r, isNew) ELSE Command(r, isNew)
    \* One lookup a cycle.
    /\ idx' = IF isNew THEN QueueSize + 1 ELSE idx + 1
    /\ UNCHANGED <<conf, nextId, wasFull, lock, fill, storeBuf, evictBuf, nActions, clearing, next, pc, last>>

\* An expired request is passed over; one that has to be looked up ends the
\* loop when the array is locked.
PassRequest ==
    /\ pc = "requests" /\ idx =< Len(reqs)
    /\ \/ reqs[idx].expired /\ idx' = idx + 1
       \/ ~reqs[idx].expired /\ ~reqs[idx].lookupDone /\ ~lock.can /\ idx' = QueueSize + 1
    /\ UNCHANGED <<conf, reqs, nextId, wasFull, array, buffers, owed, command, clearing, next, pc, last>>

\* The line-fill buffer is cleared only now; then the expired and cancelled
\* requests at the front of the queue are removed.
Gone(rs) == Max({n \in 0 .. Len(rs) : \A i \in 1 .. n : rs[i].expired /\ rs[i].cancelled})

EndRequests ==
    /\ pc = "requests" /\ idx > Len(reqs)
    /\ fill' = IF clearing THEN clear(fill) ELSE fill
    /\ clearing' = FALSE
    /\ sets' = FoldLeft(operationEnd, sets, SubSeq(reqs, 1, Gone(reqs)))
    /\ reqs' = SubSeq(reqs, Gone(reqs) + 1, Len(reqs))
    /\ pc' = "run" /\ idx' = 1
    /\ UNCHANGED <<conf, nextId, wasFull, lock, fillIds, storeBuf, evictBuf, owed, command, next, last>>

---------------------------------------------------------------------------
(* The instructions                                                        *)

sendRequestInquire ==
    /\ ~command
    /\ ~(conf.block /\ fill.received)
    /\ ~wasFull /\ Len(reqs) < QueueSize

NewRequest(type, a, way) ==
    [id |-> nextId, type |-> type, addr |-> a, age |-> 0, lookupDone |-> FALSE, action |-> "none",
     way |-> way, hitLinefillBuf |-> FALSE, useStoreBuf |-> FALSE, expired |-> FALSE,
     cancelled |-> FALSE, data |-> "none", dway |-> 1, buf |-> 0]

Sends(type, a, way) ==
    /\ nextId =< conf.requests
    /\ reqs' = Append(reqs, NewRequest(type, a, way))
    /\ nextId' = nextId + 1

sendRequest(type, a) ==
    /\ pc = "run"
    /\ sendRequestInquire
    /\ type \in conf.types /\ a \in conf.addrs
    /\ Sends(type, a, 1)
    /\ UNCHANGED <<conf, wasFull, array, buffers, owed, command, clearing, next, pc, idx, last>>

\* A command waits for the queue to be empty and the line-fill buffer quiet.
sendCommand(type, a, way) ==
    /\ pc = "run"
    /\ type \in conf.commands /\ a \in conf.addrs /\ LineOf(a) \notin conf.uncached /\ WordOf(a) = 0
    /\ quiet(fill, conf.lazy) /\ reqs = <<>>
    /\ Sends(type, a, way)
    /\ command' = TRUE
    /\ UNCHANGED <<conf, wasFull, array, buffers, owed, clearing, next, pc, idx, last>>

FrontIs(type) ==
    reqs # <<>> /\ Head(reqs).type = type /\ Head(reqs).expired /\ ~Head(reqs).cancelled

readInquire == FrontIs("Read")

read ==
    /\ pc = "run" /\ readInquire
    /\ sets' = operationEnd(sets, Head(reqs))
    /\ reqs' = Tail(reqs)
    /\ UNCHANGED <<conf, nextId, wasFull, lock, buffers, owed, command, clearing, next, pc, idx, last>>

\* The store buffer takes one entry more than its size.
StoreBufFull == conf.storeBufSize > 0 /\ Len(storeBuf) > conf.storeBufSize

\* A store that bypasses both the cache and the store buffer.
Direct(r) == r.action = "none" /\ ~r.useStoreBuf

writeInquire ==
    LET r == Head(reqs)
        a == Head(actions)
    IN  /\ FrontIs("Write")
        /\ r.useStoreBuf => ~StoreBufFull
        /\ Direct(r) => actions # <<>> /\ a.started /\ a.id = r.id /\ a.type = "STORE_NEXT" /\ Ready(a)

\* What the data pointer of r points to gets r's value.
Stored(ss, r) == [ss EXCEPT ![SetFor(r)].way[r.dway].data[WordOf(r.addr)] = r.id]

write ==
    LET r == Head(reqs) IN
    /\ pc = "run" /\ writeInquire
    /\ fill' = IF r.data = "fill" THEN [fill EXCEPT !.data[WordOf(r.addr)] = r.id] ELSE fill
    /\ sets' = operationEnd(IF r.data = "array" THEN Stored(sets, r) ELSE sets, r)
    /\ storeBuf' = IF r.useStoreBuf THEN Append(storeBuf, [addr |-> r.addr, val |-> r.id, age |-> 0])
                   ELSE storeBuf
    /\ IF Direct(r)
       THEN /\ mem' = [mem EXCEPT ![Head(memq).addr] = r.id]
            /\ Answers(1)
            /\ actions' = Tail(actions) /\ nActions' = nActions - 1
       ELSE UNCHANGED <<next, owed>>
    /\ reqs' = Tail(reqs)
    /\ last' = [last EXCEPT ![r.addr] = r.id]
    /\ UNCHANGED <<conf, nextId, wasFull, lock, fillIds, evictBuf, command, clearing, pc, idx>>

\* Mutant: _nActions is left as it is.
CountAfter_Same(n, gone) == n

\* Erasing actions takes one off _nActions for every one whose index, as the
\* list shrinks, is below its old value.
CountAfter(n, gone) ==
    n - Cardinality({i \in gone : i - Cardinality({j \in gone : j < i}) =< n})

Erased(acts, n, gone) ==
    [acts |-> SelectSeq(acts, LAMBDA a : a \notin gone),
     n |-> CountAfter(n, {i \in 1 .. Len(acts) : acts[i] \in gone})]

\* Mutant: only a deep cancellation takes the actions along.
TakesActions_Deep(r, deep) == deep

\* A write must cancel its next-level actions.
TakesActions(r, deep) == deep \/ r.type = "Write"

\* cancel_internal(): a deep cancellation removes the request, and the actions
\* whose request is then not found.
cancel(i, deep) ==
    LET r == reqs[i]
        mine == {a \in Range(actions) : a.id = r.id /\ a.type \in {"READ_NEXT", "STORE_NEXT"}}
        e == IF TakesActions(r, deep) THEN Erased(actions, nActions, mine)
             ELSE [acts |-> actions, n |-> nActions]
        rest == RemoveAt(reqs, i)
        lost == {a \in Range(e.acts) : /\ a.type \in {"READ_NEXT", "EVICT"}
                                      /\ \A j \in 1 .. Len(rest) : rest[j].id # a.id}
        f == IF deep THEN Erased(e.acts, e.n, lost) ELSE e
    IN
    /\ pc = "run" /\ conf.cancels /\ ~command
    /\ ~r.cancelled
    /\ actions' = f.acts /\ nActions' = f.n
    /\ memq' = IF TakesActions(r, deep)
               THEN SelectSeq(memq, LAMBDA t : ~(t.id = r.id /\ t.op \in {"READ_NEXT", "STORE_NEXT"}))
               ELSE memq
    /\ reqs' = IF deep THEN rest ELSE [reqs EXCEPT ![i].cancelled = TRUE]
    /\ UNCHANGED <<conf, nextId, wasFull, array, buffers, command, clearing, mem, slots, pc, idx, last>>

\* An instruction that finds its data ready, or its store possible, goes on at
\* once where the pipeline is prompt.
EndRun ==
    /\ pc = "run"
    /\ conf.prompt => ~readInquire /\ ~writeInquire
    /\ pc' = "post" /\ idx' = 1 /\ slots' = MaxSlots
    /\ UNCHANGED <<conf, reqs, nextId, wasFull, array, buffers, owed, command, clearing, mem, memq, last>>

---------------------------------------------------------------------------
(* postCycle(): the request phase of the actions                           *)

\* The loop goes on to the next action while each sends all it has.
PostLoop(go) == idx' = IF go THEN idx + 1 ELSE nActions + 1

AtPost(type) == pc = "post" /\ idx =< nActions /\ actions[idx].type = type

\* The lookup lock that a line fill sets when its first request is sent.
LockTimes(parallelEvict, wasValid, later) ==
    LET time == conf.lockCycle + (IF parallelEvict THEN conf.evictLockCycle ELSE 0)
        disable == conf.holdoff + later
        enable  == conf.holdoff + time
    IN  IF time = 0 \/ (conf.lockOnValid /\ ~wasValid) THEN lock
        ELSE IF lock.enable = <<>> \/ disable > Last(lock.enable)
        THEN [lock EXCEPT !.disable = Append(@, disable), !.enable = Append(@, enable)]
        ELSE [lock EXCEPT !.enable = Append(Front(@), Max({Last(@), enable}))]

LinefillRequest ==
    LET a == actions[idx]
        back == ~a.started /\ conf.lazy /\ loaded(fill)
        f0 == IF back /\ MayClear THEN clear(fill) ELSE fill
        starts == ~a.started /\ f0.empty
        ahead  == ~a.started /\ ~f0.empty /\ conf.consecutive /\ allRequestsSent(f0) /\ ~f0.hasExtra
        f1 == IF starts THEN init(f0, a.id, a.addr, a.way, conf.criticalWordFirst)
              ELSE IF ahead THEN setupExtra(f0, a.addr, conf.criticalWordFirst) ELSE f0
        on == a.started \/ starts
        \* sendRequest(), then sendExtraRequest() for the first waiting line fill
        ws == IF on THEN Unsent(f1) ELSE <<>>
        xs == IF f1.hasExtra /\ ~f1.extraSent THEN <<Tok("LINEFILL", Head(fillIds), f1.extraAddr)>> ELSE <<>>
        ts == WordToks(a.id, f1.line, ws) \o xs
        n  == Accepted(ts)
        f2 == [f1 EXCEPT !.sent = @ \cup {ws[i] : i \in 1 .. Min({n, Len(ws)})},
                         !.extraSent = @ \/ n > Len(ws),
                         !.started = @ \/ n > 0]
    IN
    /\ AtPost("LINEFILL")
    /\ IF back THEN writeBackLinefill(fill) ELSE UNCHANGED <<sets, reqs>>
    /\ fill' = f2
    /\ fillIds' = IF starts THEN Tail(fillIds) ELSE fillIds
    /\ actions' = [actions EXCEPT ![idx].started = on]
    /\ Accepts(ts)
    /\ PostLoop(IF f1.hasExtra THEN f2.extraSent ELSE on /\ n = Len(ts))
    \* The code may set a hold-off of 1 a cycle back; on what is left open.
    /\ \E later \in IF conf.holdoff = 1 THEN {0, 1} ELSE {0} :
           lock' = IF on /\ ~f1.started /\ f2.started
                   THEN LockTimes(a.parallelEvict, ~fill.empty, later) ELSE lock
    /\ UNCHANGED <<conf, nextId, wasFull, nActions, storeBuf, evictBuf, command, clearing, mem, pc, last>>

\* The line goes to the address in the tag array.
EvictRequest ==
    LET a == actions[idx]
        w == sets[SetOf(LineOf(a.addr))].way[a.way]
        starts == ~a.started /\ evictBuf.empty
        e == IF starts THEN initEvict(a.id, w.tag, w.data) ELSE evictBuf
        on == a.started \/ starts
        ts == IF on THEN [i \in 1 .. WordsPerLine - e.sent |-> Tok("EVICT", e.id, AddrOf(e.line, e.sent + i - 1))]
              ELSE <<>>
    IN
    /\ AtPost("EVICT")
    /\ evictBuf' = [e EXCEPT !.sent = @ + Accepted(ts)]
    /\ actions' = [actions EXCEPT ![idx].started = on]
    /\ Accepts(ts)
    /\ PostLoop(on /\ Accepted(ts) = Len(ts))
    /\ UNCHANGED <<conf, reqs, nextId, wasFull, array, nActions, fill, fillIds, storeBuf, command, clearing, mem, pc, last>>

\* An action of one request: sent once its condition holds and there is room.
SendsOne(ready, a, addr) ==
    LET ts == IF ~a.started /\ ready THEN <<Tok(a.type, a.id, addr)>> ELSE <<>>
        on == a.started \/ (ts # <<>> /\ Accepted(ts) = 1)
    IN
    /\ actions' = [actions EXCEPT ![idx].started = on]
    /\ Accepts(ts)
    /\ PostLoop(on)
    /\ UNCHANGED <<conf, reqs, nextId, wasFull, array, buffers, nActions, command, clearing, mem, pc, last>>

ReadNextRequest == AtPost("READ_NEXT") /\ SendsOne(TRUE, actions[idx], actions[idx].addr)

\* The entry of the store buffer is found by counting the stores before it.
StoreNextRequest ==
    LET a == actions[idx]
        k == 1 + Cardinality({i \in 1 .. idx - 1 : actions[i].type = "STORE_NEXT" /\ actions[i].useStoreBuf})
        entry == k =< Len(storeBuf) /\ storeBuf[k].age >= conf.nextLatency
    IN  /\ AtPost("STORE_NEXT")
        /\ SendsOne(a.useStoreBuf => entry, a,
                    IF a.useStoreBuf /\ entry THEN storeBuf[k].addr ELSE a.addr)

---------------------------------------------------------------------------
(* The specification                                                       *)

Init ==
    /\ conf \in Configs
    /\ reqs = <<>> /\ nextId = 1 /\ wasFull = FALSE
    /\ sets = [s \in Sets |-> EmptySet] /\ lock = [can |-> TRUE, disable |-> <<>>, enable |-> <<>>]
    /\ fill = EmptyFill /\ fillIds = <<>> /\ storeBuf = <<>> /\ evictBuf = EmptyEvict
    /\ actions = <<>> /\ nActions = 0 /\ command = FALSE /\ clearing = FALSE
    /\ mem = [a \in Addr |-> 0] /\ memq = <<>> /\ slots = 0
    /\ pc = "run" /\ idx = 1
    /\ last = [a \in Addr |-> 0]

Data     == actions # <<>> /\ (LinefillData \/ EvictData \/ ReadNextData \/ StoreNextData)
Lookups  == ProcessRequest \/ PassRequest \/ EndRequests
Requests == LinefillRequest \/ EvictRequest \/ ReadNextRequest \/ StoreNextRequest

Next ==
    \/ \E n \in 0 .. MaxSlots : BeginCycle(n)
    \/ EndRun
    \/ Data \/ Lookups \/ Requests
    \/ \E a \in Addr : sendRequest("Read", a) \/ sendRequest("Write", a)
    \/ \E type \in Types, a \in Addr, way \in 1 .. Ways : sendCommand(type, a, way)
    \/ read \/ write
    \/ \E i \in 1 .. Len(reqs), deep \in BOOLEAN : cancel(i, deep)

Spec == Init /\ [][Next]_vars

\* Time passes, and the next level transfers something again and again.
FairSpec == Spec /\ []<><<BeginCycle(MaxSlots)>>_vars

---------------------------------------------------------------------------
(* Properties                                                              *)

\* A read gets what the last write to its address wrote: read() at the front of
\* the queue copies from the buffer, line or word its data pointer was set to
\* when it expired, which fills, write-backs and evictions since may have reused.
ReadsAreCurrent == pc = "run" /\ readInquire => Value(Head(reqs)) = last[Head(reqs).addr]

\* assert(entry.ea == action.ea): the k-th store the cache owes through its
\* store buffer is for the address of the buffer's k-th entry, so a STORE_NEXT
\* never sends or pops another store's data; and one that is sent has its entry.
StoreBufferInStep ==
    LET owes == SelectSeq(actions, LAMBDA a : a.type = "STORE_NEXT" /\ a.useStoreBuf)
    IN  /\ \A k \in 1 .. Len(storeBuf) : k =< Len(owes) /\ owes[k].addr = storeBuf[k].addr
        /\ \A k \in 1 .. Len(owes) : owes[k].started => k =< Len(storeBuf)

\* What a debug access sees (getMemoryData): the line-fill buffer, the array, the
\* newest entry of the store buffer, the eviction buffer, then the next level.
DebugData(a) ==
    LET ws == {w \in find(sets[SetOf(LineOf(a))], LineOf(a)) : sets[SetOf(LineOf(a))].way[w].hasData}
        stores == {i \in 1 .. Len(storeBuf) : storeBuf[i].addr = a}
    IN  CASE hasData(fill, a) -> fill.data[WordOf(a)]
          [] ~hasData(fill, a) /\ ws # {} -> sets[SetOf(LineOf(a))].way[Min(ws)].data[WordOf(a)]
          [] ~hasData(fill, a) /\ ws = {} /\ stores # {} -> storeBuf[Max(stores)].val
          [] OTHER -> IF ~evictBuf.empty /\ evictBuf.line = LineOf(a) THEN evictBuf.data[WordOf(a)] ELSE mem[a]

Idle == reqs = <<>> /\ actions = <<>> /\ storeBuf = <<>> /\ memq = <<>>

Dirty(a) == \E w \in find(sets[SetOf(LineOf(a))], LineOf(a)) : sets[SetOf(LineOf(a))].way[w].dirty

\* No store is lost: when the cache owes nothing, a debug access finds in the
\* cache or in the next level what was last written to every address, and the
\* next level itself has it unless a dirty line of a write-back cache does.
NothingLost ==
    Idle => \A a \in Addr : /\ DebugData(a) = last[a]
                            /\ conf.through \/ ~Dirty(a) => mem[a] = last[a]

\* Every request is served and every action, store and lock is worked off,
\* whatever is cancelled: the cache comes to rest with lookups enabled.
ComesToRest == <>[](Idle /\ lock.can)
=============================================================================
