------------------------------ MODULE UadlMemory ------------------------------
(***************************************************************************)
(* The timed memory of the uADL run-time (uadl/UadlMemory.{h,C},           *)
(* uadl/MemoryRequest.h, uadl/BandwidthControl.{h,C}): request queues with *)
(* one bus-waiting slot per port, per-cycle bandwidth, latencies,          *)
(* preemption of a bus-waiting fetch, cancellation and the memory lock.    *)
(*                                                                         *)
(* The clients are the instructions in the pipeline and the fetch unit.    *)
(* They only act between two runs of preCycle(), and always call the       *)
(* inquiry method before the operation it guards, as the generated         *)
(* pipeline code and DefaultFetchUnit do.                                  *)
(*                                                                         *)
(* Time is relative: a request carries the cycles since it was sent        *)
(* ("age", currTime - request.time in the code), saturated at its latency, *)
(* the only value an age is compared with.                                 *)
(***************************************************************************)
EXTENDS Integers, Sequences

CONSTANTS
  NPorts,           \* number of ports of the memory
  QueueSize,        \* max_requests: capacity of a port's request queue
  AllowBusWait,     \* allow_bus_wait: a port has a bus-waiting slot
  Preemptive,       \* preemptive: loads and stores may preempt a waiting fetch
  ReadLatency, WriteLatency,          \* latencies of the memory
  PortReadLatency, PortWriteLatency,  \* latencies of a port; 0: the memory's
  AddrBandwidth, DataBandwidth,       \* operations per cycle; 0: no limit
  CommonBandwidth,  \* ports whose data and address bandwidth is one counter
  Instrs,           \* the instructions that access the memory
  Lockers,          \* the instructions that lock and unlock it
  FetchUnit,        \* the fetch unit
  FetchPort,        \* _memPort: the port the fetch unit is connected to
  MaxRequestId,     \* bound: requests sent in a behaviour
  MaxUnlockDelay,   \* bound: delay of a delayed unlock
  NoRequest         \* an unused bus-waiting slot

Ports   == 0 .. NPorts - 1
Clients == Instrs \cup {FetchUnit}
Types   == {"IFetch", "Read", "Write"}

ASSUME MemoryAssumption ==
  /\ NPorts \in Nat \ {0} /\ QueueSize \in Nat \ {0}
  /\ AllowBusWait \in BOOLEAN /\ Preemptive \in BOOLEAN
  /\ ReadLatency \in Nat /\ WriteLatency \in Nat
  /\ PortReadLatency \in [Ports -> Nat] /\ PortWriteLatency \in [Ports -> Nat]
  /\ AddrBandwidth \in Nat /\ DataBandwidth \in Nat
  /\ CommonBandwidth \subseteq Ports
  /\ Lockers \subseteq Instrs /\ FetchUnit \notin Instrs
  /\ FetchPort \in Ports
  /\ MaxRequestId \in Nat /\ MaxUnlockDelay \in Nat

NoId     == 0   \* no preemption id: request ids start at 1
NoDelay  == -1  \* no delayed unlock is under way

Request == [id : Nat, client : Clients, type : Types, port : Ports, age : Nat,
            expired : BOOLEAN, cancelled : BOOLEAN]

ASSUME NoRequestAssumption == NoRequest \notin Request

VARIABLES
  requests,        \* _requests of each port, front first
  waiting,         \* _waitingRequest of each port, or NoRequest
  active,          \* _active of each port, taken at the start of the cycle
  addrUsed,        \* address bandwidth consumed this cycle, per port
  dataUsed,        \* data bandwidth consumed this cycle, per port
  requestId,       \* _requestId: the next id
  queueWasFull, queueWasActive,
  preemptionId,    \* _preemptionId, or NoId if not _hasPreemptionId
  locked, locker, unlockDelay,
  scan,            \* the port preCycle() handles next; NPorts: clients run
  outstanding,     \* the requests the clients still hold an id for
  hold             \* history: how the lock was obtained

queueVars == <<requests, waiting, active, addrUsed, dataUsed, requestId,
               queueWasFull, queueWasActive, preemptionId>>
lockVars  == <<locked, locker, unlockDelay, hold>>
vars      == <<queueVars, lockVars, scan, outstanding>>

-----------------------------------------------------------------------------
(* Ports and their queues. *)

full(p) == Len(requests[p]) = QueueSize

emptyRequests(p) == requests[p] = << >> /\ waiting[p] = NoRequest

nAvailableRequestSlots(p) ==
  (QueueSize - Len(requests[p]))
    + (IF AllowBusWait /\ waiting[p] = NoRequest THEN 1 ELSE 0)

\* DCircularQueue::push_back() without its size check: one push too many makes
\* the tail meet the head, which reads as an empty queue.
push_back(q, r) == IF Len(q) = QueueSize THEN << >> ELSE Append(q, r)
back(q) == q[Len(q)]

\* erase_middle of one element: the later ones move down.
erase(q, k) == [i \in 1 .. Len(q) - 1 |-> IF i < k THEN q[i] ELSE q[i + 1]]

\* Mutant of addWaitingRequest: to the front of the queue.
addWaitingRequest_Front(qs, p) ==
  IF waiting[p] = NoRequest THEN qs
  ELSE [qs EXCEPT ![waiting[p].port] = <<waiting[p]>> \o @]

\* Memory::addWaitingRequest(port) on queues qs: the waiting request goes to
\* the queue of its own port.
addWaitingRequest(qs, p) ==
  IF waiting[p] = NoRequest THEN qs
  ELSE [qs EXCEPT ![waiting[p].port] = push_back(@, waiting[p])]

\* Memory::removeRequest(port)
removeRequest(p) ==
  addWaitingRequest([requests EXCEPT ![p] = Tail(@)], p)

Contents(p) == {requests[p][i] : i \in DOMAIN requests[p]}
                 \cup ({waiting[p]} \ {NoRequest})
Requests    == UNION {Contents(p) : p \in Ports}

readLatency(p)  == IF PortReadLatency[p] > 0 THEN PortReadLatency[p]
                   ELSE ReadLatency
writeLatency(p) == IF PortWriteLatency[p] > 0 THEN PortWriteLatency[p]
                   ELSE WriteLatency
latency(r)      == IF r.type = "Write" THEN writeLatency(r.port)
                   ELSE readLatency(r.port)

-----------------------------------------------------------------------------
(* Bandwidth. *)

hasBandwidth(bw, used)     == bw = 0 \/ used < bw
consumeBandwidth(bw, used) == IF bw # 0 /\ used < bw THEN used + 1 ELSE used

hasAddrBandwidth(p) == hasBandwidth(AddrBandwidth, addrUsed[p])
hasDataBandwidth(p) == IF p \in CommonBandwidth THEN hasAddrBandwidth(p)
                       ELSE hasBandwidth(DataBandwidth, dataUsed[p])

consumeAddrBandwidth(p) ==
  /\ addrUsed' = [addrUsed EXCEPT ![p] = consumeBandwidth(AddrBandwidth, @)]
  /\ UNCHANGED dataUsed

consumeDataBandwidth(p) ==
  IF p \in CommonBandwidth THEN consumeAddrBandwidth(p)
  ELSE /\ dataUsed' = [dataUsed EXCEPT ![p] = consumeBandwidth(DataBandwidth, @)]
       /\ UNCHANGED addrUsed

-----------------------------------------------------------------------------
(* Preemption: a load or store may take the place of the fetch that was on  *)
(* the bus when the cycle started, wherever that fetch is now; a cancelled  *)
(* one may be replaced by anything.                                         *)

WaitingWith(id) == {p \in Ports : waiting[p] # NoRequest /\ waiting[p].id = id}

Yields(r, type) == type \in {"Read", "Write"} \/ r.cancelled

preemptsWaiting(type, q) ==
  /\ preemptionId # NoId
  /\ q \in WaitingWith(preemptionId)
  /\ Yields(waiting[q], type)

preemptsBack(type, p) ==
  /\ preemptionId # NoId
  /\ WaitingWith(preemptionId) = {}
  /\ requests[p] # << >>
  /\ back(requests[p]).id = preemptionId
  /\ Yields(back(requests[p]), type)

\* backRequest() of an empty queue reads a slot that holds no request. Only a
\* port that is not the fetch's can then find the fetch's id there.
readsStaleBack(p) ==
  /\ preemptionId # NoId /\ NPorts > 1
  /\ WaitingWith(preemptionId) = {}
  /\ requests[p] = << >>

canPreempt(type, p) ==
  \/ \E q \in Ports : preemptsWaiting(type, q)
  \/ preemptsBack(type, p)

-----------------------------------------------------------------------------
(* Inquiries. *)

memLockInquire(c) == locked => c = locker

\* A serialized transaction waits until its port was idle at the cycle's start.
serializedInquire(serialized, p) == ~(serialized /\ active[p])

sendRequestInquire(c, type, serialized, p) ==
  /\ memLockInquire(c)
  /\ hasAddrBandwidth(p)
  /\ serializedInquire(serialized, p)
  /\ (queueWasFull \/ nAvailableRequestSlots(p) = 0)
       => (canPreempt(type, p) \/ readsStaleBack(p))

\* readInquire() and writeInquire() of the request at the front of port p.
requestInquire(c, p, id) ==
  /\ memLockInquire(c)
  /\ requests[p] # << >>
  /\ Head(requests[p]).id = id
  /\ Head(requests[p]).expired
  /\ hasDataBandwidth(Head(requests[p]).port)

\* Mutant of lockInquire: the queue need not be empty.
lockInquire_Busy(i) == memLockInquire(i)

lockInquire(i) == memLockInquire(i) /\ (locked \/ emptyRequests(0))

isActive(qs) == \E p \in Ports : qs[p] # << >>

\* Mutant of updateQueueStatus: only the full flag is refreshed.
updateQueueStatus_FullOnly ==
  /\ queueWasFull' = (nAvailableRequestSlots(0) = 0)'
  /\ UNCHANGED queueWasActive

\* updateQueueStatus(): the memory is called full when its port 0 is.
updateQueueStatus ==
  /\ queueWasFull' = (nAvailableRequestSlots(0) = 0)'
  /\ queueWasActive' = isActive(requests')

-----------------------------------------------------------------------------
(* Operations of the clients. *)

ClientsRun == scan = NPorts

\* What a client remembers of a request: its id and the port it used.
Ticket(r) == [id |-> r.id, client |-> r.client, port |-> r.port]

FetchTickets == {o \in outstanding : o.client = FetchUnit}

\* DefaultFetchUnit::preemptFetch(): the fetch unit takes its newest pending
\* request for the preempted one.
PreemptedTicket ==
  {o \in FetchTickets : \A u \in FetchTickets : u.id <= o.id}

NewRequest(c, type, p) ==
  [id |-> requestId, client |-> c, type |-> type, port |-> p, age |-> 0,
   expired |-> FALSE, cancelled |-> FALSE]

Accept(p, new) ==
  /\ ~full(p)
  /\ requests' = [requests EXCEPT ![p] = push_back(@, new)]
  /\ outstanding' = outstanding \cup {Ticket(new)}
  /\ UNCHANGED waiting

\* Mutant of Preempt: the client of the preempted request is not told.
Preempt_Silent(r, new) == outstanding' = outstanding \cup {Ticket(new)}

\* The client of preempted request r is told, unless it cancelled r itself.
Preempt(r, new) ==
  outstanding' = (IF r.cancelled THEN outstanding
                  ELSE outstanding \ PreemptedTicket) \cup {Ticket(new)}

PreemptWaiting(p, new) ==
  /\ full(p)
  /\ \E q \in Ports :
       /\ preemptsWaiting(new.type, q)
       /\ Preempt(waiting[q], new)
       /\ waiting' = [waiting EXCEPT ![q] = new]
  /\ UNCHANGED requests

PreemptBack(p, new) ==
  /\ full(p)
  /\ preemptsBack(new.type, p)
  /\ Preempt(back(requests[p]), new)
  /\ requests' = [requests EXCEPT ![p][Len(requests[p])] = new]
  /\ UNCHANGED waiting

WaitOnBus(p, new) ==
  /\ full(p)
  /\ ~canPreempt(new.type, p)
  /\ waiting' = [waiting EXCEPT ![p] = new]
  /\ outstanding' = outstanding \cup {Ticket(new)}
  /\ UNCHANGED requests

\* sendRequest(), called by sendFetchRequest(), sendReadRequest() and
\* sendWriteRequest() after sendRequestInquire().
sendRequest(c, type, serialized, p) ==
  LET new == NewRequest(c, type, p) IN
  /\ ClientsRun
  /\ requestId <= MaxRequestId
  /\ sendRequestInquire(c, type, serialized, p)
  /\ consumeAddrBandwidth(p)
  /\ requestId' = requestId + 1
  /\ Accept(p, new) \/ PreemptWaiting(p, new) \/ PreemptBack(p, new)
       \/ WaitOnBus(p, new)
  /\ updateQueueStatus
  /\ UNCHANGED <<active, preemptionId, lockVars, scan>>

sendFetchRequest == sendRequest(FetchUnit, "IFetch", FALSE, FetchPort)

sendReadRequest(i, serialized, p) == sendRequest(i, "Read", serialized, p)

sendWriteRequest(i, serialized, p) == sendRequest(i, "Write", serialized, p)

\* Memory::read() after readInquire(), by the client that owns the request.
read(o) ==
  /\ ClientsRun
  /\ requestInquire(o.client, o.port, o.id)
  /\ Head(requests[o.port]).type # "Write"
  /\ consumeDataBandwidth(o.port)
  /\ requests' = removeRequest(o.port)
  /\ waiting' = [waiting EXCEPT ![o.port] = NoRequest]
  /\ outstanding' = outstanding \ {o}
  /\ UNCHANGED <<active, requestId, queueWasFull, queueWasActive, preemptionId,
                 lockVars, scan>>

\* Memory::write() after writeInquire(): the bandwidth is the request's port's.
write(o) ==
  /\ ClientsRun
  /\ requestInquire(o.client, o.port, o.id)
  /\ Head(requests[o.port]).type = "Write"
  /\ consumeDataBandwidth(Head(requests[o.port]).port)
  /\ requests' = removeRequest(o.port)
  /\ waiting' = [waiting EXCEPT ![o.port] = NoRequest]
  /\ outstanding' = outstanding \ {o}
  /\ UNCHANGED <<active, requestId, queueWasFull, queueWasActive, preemptionId,
                 lockVars, scan>>

\* Mutant of cancel_internal: the waiting request is not let in.
cancel_internal_NoRefill(p, i, deep) ==
  /\ requests' = [requests EXCEPT ![p] = erase(@, i)]
  /\ UNCHANGED waiting

\* cancel_internal() on port p: a deep cancel removes the request, a shallow
\* one marks it.
cancel_internal(p, i, deep) ==
  IF deep
  THEN /\ requests' = addWaitingRequest(
                        [requests EXCEPT ![p] = erase(@, i)], p)
       /\ waiting' = [waiting EXCEPT ![p] = NoRequest]
  ELSE /\ requests' = [requests EXCEPT ![p][i].cancelled = TRUE]
       /\ UNCHANGED waiting

check_waiting_for_cancel(id, deep) ==
  /\ waiting' = [p \in Ports |->
                   IF p \notin WaitingWith(id) THEN waiting[p]
                   ELSE IF deep THEN NoRequest
                   ELSE [waiting[p] EXCEPT !.cancelled = TRUE]]
  /\ UNCHANGED requests

\* cancel(portId, id, deep) and, for all the ports, cancel(id, deep).
cancel(o, deep, ps) ==
  /\ ClientsRun
  /\ \/ \E p \in ps : \E i \in DOMAIN requests[p] :
          requests[p][i].id = o.id /\ cancel_internal(p, i, deep)
     \/ /\ \A p \in ps : \A i \in DOMAIN requests[p] : requests[p][i].id # o.id
        /\ check_waiting_for_cancel(o.id, deep)
  /\ outstanding' = outstanding \ {o}
  /\ UNCHANGED <<active, addrUsed, dataUsed, requestId, queueWasFull,
                 queueWasActive, preemptionId, lockVars, scan>>

-----------------------------------------------------------------------------
(* The lock. *)

lockAction(i, kind) ==
  /\ locked' = TRUE /\ locker' = i
  /\ hold' = IF locked THEN hold ELSE kind
  /\ UNCHANGED <<unlockDelay, queueVars, scan, outstanding>>

allocate_lock(i) ==
  ClientsRun /\ lockInquire(i) /\ lockAction(i, "exclusive")

allocate_force_lock(i) ==
  ClientsRun /\ memLockInquire(i) /\ lockAction(i, "forced")

\* unlockAction(): the delay of an earlier delayed unlock is left as it is.
unlockAction ==
  /\ locked' = FALSE /\ hold' = "free"
  /\ UNCHANGED <<locker, unlockDelay>>

deallocate_lock(i) ==
  /\ ClientsRun /\ memLockInquire(i)
  /\ unlockAction
  /\ UNCHANGED <<queueVars, scan, outstanding>>

\* unlockAction(delay), after unlockInquire().
deallocate_lock_delayed(i, delay) ==
  /\ ClientsRun /\ memLockInquire(i)
  /\ IF delay # 0 /\ locked
     THEN /\ unlockDelay' = delay
          /\ UNCHANGED <<locked, locker, hold>>
     ELSE unlockAction
  /\ UNCHANGED <<queueVars, scan, outstanding>>

\* Mutant of checkDelayedUnlock: the delay is counted down when there is none.
checkDelayedUnlock_Unset ==
  IF locked
  THEN IF unlockDelay = 0
       THEN /\ locked' = FALSE /\ unlockDelay' = NoDelay /\ hold' = "free"
            /\ UNCHANGED locker
       ELSE unlockDelay' = unlockDelay - 1 /\ UNCHANGED <<locked, locker, hold>>
  ELSE UNCHANGED lockVars

\* checkDelayedUnlock()
checkDelayedUnlock ==
  IF locked /\ unlockDelay >= 0
  THEN IF unlockDelay - 1 <= 0
       THEN /\ locked' = FALSE /\ unlockDelay' = NoDelay /\ hold' = "free"
            /\ UNCHANGED locker
       ELSE unlockDelay' = unlockDelay - 1 /\ UNCHANGED <<locked, locker, hold>>
  ELSE UNCHANGED lockVars

-----------------------------------------------------------------------------
(* The clock: incrTime() at the end of the cycle and then preCycle(), which  *)
(* saves the queue's status and goes through the ports one after another.    *)

grow(r) == IF r.age < latency(r) THEN [r EXCEPT !.age = @ + 1] ELSE r

\* saveQueueStatus(): the first port with a waiting fetch names the fetch that
\* may be preempted in this cycle.
savePreemptionId ==
  LET fetching == {p \in Ports : waiting[p] # NoRequest
                                   /\ waiting[p].type = "IFetch"}
  IN  IF ~Preemptive THEN UNCHANGED preemptionId
      ELSE \/ fetching = {} /\ preemptionId' = NoId
           \/ \E p \in fetching : /\ \A q \in fetching : p <= q
                                  /\ preemptionId' = waiting[p].id

StartCycle ==
  /\ ClientsRun
  /\ scan' = 0
  /\ requests' = [p \in Ports |->
                    [i \in DOMAIN requests[p] |-> grow(requests[p][i])]]
  /\ waiting' = [p \in Ports |->
                   IF waiting[p] = NoRequest THEN NoRequest ELSE grow(waiting[p])]
  /\ addrUsed' = [p \in Ports |-> 0]
  /\ dataUsed' = [p \in Ports |-> 0]
  /\ queueWasFull' = (nAvailableRequestSlots(0) = 0)
  /\ queueWasActive' = isActive(requests)
  /\ active' = [p \in Ports |-> ~emptyRequests(p)]
  /\ savePreemptionId
  /\ checkDelayedUnlock
  /\ UNCHANGED <<requestId, outstanding>>

expire(r) == [r EXCEPT !.expired = @ \/ r.age >= latency(r)]

Expired(q) == [i \in DOMAIN q |-> expire(q[i])]

\* Mutant of DeadPrefix: a cancelled request stays at the front.
DeadPrefix_Kept(q, n) == n = 0

\* The requests preCycle() removes from the front of q: the expired and
\* cancelled ones, up to the first that is not both. A request that moves in
\* from the bus has not expired yet, so the loop never removes it.
DeadPrefix(q, n) ==
  /\ \A i \in 1 .. n : q[i].expired /\ q[i].cancelled
  /\ n < Len(q) => ~(q[n + 1].expired /\ q[n + 1].cancelled)

\* One turn of preCycle()'s loop over the ports.
ScanPort(p) ==
  /\ scan = p
  /\ scan' = p + 1
  /\ \E n \in 0 .. Len(requests[p]) :
       LET q    == Expired(requests[p])
           rest == [requests EXCEPT ![p] = SubSeq(q, n + 1, Len(q))]
       IN  /\ DeadPrefix(q, n)
           /\ requests' = IF n = 0 THEN rest ELSE addWaitingRequest(rest, p)
           /\ waiting' = IF n = 0 THEN waiting
                         ELSE [waiting EXCEPT ![p] = NoRequest]
  /\ UNCHANGED <<active, addrUsed, dataUsed, requestId, queueWasFull,
                 queueWasActive, preemptionId, lockVars, outstanding>>

\* Memory::reset(), with the fetch unit and the instructions reset as well.
reset ==
  /\ ClientsRun
  /\ requests' = [p \in Ports |-> << >>]
  /\ waiting' = [p \in Ports |-> NoRequest]
  /\ outstanding' = {}
  /\ UNCHANGED <<active, addrUsed, dataUsed, requestId, queueWasFull,
                 queueWasActive, preemptionId, lockVars, scan>>

-----------------------------------------------------------------------------
Init ==
  /\ requests = [p \in Ports |-> << >>]
  /\ waiting = [p \in Ports |-> NoRequest]
  /\ active = [p \in Ports |-> FALSE]
  /\ addrUsed = [p \in Ports |-> 0] /\ dataUsed = [p \in Ports |-> 0]
  /\ requestId = 1
  /\ queueWasFull = FALSE /\ queueWasActive = FALSE
  /\ preemptionId = NoId
  /\ locked = FALSE /\ locker = FetchUnit /\ unlockDelay = NoDelay
  /\ scan = NPorts
  /\ outstanding = {}
  /\ hold = "free"

Load(i) == \E p \in Ports, s \in BOOLEAN : sendReadRequest(i, s, p)

Store(i) == \E p \in Ports, s \in BOOLEAN : sendWriteRequest(i, s, p)

Complete(c) == \E o \in outstanding : o.client = c /\ (read(o) \/ write(o))

Cancel == \E o \in outstanding, deep \in BOOLEAN :
            \E ps \in {{o.port}, Ports} : cancel(o, deep, ps)

Lock(i) == allocate_lock(i) \/ allocate_force_lock(i)

Unlock(i) == \/ deallocate_lock(i)
             \/ \E d \in 0 .. MaxUnlockDelay : deallocate_lock_delayed(i, d)

PreCycle == StartCycle \/ \E p \in Ports : ScanPort(p)

Next ==
  \/ sendFetchRequest
  \/ \E i \in Instrs : Load(i) \/ Store(i)
  \/ \E c \in Clients : Complete(c)
  \/ Cancel
  \/ \E i \in Lockers : Lock(i) \/ Unlock(i)
  \/ PreCycle
  \/ reset

Spec == Init /\ [][Next]_vars

\* Every cycle ends and the next one starts (cycle() is called in a loop). A
\* client tries its transaction again in every cycle until it succeeds, so one
\* that is possible in infinitely many cycles is done: strong fairness, since
\* preCycle() runs between two tries. An instruction gives its lock up.
Fairness ==
  /\ WF_vars(PreCycle)
  /\ \A c \in Clients : SF_vars(Complete(c))
  /\ \A i \in Lockers : SF_vars(locked /\ locker = i /\ deallocate_lock(i))

FairSpec == Spec /\ Fairness

-----------------------------------------------------------------------------
(* Properties. *)

TicketSet == [id : Nat, client : Clients, port : Ports]

\* Type invariant of the memory's state.
TypeOK ==
  /\ requests \in [Ports -> Seq(Request)]
  /\ \A p \in Ports : Len(requests[p]) <= QueueSize
  /\ waiting \in [Ports -> Request \cup {NoRequest}]
  /\ active \in [Ports -> BOOLEAN]
  /\ addrUsed \in [Ports -> Nat] /\ dataUsed \in [Ports -> Nat]
  /\ requestId \in Nat \ {0}
  /\ queueWasFull \in BOOLEAN /\ queueWasActive \in BOOLEAN
  /\ preemptionId \in Nat
  /\ locked \in BOOLEAN /\ locker \in Clients
  /\ unlockDelay \in {NoDelay} \cup 0 .. MaxUnlockDelay
  /\ scan \in 0 .. NPorts
  /\ outstanding \subseteq TicketSet
  /\ hold \in {"free", "exclusive", "forced"}

\* "Assume requests are processed in first-come first-serve order"
\* (UadlMemory.h:343): a port serves from the front, so its queue is in the
\* order the requests were sent in and the waiting request is the newest.
FirstComeFirstServed ==
  \A p \in Ports :
    /\ \A i, j \in DOMAIN requests[p] :
         i < j => requests[p][i].id < requests[p][j].id
    /\ waiting[p] # NoRequest =>
         \A i \in DOMAIN requests[p] : requests[p][i].id < waiting[p].id

\* A request waits on the bus only behind a full queue, so the one slot that a
\* removal frees is always the waiting request's (removeRequest(), cancel()).
WaitingOnlyWhenFull ==
  \A p \in Ports : waiting[p] # NoRequest => full(p)

\* The memory and its clients agree: the requests a client waits for are
\* exactly the ones it sent that are in the memory and not cancelled. None is
\* lost by an overrun queue, overwritten on the bus, or dropped by a
\* preemption that the fetch unit attributes to another fetch.
ClientsAgree ==
  outstanding = {Ticket(r) : r \in {x \in Requests : ~x.cancelled}}

\* While an instruction holds a lock it got through can_lock(), every request
\* in the memory is its own: the queue was empty and others are rejected.
LockExcludesOthers ==
  hold = "exclusive" => \A r \in Requests : r.client = locker

\* is_inactive() means no activity in this cycle: no request is present
\* anywhere in a memory that calls itself inactive.
InactiveIsQuiet ==
  ~queueWasActive => \A p \in Ports : emptyRequests(p)

\* Every request a client waits for is answered, cancelled or preempted in the
\* end: no order of cancels, preemptions and latencies blocks a port for ever.
RequestsEnd ==
  \A n \in 1 .. MaxRequestId :
    (\E o \in outstanding : o.id = n) ~> (\A o \in outstanding : o.id # n)

=============================================================================
