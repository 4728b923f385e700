--------------------------- MODULE UadlMemoryProofs ---------------------------
(***************************************************************************)
(* Proofs about UadlMemory, for every value of its constants: the state    *)
(* keeps its types, and requests stay in the order they were sent in. The  *)
(* second holds for a memory with one port or without preemption (Tidy).   *)
(***************************************************************************)
EXTENDS UadlMemoryQueues

\* The memories whose requests always wait at the port they were sent to.
Tidy == NPorts = 1 \/ ~Preemptive

\* Where the fetch that may be preempted is: on the bus, or at the end of a
\* full queue with nothing behind it, and then no other fetch is accepted.
PreemptInv ==
  /\ ~Preemptive => preemptionId = NoId
  /\ preemptionId \in Nat /\ preemptionId < requestId
  /\ preemptionId # NoId =>
       \A p \in Ports :
         /\ (waiting[p] # NoRequest /\ waiting[p].id = preemptionId)
              => queueWasFull
         /\ (full(p) /\ requests[p][QueueSize].id = preemptionId)
              => queueWasFull /\ waiting[p] = NoRequest

\* The rest of the state, which no queue operation depends on.
FrameInv ==
  /\ active \in [Ports -> BOOLEAN]
  /\ addrUsed \in [Ports -> Nat] /\ dataUsed \in [Ports -> Nat]
  /\ queueWasFull \in BOOLEAN /\ queueWasActive \in BOOLEAN
  /\ locked \in BOOLEAN /\ locker \in Clients
  /\ unlockDelay \in {NoDelay} \cup 0 .. MaxUnlockDelay
  /\ scan \in 0 .. NPorts
  /\ outstanding \subseteq TicketSet
  /\ hold \in {"free", "exclusive", "forced"}

QueueInv ==
  /\ requests = [p \in Ports |-> requests[p]]
  /\ waiting = [p \in Ports |-> waiting[p]]
  /\ requestId \in Nat \ {0}
  /\ \A p \in Ports : PortInv(p, requests[p], waiting[p], requestId)

MemoryInv == QueueInv /\ PreemptInv /\ FrameInv

\* The request that waits at a port belongs to that port.
LEMMA AddWaitingHere ==
  ASSUME QueueInv, NEW p \in Ports, NEW s
  PROVE  addWaitingRequest([requests EXCEPT ![p] = s], p)
           = [requests EXCEPT ![p] = AddTo(s, waiting[p])]
<1>1. requests = [x \in Ports |-> requests[x]]
  BY Zenon DEF QueueInv
<1>2. waiting[p] # NoRequest => waiting[p].port = p
  BY Zenon DEF QueueInv, PortInv
<1>3. CASE waiting[p] = NoRequest
  BY <1>3 DEF addWaitingRequest, AddTo
<1>4. CASE waiting[p] # NoRequest
  BY <1>1, <1>2, <1>4, Zenon DEF addWaitingRequest, AddTo
<1> QED
  BY <1>3, <1>4

\* A step that changes the queue and the bus of one port.
LEMMA OnePort ==
  ASSUME QueueInv, NEW p \in Ports, NEW x, NEW y,
         requests' = [requests EXCEPT ![p] = x],
         waiting' = [waiting EXCEPT ![p] = y],
         requestId' = requestId \/ requestId' = requestId + 1,
         PortInv(p, x, y, requestId')
  PROVE  QueueInv'
<1>1. /\ requests = [z \in Ports |-> requests[z]]
      /\ waiting = [z \in Ports |-> waiting[z]] /\ requestId \in Nat \ {0}
      /\ \A z \in Ports : PortInv(z, requests[z], waiting[z], requestId)
  BY Zenon DEF QueueInv
<1>2. /\ requests' = [z \in Ports |-> requests'[z]]
      /\ waiting' = [z \in Ports |-> waiting'[z]]
  BY <1>1, Zenon
<1>3. requestId' \in Nat \ {0}
  BY <1>1
<1>4. ASSUME NEW z \in Ports
      PROVE  PortInv(z, requests'[z], waiting'[z], requestId')
  <2>1. CASE z = p
    BY <1>1, <2>1
  <2>2. CASE z # p
    <3>1. requests'[z] = requests[z] /\ waiting'[z] = waiting[z]
      BY <1>1, <2>2, Zenon
    <3>2. PortInv(z, requests[z], waiting[z], requestId')
      BY <1>1, LaterId
    <3> QED
      BY <3>1, <3>2
  <2> QED
    BY <2>1, <2>2
<1> QED
  BY <1>2, <1>3, <1>4 DEF QueueInv

-----------------------------------------------------------------------------
(* Sending a request. *)

LEMMA NewRequestType ==
  ASSUME requestId \in Nat, NEW c \in Clients, NEW type \in Types, NEW p \in Ports
  PROVE  /\ NewRequest(c, type, p) \in Request
         /\ NewRequest(c, type, p).id = requestId
         /\ NewRequest(c, type, p).port = p
         /\ Ticket(NewRequest(c, type, p)) \in TicketSet
  BY Zenon DEF NewRequest, Request, Ticket, TicketSet

LEMMA OnlyPort ==
  ASSUME Tidy, PreemptInv, preemptionId # NoId
  PROVE  NPorts = 1 /\ \A p, q \in Ports : p = q
<1>1. NPorts = 1
  BY Zenon DEF Tidy, PreemptInv
<1> QED
  BY <1>1 DEF Ports

\* No request is preemptible any more: the state of PreemptInv after a send.
LEMMA NothingToPreempt ==
  ASSUME PreemptInv, requestId \in Nat, requestId' = requestId + 1,
         preemptionId' = preemptionId,
         preemptionId # NoId =>
           \A p \in Ports :
             /\ waiting'[p] # NoRequest => waiting'[p].id # preemptionId
             /\ Len(requests'[p]) = QueueSize
                  => requests'[p][QueueSize].id # preemptionId
  PROVE  PreemptInv'
<1>1. preemptionId' \in Nat /\ preemptionId' < requestId'
  BY DEF PreemptInv
<1>2. ~Preemptive => preemptionId' = NoId
  BY Zenon DEF PreemptInv
<1> QED
  BY <1>1, <1>2, Zenon DEF PreemptInv, full

LEMMA SendStep ==
  ASSUME Tidy, MemoryInv, NEW c \in Clients, NEW type \in Types, NEW serialized,
         NEW p \in Ports, sendRequest(c, type, serialized, p)
  PROVE  QueueInv' /\ PreemptInv' /\ outstanding' \subseteq TicketSet
<1> DEFINE new == NewRequest(c, type, p)
           n   == requestId
           q   == requests[p]
<1>1. /\ requestId \in Nat \ {0} /\ PortInv(p, q, waiting[p], n)
      /\ requests = [z \in Ports |-> requests[z]]
      /\ waiting = [z \in Ports |-> waiting[z]]
      /\ PreemptInv /\ outstanding \subseteq TicketSet
  BY Zenon DEF MemoryInv, QueueInv, FrameInv
<1>2. /\ new \in Request /\ new.id = n /\ new.port = p /\ Ticket(new) \in TicketSet
      /\ new # NoRequest
  BY <1>1, NewRequestType, NoRequestAssumption
<1>3. /\ requestId' = n + 1 /\ preemptionId' = preemptionId
      /\ sendRequestInquire(c, type, serialized, p)
      /\ \/ Accept(p, new) \/ PreemptWaiting(p, new)
         \/ PreemptBack(p, new) \/ WaitOnBus(p, new)
  BY Zenon DEF sendRequest
<1>4. new.type = type
  BY Zenon DEF NewRequest
<1>5. preemptionId \in Nat /\ preemptionId < n
  BY <1>1 DEF PreemptInv
<1>6. q \in Seq(Request) /\ Len(q) \in Nat /\ Len(q) <= QueueSize
  BY <1>1, PortInvParts
<1> HIDE DEF new
<1>7. QueueInv
  BY Zenon DEF MemoryInv
<1>8. preemptionId # NoId => NPorts = 1 /\ \A z \in Ports : z = p
  BY <1>1, OnlyPort
<1>9. /\ Len(q) # QueueSize => PortInv(p, push_back(q, new), waiting[p], n + 1)
      /\ Len(q) = QueueSize => PortInv(p, q, new, n + 1)
      /\ (Len(q) = QueueSize /\ waiting[p] = NoRequest)
           => PortInv(p, [q EXCEPT ![Len(q)] = new], waiting[p], n + 1)
  BY <1>1, <1>2, NewKeeps
<1> HIDE DEF q, n
<1>10. CASE Accept(p, new)
  <2>1. /\ Len(q) # QueueSize
        /\ requests' = [requests EXCEPT ![p] = push_back(q, new)]
        /\ waiting' = waiting /\ outstanding' = outstanding \cup {Ticket(new)}
    BY <1>1, <1>10 DEF Accept, full, q
  <2>2. waiting' = [waiting EXCEPT ![p] = waiting[p]]
    BY <1>1, <2>1
  <2>3. QueueInv'
    BY <1>3, <1>7, <1>9, <2>1, <2>2, OnePort, Zenon DEF n
  <2>4. waiting'[p] = NoRequest
    BY <1>1, <2>1 DEF PortInv
  <2>5. requests'[p] = Append(q, new)
    BY <1>1, <2>1 DEF push_back
  <2>6. Len(requests'[p]) = QueueSize => requests'[p][QueueSize].id # preemptionId
    BY <1>2, <1>5, <1>6, <2>5, AppendElements
  <2>7. PreemptInv'
    BY <1>1, <1>3, <1>8, <2>4, <2>6, NothingToPreempt DEF n
  <2> QED
    BY <1>1, <1>2, <2>1, <2>3, <2>7
<1>11. CASE PreemptWaiting(p, new)
  <2>1. PICK z \in Ports : /\ preemptsWaiting(type, z)
                           /\ Preempt(waiting[z], new)
                           /\ waiting' = [waiting EXCEPT ![z] = new]
    BY <1>4, <1>11, Zenon DEF PreemptWaiting
  <2>2. preemptionId # NoId /\ z = p /\ waiting[p] # NoRequest
        /\ waiting[p].id = preemptionId
    BY <1>8, <2>1 DEF preemptsWaiting, WaitingWith
  <2>3. Len(q) = QueueSize /\ requests' = requests
    BY <1>11 DEF PreemptWaiting, full, q
  <2>4. requests' = [requests EXCEPT ![p] = q]
    BY <1>1, <2>3 DEF q
  <2>5. QueueInv'
    BY <1>3, <1>7, <1>9, <2>1, <2>2, <2>3, <2>4, OnePort, Zenon DEF n
  <2>6. waiting'[p] = new /\ new.id # preemptionId
    BY <1>1, <1>2, <1>5, <2>1, <2>2
  <2>7. requests'[p] = q
    BY <2>3, Zenon DEF q
  <2>8. q[QueueSize].id # preemptionId
    <3>1. QueueSize \in 1 .. Len(q)
      BY <2>3, QueueSizeType
    <3>2. q[QueueSize].id < waiting[p].id
      BY <1>1, <2>2, <3>1, Zenon DEF PortInv
    <3>3. q[QueueSize] \in Request /\ \A r \in Request : r.id \in Nat
      BY <1>1, <3>1, PortInvParts, Zenon DEF Request
    <3> QED
      BY <1>5, <2>2, <3>2, <3>3
  <2>9. PreemptInv'
    BY <1>1, <1>3, <1>8, <2>6, <2>7, <2>8, NothingToPreempt DEF n
  <2>10. outstanding' \subseteq outstanding \cup {Ticket(new)}
    BY <2>1 DEF Preempt
  <2> QED
    BY <1>1, <1>2, <2>5, <2>9, <2>10
<1>12. CASE PreemptBack(p, new)
  <2>1. /\ Len(q) = QueueSize /\ preemptsBack(type, p) /\ Preempt(back(q), new)
        /\ requests' = [requests EXCEPT ![p] = [q EXCEPT ![Len(q)] = new]]
        /\ waiting' = waiting
    BY <1>1, <1>4, <1>12, Zenon DEF PreemptBack, full, q
  <2>2. preemptionId # NoId /\ q[QueueSize].id = preemptionId
    BY <2>1 DEF preemptsBack, back, q
  <2>3. waiting[p] = NoRequest
    BY <1>1, <2>1, <2>2 DEF PreemptInv, full, q
  <2>4. waiting' = [waiting EXCEPT ![p] = waiting[p]]
    BY <1>1, <2>1
  <2>5. QueueInv'
    BY <1>3, <1>7, <1>9, <2>1, <2>3, <2>4, OnePort, Zenon DEF n
  <2>6. requests'[p] = [q EXCEPT ![Len(q)] = new] /\ waiting'[p] = NoRequest
    BY <1>1, <2>1, <2>3
  <2>7. requests'[p][QueueSize] = new /\ new.id # preemptionId
    <3>1. QueueSize \in DOMAIN q
      BY <1>6, <2>1, QueueSizeType
    <3>2. [q EXCEPT ![QueueSize] = new][QueueSize] = new
      BY <3>1
    <3>3. requests'[p] = [q EXCEPT ![QueueSize] = new]
      BY <2>1, <2>6, Zenon
    <3>4. new.id # preemptionId
      BY <1>2, <1>5
    <3> QED
      BY <3>2, <3>3, <3>4, Zenon
  <2>8. PreemptInv'
    BY <1>1, <1>3, <1>8, <2>6, <2>7, NothingToPreempt, Zenon DEF n
  <2>9. outstanding' \subseteq outstanding \cup {Ticket(new)}
    BY <2>1 DEF Preempt
  <2> QED
    BY <1>1, <1>2, <2>5, <2>8, <2>9
<1>13. CASE WaitOnBus(p, new)
  <2>1. /\ Len(q) = QueueSize /\ ~canPreempt(type, p) /\ requests' = requests
        /\ waiting' = [waiting EXCEPT ![p] = new]
        /\ outstanding' = outstanding \cup {Ticket(new)}
    BY <1>4, <1>13 DEF WaitOnBus, full, q
  <2>2. requests' = [requests EXCEPT ![p] = q]
    BY <1>1, <2>1, Zenon DEF q
  <2>3. QueueInv'
    BY <1>3, <1>7, <1>9, <2>1, <2>2, OnePort, Zenon DEF n
  <2>4. waiting'[p] = new /\ new.id # preemptionId /\ requests'[p] = q
    BY <1>1, <1>2, <1>5, <2>1 DEF q
  <2>5. ASSUME preemptionId # NoId, q[QueueSize].id = preemptionId
        PROVE  FALSE
    <3>1. queueWasFull
      BY <1>1, <2>1, <2>5 DEF PreemptInv, full, q
    <3>2. readsStaleBack(p)
      BY <1>3, <2>1, <3>1 DEF sendRequestInquire
    <3>3. NPorts > 1
      BY <3>2 DEF readsStaleBack
    <3> QED
      BY <1>8, <2>5, <3>3
  <2>6. PreemptInv'
    BY <1>1, <1>3, <1>8, <2>4, <2>5, NothingToPreempt DEF n
  <2> QED
    BY <1>1, <1>2, <2>1, <2>3, <2>6
<1> QED
  BY <1>3, <1>10, <1>11, <1>12, <1>13, Zenon

-----------------------------------------------------------------------------
(* The other steps of the clients and the clock. *)

\* Steps that remove requests, or change none of their ids, and leave the status
\* of the queue as it was at the start of the cycle.
LEMMA PreemptKept ==
  ASSUME Tidy, QueueInv, PreemptInv, NEW p \in Ports,
         UNCHANGED <<requestId, queueWasFull, preemptionId>>,
         \A z \in Ports : z # p => requests'[z] = requests[z] /\ waiting'[z] = waiting[z],
         waiting'[p] # NoRequest => /\ waiting[p] # NoRequest
                                    /\ waiting'[p].id = waiting[p].id,
         Len(requests'[p]) = QueueSize =>
           \/ /\ Len(requests[p]) = QueueSize
              /\ requests'[p][QueueSize].id = requests[p][QueueSize].id
           \/ /\ waiting[p] # NoRequest /\ waiting'[p] = NoRequest
              /\ requests'[p][QueueSize].id = waiting[p].id
  PROVE  PreemptInv'
<1>1. ASSUME preemptionId' # NoId, NEW z \in Ports
      PROVE  /\ (waiting'[z] # NoRequest /\ waiting'[z].id = preemptionId')
                  => queueWasFull'
             /\ (Len(requests'[z]) = QueueSize
                   /\ requests'[z][QueueSize].id = preemptionId')
                  => queueWasFull' /\ waiting'[z] = NoRequest
  <2>1. z = p
    BY <1>1, OnlyPort
  <2>2. /\ (waiting[p] # NoRequest /\ waiting[p].id = preemptionId) => queueWasFull
        /\ (Len(requests[p]) = QueueSize
              /\ requests[p][QueueSize].id = preemptionId)
             => queueWasFull /\ waiting[p] = NoRequest
    BY <1>1 DEF PreemptInv, full
  <2> QED
    BY <1>1, <2>1, <2>2
<1> QED
  BY <1>1 DEF PreemptInv, full

\* The last request of the queue after a removal and the entry of the waiting
\* request, if the queue is full then.
LEMMA LastAfterRemoval ==
  ASSUME NEW p, NEW q, NEW w, NEW n, PortInv(p, q, w, n),
         NEW s \in Seq(Request), Len(s) < Len(q),
         Len(AddTo(s, w)) = QueueSize
  PROVE  w # NoRequest /\ AddTo(s, w)[QueueSize] = w
<1>1. Len(s) \in Nat /\ Len(q) \in Nat /\ Len(q) <= QueueSize /\ Len(s) < QueueSize
  BY PortInvParts, QueueSizeType
<1>2. w # NoRequest
  BY <1>1 DEF AddTo
<1>3. AddTo(s, w) = Append(s, w)
  BY <1>1, <1>2 DEF AddTo, push_back
<1>4. w \in Request
  BY <1>2 DEF PortInv
<1> QED
  BY <1>2, <1>3, <1>4, AppendElements

\* Removal of requests of port p, leaving s, with the waiting request let in.
LEMMA RemovalStep ==
  ASSUME Tidy, QueueInv, PreemptInv, NEW p \in Ports,
         UNCHANGED <<requestId, queueWasFull, preemptionId>>,
         NEW s \in Seq(Request), Len(s) < Len(requests[p]),
         requests' = [requests EXCEPT ![p] = AddTo(s, waiting[p])],
         waiting' = [waiting EXCEPT ![p] = NoRequest],
         PortInv(p, AddTo(s, waiting[p]), NoRequest, requestId)
  PROVE  QueueInv' /\ PreemptInv'
<1>1. /\ requests = [z \in Ports |-> requests[z]]
      /\ waiting = [z \in Ports |-> waiting[z]]
      /\ PortInv(p, requests[p], waiting[p], requestId)
  BY Zenon DEF QueueInv
<1>2. QueueInv'
  BY OnePort, Zenon
<1>3. \A z \in Ports : z # p => requests'[z] = requests[z] /\ waiting'[z] = waiting[z]
  BY <1>1, Zenon
<1>4. requests'[p] = AddTo(s, waiting[p]) /\ waiting'[p] = NoRequest
  BY <1>1, Zenon
<1>5. ASSUME Len(requests'[p]) = QueueSize
      PROVE  /\ waiting[p] # NoRequest /\ waiting'[p] = NoRequest
             /\ requests'[p][QueueSize].id = waiting[p].id
  BY <1>1, <1>4, <1>5, LastAfterRemoval
<1>6. PreemptInv'
  BY <1>3, <1>4, <1>5, PreemptKept, Zenon
<1> QED
  BY <1>2, <1>6

\* A step that changes neither ids nor ports of the requests of port p.
LEMMA UpdateStep ==
  ASSUME Tidy, QueueInv, PreemptInv, NEW p \in Ports,
         UNCHANGED <<requestId, queueWasFull, preemptionId>>,
         NEW s \in Seq(Request), Len(s) = Len(requests[p]),
         \A i \in 1 .. Len(s) : /\ s[i].id = requests[p][i].id
                                /\ s[i].port = requests[p][i].port,
         NEW v, v # NoRequest => /\ v \in Request /\ waiting[p] # NoRequest
                                 /\ v.id = waiting[p].id /\ v.port = waiting[p].port,
         requests' = [requests EXCEPT ![p] = s],
         waiting' = [waiting EXCEPT ![p] = v]
  PROVE  QueueInv' /\ PreemptInv'
<1>1. /\ requests = [z \in Ports |-> requests[z]]
      /\ waiting = [z \in Ports |-> waiting[z]]
      /\ PortInv(p, requests[p], waiting[p], requestId)
  BY Zenon DEF QueueInv
<1>2. PortInv(p, s, v, requestId)
  BY <1>1, MapKeeps, Zenon
<1>3. QueueInv'
  BY <1>2, OnePort, Zenon
<1>4. \A z \in Ports : z # p => requests'[z] = requests[z] /\ waiting'[z] = waiting[z]
  BY <1>1, Zenon
<1>5. requests'[p] = s /\ waiting'[p] = v
  BY <1>1, Zenon
<1>6. ASSUME Len(requests'[p]) = QueueSize
      PROVE  /\ Len(requests[p]) = QueueSize
             /\ requests'[p][QueueSize].id = requests[p][QueueSize].id
  <2>1. QueueSize \in 1 .. Len(s)
    BY <1>5, <1>6, QueueSizeType
  <2> QED
    BY <1>5, <1>6, <2>1
<1>7. PreemptInv'
  BY <1>4, <1>5, <1>6, PreemptKept
<1> QED
  BY <1>3, <1>7, Zenon

LEMMA BandwidthStep ==
  ASSUME FrameInv, NEW p \in Ports,
         consumeAddrBandwidth(p) \/ consumeDataBandwidth(p)
  PROVE  addrUsed' \in [Ports -> Nat] /\ dataUsed' \in [Ports -> Nat]
<1>1. addrUsed \in [Ports -> Nat] /\ dataUsed \in [Ports -> Nat]
  BY DEF FrameInv
<1>2. \A bw, u : u \in Nat => consumeBandwidth(bw, u) \in Nat
  BY DEF consumeBandwidth
<1>3. ASSUME consumeAddrBandwidth(p)
      PROVE  addrUsed' \in [Ports -> Nat] /\ dataUsed' \in [Ports -> Nat]
  BY <1>1, <1>2, <1>3 DEF consumeAddrBandwidth
<1>4. ASSUME consumeDataBandwidth(p)
      PROVE  addrUsed' \in [Ports -> Nat] /\ dataUsed' \in [Ports -> Nat]
  BY <1>1, <1>2, <1>3, <1>4 DEF consumeDataBandwidth
<1> QED
  BY <1>3, <1>4

LEMMA TailKeeps ==
  ASSUME NEW p, NEW q, NEW w, NEW n, PortInv(p, q, w, n), q # << >>
  PROVE  /\ Tail(q) \in Seq(Request) /\ Len(Tail(q)) < Len(q)
         /\ PortInv(p, AddTo(Tail(q), w), NoRequest, n)
<1> DEFINE s == Tail(q)
           f == [i \in 1 .. Len(s) |-> i + 1]
<1>1. q \in Seq(Request) /\ Len(q) \in Nat
  BY PortInvParts
<1>2. s \in Seq(Request) /\ Len(s) = Len(q) - 1 /\ Len(s) \in Nat
        /\ \A i \in 1 .. Len(s) : s[i] = q[i + 1]
  BY <1>1
<1>3. s \in Seq(Request) /\ Len(s) < Len(q)
  BY <1>1, <1>2
<1> SUFFICES PortInv(p, AddTo(s, w), NoRequest, n)
  BY <1>3
<1> HIDE DEF s
<1>4. f \in [1 .. Len(s) -> 1 .. Len(q)]
  BY <1>1, <1>2
<1>5. \A i, j \in 1 .. Len(s) : i < j => f[i] < f[j]
  BY <1>1, <1>2
<1>6. \A i \in 1 .. Len(s) : s[i] = q[f[i]]
  BY <1>2
<1> HIDE DEF f
<1> QED
  BY <1>3, <1>4, <1>5, <1>6, RemovalKeeps, Zenon

LEMMA CompleteStep ==
  ASSUME Tidy, MemoryInv, NEW o \in outstanding, read(o) \/ write(o)
  PROVE  MemoryInv'
<1>1. QueueInv /\ PreemptInv /\ FrameInv
  BY Zenon DEF MemoryInv
<1>2. o \in TicketSet /\ o.port \in Ports
  BY <1>1, Zenon DEF FrameInv, TicketSet
<1> DEFINE p == o.port
<1>3. /\ requests[p] # << >>
      /\ requests' = removeRequest(p)
      /\ waiting' = [waiting EXCEPT ![p] = NoRequest]
      /\ outstanding' = outstanding \ {o}
      /\ UNCHANGED <<active, requestId, queueWasFull, queueWasActive, preemptionId,
                     lockVars, scan>>
      /\ consumeDataBandwidth(p) \/ consumeDataBandwidth(Head(requests[p]).port)
  BY Zenon DEF read, write, requestInquire
<1>4. PortInv(p, requests[p], waiting[p], requestId)
      /\ requests = [z \in Ports |-> requests[z]]
  BY <1>1, <1>2 DEF QueueInv
<1>5. requests' = [requests EXCEPT ![p] = AddTo(Tail(requests[p]), waiting[p])]
  <2>1. [requests EXCEPT ![p] = Tail(@)] = [requests EXCEPT ![p] = Tail(requests[p])]
    BY <1>2, <1>4
  <2> QED
    BY <1>1, <1>2, <1>3, <2>1, AddWaitingHere, Zenon DEF removeRequest
<1>6. QueueInv' /\ PreemptInv'
  <2>1. /\ Tail(requests[p]) \in Seq(Request)
        /\ Len(Tail(requests[p])) < Len(requests[p])
        /\ PortInv(p, AddTo(Tail(requests[p]), waiting[p]), NoRequest, requestId)
    BY <1>3, <1>4, TailKeeps, Zenon
  <2> HIDE DEF p
  <2> QED
    BY <1>1, <1>2, <1>3, <1>5, <2>1, RemovalStep, Zenon DEF p
<1>7. Head(requests[p]).port = p
  <2>1. /\ requests[p] \in Seq(Request) /\ Len(requests[p]) \in Nat
        /\ \A i \in 1 .. Len(requests[p]) : requests[p][i].port = p
    BY <1>4, PortInvParts
  <2> HIDE DEF p
  <2>2. 1 \in 1 .. Len(requests[p]) /\ Head(requests[p]) = requests[p][1]
    BY <1>3, <2>1
  <2> QED
    BY <2>1, <2>2
<1>8. addrUsed' \in [Ports -> Nat] /\ dataUsed' \in [Ports -> Nat]
  BY <1>1, <1>2, <1>3, <1>7, BandwidthStep, Zenon
<1>9. FrameInv'
  BY <1>1, <1>3, <1>8 DEF FrameInv, lockVars
<1> QED
  BY <1>6, <1>9 DEF MemoryInv

\* Steps that only change what FrameInv says nothing about.
LEMMA FrameKept ==
  ASSUME FrameInv, UNCHANGED <<active, addrUsed, dataUsed, queueWasFull,
                               queueWasActive, lockVars>>,
         scan' \in 0 .. NPorts, outstanding' \subseteq outstanding
  PROVE  FrameInv'
  BY DEF FrameInv, lockVars

LEMMA RequestFields ==
  ASSUME NEW r \in Request
  PROVE  /\ [r EXCEPT !.cancelled = TRUE] \in Request
         /\ [r EXCEPT !.cancelled = TRUE].id = r.id
         /\ [r EXCEPT !.cancelled = TRUE].port = r.port
         /\ grow(r) \in Request /\ grow(r).id = r.id /\ grow(r).port = r.port
         /\ expire(r) \in Request /\ expire(r).id = r.id /\ expire(r).port = r.port
         /\ r.id \in Nat
<1>1. /\ [r EXCEPT !.cancelled = TRUE] \in Request
      /\ [r EXCEPT !.cancelled = TRUE].id = r.id
      /\ [r EXCEPT !.cancelled = TRUE].port = r.port
  BY Zenon DEF Request
<1>2. grow(r) \in Request /\ grow(r).id = r.id /\ grow(r).port = r.port
  <2>1. /\ [r EXCEPT !.age = @ + 1] \in Request
        /\ [r EXCEPT !.age = @ + 1].id = r.id
        /\ [r EXCEPT !.age = @ + 1].port = r.port
    BY DEF Request
  <2> QED
    BY <2>1 DEF grow
<1>3. expire(r) \in Request /\ expire(r).id = r.id /\ expire(r).port = r.port
  <2>1. ASSUME NEW e \in BOOLEAN
        PROVE  /\ [r EXCEPT !.expired = e] \in Request
               /\ [r EXCEPT !.expired = e].id = r.id
               /\ [r EXCEPT !.expired = e].port = r.port
    BY Zenon DEF Request
  <2>2. (r.expired \/ r.age >= latency(r)) \in BOOLEAN
    BY Zenon
  <2>3. expire(r) = [r EXCEPT !.expired = r.expired \/ r.age >= latency(r)]
    BY Zenon DEF expire
  <2> QED
    BY <2>1, <2>2, <2>3, Zenon
<1>4. r.id \in Nat
  BY DEF Request
<1> QED
  BY <1>1, <1>2, <1>3, <1>4

LEMMA CancelStep ==
  ASSUME Tidy, MemoryInv, NEW o \in outstanding, NEW deep \in BOOLEAN,
         NEW ps \in {{o.port}, Ports}, cancel(o, deep, ps)
  PROVE  MemoryInv'
<1>1. QueueInv /\ PreemptInv /\ FrameInv
  BY DEF MemoryInv
<1>2. ps \subseteq Ports
  BY <1>1 DEF FrameInv, TicketSet
<1>3. /\ UNCHANGED <<active, addrUsed, dataUsed, requestId, queueWasFull,
                     queueWasActive, preemptionId, lockVars, scan>>
      /\ outstanding' = outstanding \ {o}
  BY DEF cancel
<1>4. FrameInv'
  BY <1>1, <1>3 DEF FrameInv, lockVars
<1>5. /\ requests = [z \in Ports |-> requests[z]]
      /\ waiting = [z \in Ports |-> waiting[z]] /\ requestId \in Nat
      /\ \A z \in Ports : PortInv(z, requests[z], waiting[z], requestId)
  BY <1>1 DEF QueueInv
<1>6. ASSUME NEW p \in ps, NEW i \in DOMAIN requests[p], cancel_internal(p, i, deep)
      PROVE  QueueInv' /\ PreemptInv'
  <2>1. p \in Ports
    BY <1>2
  <2>2. /\ requests[p] \in Seq(Request) /\ Len(requests[p]) \in Nat
        /\ PortInv(p, requests[p], waiting[p], requestId)
    BY <1>5, <2>1, PortInvParts
  <2>3. i \in 1 .. Len(requests[p])
    BY <1>6, <2>2
  <2>4. CASE deep
    <3> DEFINE s == erase(requests[p], i)
    <3>1. s \in Seq(Request) /\ Len(s) < Len(requests[p])
      <4>1. s \in Seq(Request) /\ Len(s) = Len(requests[p]) - 1
        BY <2>2, <2>3, EraseElements
      <4> QED
        BY <2>2, <4>1
    <3>2. PortInv(p, AddTo(s, waiting[p]), NoRequest, requestId)
      BY <2>2, <2>3, EraseKeeps
    <3>3. [requests EXCEPT ![p] = erase(@, i)] = [requests EXCEPT ![p] = s]
      BY <1>5, <2>1
    <3>4. /\ requests' = addWaitingRequest([requests EXCEPT ![p] = s], p)
          /\ waiting' = [waiting EXCEPT ![p] = NoRequest]
      BY <1>6, <2>4, <3>3 DEF cancel_internal
    <3> HIDE DEF s
    <3>5. requests' = [requests EXCEPT ![p] = AddTo(s, waiting[p])]
      BY <1>1, <2>1, <3>4, AddWaitingHere, Zenon
    <3> QED
      BY <1>1, <1>3, <2>1, <3>1, <3>2, <3>4, <3>5, RemovalStep, Zenon
  <2>5. CASE ~deep
    <3> DEFINE r == [requests[p][i] EXCEPT !.cancelled = TRUE]
               s == [requests[p] EXCEPT ![i] = r]
    <3>1. requests[p][i] \in Request
      BY <2>2, <2>3
    <3>2. r \in Request /\ r.id = requests[p][i].id /\ r.port = requests[p][i].port
      BY <3>1, RequestFields
    <3>3. requests' = [requests EXCEPT ![p] = s] /\ waiting' = waiting
      BY <1>5, <1>6, <2>1, <2>3, <2>5 DEF cancel_internal
    <3> HIDE DEF r
    <3>4. /\ s \in Seq(Request) /\ Len(s) = Len(requests[p]) /\ s[i] = r
          /\ \A j \in 1 .. Len(s) : j # i => s[j] = requests[p][j]
      BY <2>2, <2>3, <3>2
    <3> HIDE DEF s
    <3>5. \A j \in 1 .. Len(s) : /\ s[j].id = requests[p][j].id
                                 /\ s[j].port = requests[p][j].port
      BY <3>2, <3>4, Zenon
    <3>6. waiting' = [waiting EXCEPT ![p] = waiting[p]]
      BY <1>5, <3>3, Zenon
    <3>7. waiting[p] # NoRequest => waiting[p] \in Request
      BY <2>2 DEF PortInv
    <3>8. s \in Seq(Request) /\ Len(s) = Len(requests[p])
      BY <3>4
    <3> QED
      BY <1>1, <1>3, <2>1, <3>3, <3>5, <3>6, <3>7, <3>8, UpdateStep, Zenon
  <2> QED
    BY <2>4, <2>5
<1>7. ASSUME check_waiting_for_cancel(o.id, deep)
      PROVE  QueueInv' /\ PreemptInv'
  <2>1. requests' = requests /\ waiting' = [z \in Ports |-> waiting'[z]]
    BY <1>7 DEF check_waiting_for_cancel
  <2>2. ASSUME NEW z \in Ports
        PROVE  waiting'[z] # NoRequest =>
                 /\ waiting'[z] \in Request /\ waiting[z] # NoRequest
                 /\ waiting'[z].id = waiting[z].id
                 /\ waiting'[z].port = waiting[z].port
    <3>1. waiting[z] # NoRequest => waiting[z] \in Request
      BY <1>5 DEF PortInv
    <3>2. \/ waiting'[z] = waiting[z] \/ waiting'[z] = NoRequest
          \/ /\ waiting[z] # NoRequest
             /\ waiting'[z] = [waiting[z] EXCEPT !.cancelled = TRUE]
      BY <1>7 DEF check_waiting_for_cancel, WaitingWith
    <3> QED
      BY <3>1, <3>2, RequestFields, Zenon
  <2>3. ASSUME NEW z \in Ports
        PROVE  PortInv(z, requests'[z], waiting'[z], requestId')
    <3>1. /\ requests[z] \in Seq(Request)
          /\ PortInv(z, requests[z], waiting[z], requestId)
      BY <1>5, PortInvParts
    <3>2. PortInv(z, requests[z], waiting'[z], requestId)
      BY <2>2, <3>1, MapKeeps
    <3> QED
      BY <1>3, <2>1, <3>2
  <2>4. QueueInv'
    BY <1>1, <1>3, <2>1, <2>3 DEF QueueInv
  <2>5. PreemptInv'
    BY <1>1, <1>3, <2>1, <2>2 DEF PreemptInv, full
  <2> QED
    BY <2>4, <2>5
<1> QED
  BY <1>4, <1>6, <1>7 DEF cancel, MemoryInv

LEMMA LockStep ==
  ASSUME MemoryInv, NEW i \in Lockers, Lock(i) \/ Unlock(i)
  PROVE  MemoryInv'
<1>1. QueueInv /\ PreemptInv /\ FrameInv
  BY DEF MemoryInv
<1>2. UNCHANGED <<queueVars, scan, outstanding>>
  BY DEF Lock, Unlock, allocate_lock, allocate_force_lock, lockAction,
         deallocate_lock, deallocate_lock_delayed, unlockAction
<1>3. QueueInv'
  BY <1>1, <1>2 DEF QueueInv, queueVars
<1>4. PreemptInv'
  BY <1>1, <1>2 DEF PreemptInv, queueVars, full
<1>5. i \in Clients
  BY MemoryAssumption DEF Clients
<1>6. /\ locked \in BOOLEAN /\ locker \in Clients
      /\ unlockDelay \in {NoDelay} \cup 0 .. MaxUnlockDelay
      /\ hold \in {"free", "exclusive", "forced"}
  BY <1>1 DEF FrameInv
<1> DEFINE LockType ==
             /\ locked' \in BOOLEAN /\ locker' \in Clients
             /\ unlockDelay' \in {NoDelay} \cup 0 .. MaxUnlockDelay
             /\ hold' \in {"free", "exclusive", "forced"}
<1>7. LockType
  <2>1. ASSUME NEW kind \in {"exclusive", "forced"}, lockAction(i, kind)
        PROVE  LockType
    BY <1>5, <1>6, <2>1 DEF lockAction
  <2>2. ASSUME unlockAction PROVE LockType
    BY <1>6, <2>2, Zenon DEF unlockAction
  <2>3. ASSUME NEW d \in 0 .. MaxUnlockDelay, deallocate_lock_delayed(i, d)
        PROVE  LockType
    <3>1. CASE d # 0 /\ locked
      BY <1>6, <2>3, <3>1 DEF deallocate_lock_delayed
    <3> HIDE DEF LockType
    <3>2. CASE ~(d # 0 /\ locked)
      BY <2>2, <2>3, <3>2 DEF deallocate_lock_delayed
    <3> QED
      BY <3>1, <3>2
  <2>4. \/ lockAction(i, "exclusive") \/ lockAction(i, "forced") \/ unlockAction
        \/ \E d \in 0 .. MaxUnlockDelay : deallocate_lock_delayed(i, d)
    BY DEF Lock, Unlock, allocate_lock, allocate_force_lock, deallocate_lock
  <2> HIDE DEF LockType
  <2> QED
    BY <2>1, <2>2, <2>3, <2>4
<1>8. FrameInv'
  BY <1>1, <1>2, <1>7 DEF FrameInv, queueVars
<1> QED
  BY <1>3, <1>4, <1>8 DEF MemoryInv

LEMMA ResetStep ==
  ASSUME MemoryInv, reset
  PROVE  MemoryInv'
<1>1. QueueInv /\ PreemptInv /\ FrameInv
  BY DEF MemoryInv
<1>2. /\ requests' = [p \in Ports |-> << >>] /\ waiting' = [p \in Ports |-> NoRequest]
      /\ outstanding' = {}
      /\ UNCHANGED <<active, addrUsed, dataUsed, requestId, queueWasFull,
                     queueWasActive, preemptionId, lockVars, scan>>
  BY DEF reset
<1>3. ASSUME NEW p PROVE PortInv(p, << >>, NoRequest, requestId)
  BY QueueSizeType DEF PortInv
<1>4. QueueInv'
  BY <1>1, <1>2, <1>3 DEF QueueInv
<1>5. \A p \in Ports : Len(requests'[p]) # QueueSize
  BY <1>2, QueueSizeType
<1>6. PreemptInv'
  BY <1>1, <1>2, <1>5 DEF PreemptInv, full
<1>7. FrameInv'
  BY <1>1, <1>2 DEF FrameInv, lockVars
<1> QED
  BY <1>4, <1>6, <1>7 DEF MemoryInv

LEMMA ScanStep ==
  ASSUME Tidy, MemoryInv, NEW p \in Ports, ScanPort(p)
  PROVE  MemoryInv'
<1>1. QueueInv /\ PreemptInv /\ FrameInv
  BY DEF MemoryInv
<1> DEFINE q    == Expired(requests[p])
           S(n) == SubSeq(q, n + 1, Len(q))
<1>2. PICK n \in 0 .. Len(requests[p]) :
        /\ requests' = IF n = 0 THEN [requests EXCEPT ![p] = S(n)]
                       ELSE addWaitingRequest([requests EXCEPT ![p] = S(n)], p)
        /\ waiting' = IF n = 0 THEN waiting ELSE [waiting EXCEPT ![p] = NoRequest]
  BY Zenon DEF ScanPort
<1>3. /\ scan' = p + 1
      /\ UNCHANGED <<active, addrUsed, dataUsed, requestId, queueWasFull,
                     queueWasActive, preemptionId, lockVars, outstanding>>
  BY DEF ScanPort
<1>4. scan' \in 0 .. NPorts
  BY <1>3, MemoryAssumption DEF Ports
<1>5. FrameInv'
  BY <1>1, <1>3, <1>4, Zenon DEF FrameInv, lockVars
<1>6. /\ requests[p] \in Seq(Request) /\ Len(requests[p]) \in Nat
      /\ \A i \in 1 .. Len(requests[p]) : requests[p][i] \in Request
      /\ PortInv(p, requests[p], waiting[p], requestId)
      /\ waiting = [z \in Ports |-> waiting[z]]
      /\ waiting[p] # NoRequest => waiting[p] \in Request
  <2>1. PortInv(p, requests[p], waiting[p], requestId)
    BY <1>1 DEF QueueInv
  <2>2. waiting[p] # NoRequest => waiting[p] \in Request
    BY <2>1 DEF PortInv
  <2> QED
    BY <1>1, <2>1, <2>2, PortInvParts, Zenon DEF QueueInv
<1>7. /\ q \in Seq(Request) /\ Len(q) = Len(requests[p])
      /\ \A i \in 1 .. Len(q) : /\ q[i].id = requests[p][i].id
                                /\ q[i].port = requests[p][i].port
  <2>1. q = [i \in 1 .. Len(requests[p]) |-> expire(requests[p][i])]
    BY <1>6 DEF Expired
  <2>2. \A i \in 1 .. Len(requests[p]) :
          /\ expire(requests[p][i]) \in Request
          /\ expire(requests[p][i]).id = requests[p][i].id
          /\ expire(requests[p][i]).port = requests[p][i].port
    BY <1>6, RequestFields, Zenon
  <2> HIDE DEF q
  <2> QED
    BY <1>6, <2>1, <2>2
<1> HIDE DEF q
<1>8. CASE n = 0
  <2>1. S(0) = q
    BY <1>7
  <2>2. requests' = [requests EXCEPT ![p] = q] /\ waiting' = waiting
    BY <1>2, <1>8, <2>1, Zenon
  <2>3. waiting' = [waiting EXCEPT ![p] = waiting[p]]
    BY <1>6, <2>2
  <2>4. QueueInv' /\ PreemptInv'
    BY <1>1, <1>3, <1>6, <1>7, <2>2, <2>3, UpdateStep, Zenon
  <2> QED
    BY <1>5, <2>4 DEF MemoryInv
<1>9. CASE n # 0
  <2>1. n \in 1 .. Len(q) /\ Len(q) \in Nat
    BY <1>6, <1>7, <1>9
  <2>2. PortInv(p, q, waiting[p], requestId)
    BY <1>6, <1>7, MapKeeps, Zenon
  <2>3. PortInv(p, AddTo(S(n), waiting[p]), NoRequest, requestId)
    BY <2>1, <2>2, DropKeeps
  <2>4. S(n) \in Seq(Request) /\ Len(S(n)) < Len(requests[p])
    BY <1>7, <2>1
  <2>5. /\ requests' = addWaitingRequest([requests EXCEPT ![p] = S(n)], p)
        /\ waiting' = [waiting EXCEPT ![p] = NoRequest]
    BY <1>2, <1>9
  <2> HIDE DEF S
  <2>6. requests' = [requests EXCEPT ![p] = AddTo(S(n), waiting[p])]
    BY <1>1, <2>5, AddWaitingHere, Zenon
  <2>7. QueueInv' /\ PreemptInv'
    BY <1>1, <1>3, <2>3, <2>4, <2>5, <2>6, RemovalStep, Zenon
  <2> QED
    BY <1>5, <2>7 DEF MemoryInv
<1> QED
  BY <1>8, <1>9

LEMMA StartStep ==
  ASSUME Tidy, MemoryInv, StartCycle
  PROVE  MemoryInv'
<1>1. QueueInv /\ PreemptInv /\ FrameInv
  BY DEF MemoryInv
<1>2. /\ scan' = 0
      /\ requests' = [p \in Ports |->
                        [i \in DOMAIN requests[p] |-> grow(requests[p][i])]]
      /\ waiting' = [p \in Ports |->
                       IF waiting[p] = NoRequest THEN NoRequest ELSE grow(waiting[p])]
      /\ addrUsed' = [p \in Ports |-> 0] /\ dataUsed' = [p \in Ports |-> 0]
      /\ queueWasFull' = (nAvailableRequestSlots(0) = 0)
      /\ queueWasActive' = isActive(requests)
      /\ active' = [p \in Ports |-> ~emptyRequests(p)]
      /\ savePreemptionId /\ checkDelayedUnlock
      /\ UNCHANGED <<requestId, outstanding>>
  BY DEF StartCycle
<1>3. /\ requestId \in Nat \ {0}
      /\ \A p \in Ports : PortInv(p, requests[p], waiting[p], requestId)
  BY <1>1 DEF QueueInv
<1>4. ASSUME NEW p \in Ports
      PROVE  /\ requests'[p] \in Seq(Request) /\ Len(requests'[p]) = Len(requests[p])
             /\ \A i \in 1 .. Len(requests[p]) :
                  /\ requests'[p][i].id = requests[p][i].id
                  /\ requests'[p][i].port = requests[p][i].port
  <2>1. /\ requests[p] \in Seq(Request) /\ Len(requests[p]) \in Nat
        /\ \A i \in 1 .. Len(requests[p]) : requests[p][i] \in Request
    BY <1>3, PortInvParts, Zenon
  <2>2. requests'[p] = [i \in 1 .. Len(requests[p]) |-> grow(requests[p][i])]
    BY <1>2, <2>1
  <2>3. \A i \in 1 .. Len(requests[p]) :
          /\ grow(requests[p][i]) \in Request
          /\ grow(requests[p][i]).id = requests[p][i].id
          /\ grow(requests[p][i]).port = requests[p][i].port
    BY <2>1, RequestFields, Zenon
  <2> QED
    BY <2>1, <2>2, <2>3
<1>5. ASSUME NEW p \in Ports
      PROVE  waiting'[p] # NoRequest =>
               /\ waiting'[p] \in Request /\ waiting[p] # NoRequest
               /\ waiting'[p].id = waiting[p].id /\ waiting'[p].port = waiting[p].port
  <2>1. waiting[p] # NoRequest => waiting[p] \in Request
    BY <1>3 DEF PortInv
  <2>2. waiting'[p] = IF waiting[p] = NoRequest THEN NoRequest ELSE grow(waiting[p])
    BY <1>2
  <2> QED
    BY <2>1, <2>2, RequestFields, Zenon
<1>6. ASSUME NEW p \in Ports
      PROVE  PortInv(p, requests'[p], waiting'[p], requestId')
  <2>1. requestId' = requestId /\ PortInv(p, requests[p], waiting[p], requestId)
    BY <1>2, <1>3
  <2> QED
    BY <1>4, <1>5, <2>1, MapKeeps, Zenon
<1>7. QueueInv'
  BY <1>2, <1>3, <1>6, Zenon DEF QueueInv
<1>8. PreemptInv'
  <2>1. CASE ~Preemptive
    BY <1>1, <1>2, <2>1 DEF PreemptInv, savePreemptionId
  <2>2. CASE Preemptive /\ preemptionId' = NoId
    <3>1. preemptionId' \in Nat /\ preemptionId' < requestId'
      BY <1>2, <1>3, <2>2 DEF NoId
    <3> QED
      BY <2>2, <3>1 DEF PreemptInv
  <2>3. CASE Preemptive /\ preemptionId' # NoId
    <3>1. PICK p \in Ports : waiting[p] # NoRequest /\ preemptionId' = waiting[p].id
      BY <1>2, <2>3 DEF savePreemptionId
    <3>2. Ports = {0} /\ p = 0
      BY <2>3, <3>1 DEF Tidy, Ports
    <3>3. /\ Len(requests[p]) = QueueSize /\ waiting[p] \in Request
          /\ waiting[p].id < requestId
          /\ \A i \in 1 .. Len(requests[p]) : requests[p][i].id < waiting[p].id
      BY <1>3, <3>1 DEF PortInv
    <3>4. queueWasFull'
      <4>1. nAvailableRequestSlots(0) = 0
        BY <3>1, <3>2, <3>3, QueueSizeType DEF nAvailableRequestSlots
      <4> QED
        BY <1>2, <4>1, Zenon
    <3>5. preemptionId' \in Nat /\ preemptionId' < requestId'
      BY <1>2, <3>1, <3>3, RequestFields, Zenon
    <3>6. requests'[p][QueueSize].id # preemptionId'
      <4>1. QueueSize \in 1 .. Len(requests[p])
        BY <3>3, QueueSizeType
      <4>2. requests'[p][QueueSize].id = requests[p][QueueSize].id
        BY <1>4, <4>1
      <4>3. requests[p][QueueSize] \in Request
        BY <1>3, <4>1, PortInvParts
      <4>4. requests[p][QueueSize].id \in Nat
        BY <4>3, RequestFields, Zenon
      <4>5. requests[p][QueueSize].id < waiting[p].id
        BY <3>3, <4>1
      <4> QED
        BY <3>1, <3>5, <4>2, <4>4, <4>5
    <3>7. \A z \in Ports : z = p
      BY <3>2
    <3> QED
      BY <2>3, <3>4, <3>5, <3>6, <3>7 DEF PreemptInv, full
  <2> QED
    BY <2>1, <2>2, <2>3, MemoryAssumption
<1>9. FrameInv'
  <2>1. /\ locked' \in BOOLEAN /\ locker' \in Clients
        /\ unlockDelay' \in {NoDelay} \cup 0 .. MaxUnlockDelay
        /\ hold' \in {"free", "exclusive", "forced"}
    <3>1. /\ locked \in BOOLEAN /\ locker \in Clients
          /\ unlockDelay \in {NoDelay} \cup 0 .. MaxUnlockDelay
          /\ hold \in {"free", "exclusive", "forced"}
      BY <1>1 DEF FrameInv
    <3>2. MaxUnlockDelay \in Nat
      BY MemoryAssumption
    <3>3. CASE locked /\ unlockDelay >= 0
      <4>1. CASE unlockDelay - 1 <= 0
        BY <1>2, <3>1, <3>3, <4>1, Zenon DEF checkDelayedUnlock
      <4>2. CASE ~(unlockDelay - 1 <= 0)
        <5>1. /\ unlockDelay' = unlockDelay - 1
              /\ UNCHANGED <<locked, locker, hold>>
          BY <1>2, <3>3, <4>2 DEF checkDelayedUnlock
        <5>2. unlockDelay' \in 0 .. MaxUnlockDelay
          BY <3>1, <3>2, <3>3, <4>2, <5>1 DEF NoDelay
        <5> QED
          BY <3>1, <5>1, <5>2
      <4> QED
        BY <4>1, <4>2
    <3>4. CASE ~(locked /\ unlockDelay >= 0)
      BY <1>2, <3>1, <3>4 DEF checkDelayedUnlock, lockVars
    <3> QED
      BY <3>3, <3>4
  <2>2. /\ active' \in [Ports -> BOOLEAN]
        /\ addrUsed' \in [Ports -> Nat] /\ dataUsed' \in [Ports -> Nat]
        /\ queueWasFull' \in BOOLEAN /\ queueWasActive' \in BOOLEAN
        /\ outstanding' \subseteq TicketSet
    BY <1>1, <1>2 DEF FrameInv, isActive, emptyRequests
  <2>3. scan' \in 0 .. NPorts
    BY <1>2, MemoryAssumption
  <2> QED
    BY <2>1, <2>2, <2>3 DEF FrameInv
<1> QED
  BY <1>7, <1>8, <1>9 DEF MemoryInv

LEMMA SendFrame ==
  ASSUME Tidy, MemoryInv, NEW c \in Clients, NEW type \in Types, NEW serialized,
         NEW p \in Ports, sendRequest(c, type, serialized, p)
  PROVE  MemoryInv'
<1>1. QueueInv' /\ PreemptInv' /\ outstanding' \subseteq TicketSet
  BY SendStep
<1>2. /\ consumeAddrBandwidth(p) /\ updateQueueStatus
      /\ UNCHANGED <<active, lockVars, scan>>
  BY DEF sendRequest
<1>3. FrameInv
  BY DEF MemoryInv
<1>4. addrUsed' \in [Ports -> Nat] /\ dataUsed' \in [Ports -> Nat]
  BY <1>2, <1>3, BandwidthStep
<1>5. queueWasFull' \in BOOLEAN /\ queueWasActive' \in BOOLEAN
  BY <1>2 DEF updateQueueStatus, isActive
<1>6. FrameInv'
  BY <1>1, <1>2, <1>3, <1>4, <1>5 DEF FrameInv, lockVars
<1> QED
  BY <1>1, <1>6, Zenon DEF MemoryInv

-----------------------------------------------------------------------------
(* The theorems. *)

LEMMA MemoryInvInit == Init => MemoryInv
<1> SUFFICES ASSUME Init PROVE MemoryInv
  OBVIOUS
<1>1. ASSUME NEW p PROVE PortInv(p, << >>, NoRequest, 1)
  BY QueueSizeType DEF PortInv
<1>2. QueueInv
  BY <1>1 DEF Init, QueueInv
<1>3. PreemptInv
  BY DEF Init, PreemptInv, NoId
<1>4. FrameInv
  <2>1. scan \in 0 .. NPorts
    BY MemoryAssumption DEF Init
  <2>2. /\ active \in [Ports -> BOOLEAN]
        /\ addrUsed \in [Ports -> Nat] /\ dataUsed \in [Ports -> Nat]
    BY Zenon DEF Init
  <2> QED
    BY <2>1, <2>2, Zenon DEF Init, FrameInv, Clients
<1> QED
  BY <1>2, <1>3, <1>4 DEF MemoryInv

LEMMA MemoryInvStep == Tidy /\ MemoryInv /\ [Next]_vars => MemoryInv'
<1> SUFFICES ASSUME Tidy, MemoryInv, [Next]_vars PROVE MemoryInv'
  OBVIOUS
<1>1. FetchUnit \in Clients /\ FetchPort \in Ports /\ Instrs \subseteq Clients
  BY MemoryAssumption DEF Clients
<1>2. "IFetch" \in Types /\ "Read" \in Types /\ "Write" \in Types
  BY DEF Types
<1>3. CASE sendFetchRequest
  BY <1>1, <1>2, <1>3, SendFrame, Zenon DEF sendFetchRequest
<1>4. ASSUME NEW i \in Instrs, Load(i) PROVE MemoryInv'
  BY <1>1, <1>2, <1>4, SendFrame DEF Load, sendReadRequest
<1>5. ASSUME NEW i \in Instrs, Store(i) PROVE MemoryInv'
  BY <1>1, <1>2, <1>5, SendFrame DEF Store, sendWriteRequest
<1>6. ASSUME NEW c \in Clients, Complete(c) PROVE MemoryInv'
  BY <1>6, CompleteStep DEF Complete
<1>7. CASE Cancel
  BY <1>7, CancelStep, Zenon DEF Cancel
<1>8. ASSUME NEW i \in Lockers, Lock(i) \/ Unlock(i) PROVE MemoryInv'
  BY <1>8, LockStep
<1>9. CASE PreCycle
  BY <1>9, StartStep, ScanStep DEF PreCycle
<1>10. CASE reset
  BY <1>10, ResetStep
<1>11. CASE UNCHANGED vars
  <2>1. UNCHANGED <<requests, waiting, requestId, preemptionId, queueWasFull>>
        /\ UNCHANGED <<active, addrUsed, dataUsed, queueWasActive, lockVars, scan,
                       outstanding>>
    BY <1>11 DEF vars, queueVars
  <2> QED
    BY <2>1 DEF MemoryInv, QueueInv, PreemptInv, FrameInv, full, lockVars
<1> QED
  BY <1>3, <1>4, <1>5, <1>6, <1>7, <1>8, <1>9, <1>10, <1>11, Zenon DEF Next

\* MemoryInv is an invariant of every memory with one port or without
\* preemption, whatever its size, latencies, bandwidth and clients.
THEOREM Invariance == Tidy => (Spec => []MemoryInv)
<1>1. Tidy /\ Init => MemoryInv
  BY MemoryInvInit
<1>2. Tidy /\ MemoryInv /\ [Next]_vars => MemoryInv'
  BY MemoryInvStep
<1>3. ASSUME Tidy PROVE Spec => []MemoryInv
  BY <1>1, <1>2, <1>3, PTL DEF Spec
<1> QED
  BY <1>3

\* MemoryInv says at least what the properties of UadlMemory say.
LEMMA MemoryInvImplies ==
  MemoryInv => TypeOK /\ FirstComeFirstServed /\ WaitingOnlyWhenFull
<1> SUFFICES ASSUME MemoryInv
             PROVE  TypeOK /\ FirstComeFirstServed /\ WaitingOnlyWhenFull
  OBVIOUS
<1>1. /\ requests = [p \in Ports |-> requests[p]]
      /\ waiting = [p \in Ports |-> waiting[p]] /\ requestId \in Nat \ {0}
      /\ \A p \in Ports : PortInv(p, requests[p], waiting[p], requestId)
  BY DEF MemoryInv, QueueInv
<1>2. TypeOK
  <2>1. \A p \in Ports : /\ requests[p] \in Seq(Request)
                         /\ Len(requests[p]) <= QueueSize
                         /\ waiting[p] \in Request \cup {NoRequest}
    BY <1>1 DEF PortInv
  <2>2. /\ requests \in [Ports -> Seq(Request)]
        /\ waiting \in [Ports -> Request \cup {NoRequest}]
    BY <1>1, <2>1, Zenon
  <2> QED
    BY <1>1, <2>1, <2>2 DEF MemoryInv, FrameInv, PreemptInv, TypeOK
<1>3. FirstComeFirstServed
  <2> SUFFICES ASSUME NEW p \in Ports
               PROVE  /\ \A i, j \in DOMAIN requests[p] :
                           i < j => requests[p][i].id < requests[p][j].id
                      /\ waiting[p] # NoRequest =>
                           \A i \in DOMAIN requests[p] :
                             requests[p][i].id < waiting[p].id
    BY DEF FirstComeFirstServed
  <2>1. PortInv(p, requests[p], waiting[p], requestId)
    BY <1>1
  <2>2. DOMAIN requests[p] = 1 .. Len(requests[p])
    BY <2>1, PortInvParts
  <2> QED
    BY <2>1, <2>2 DEF PortInv
<1>4. WaitingOnlyWhenFull
  BY <1>1 DEF WaitingOnlyWhenFull, PortInv, full
<1> QED
  BY <1>2, <1>3, <1>4

\* The state of the memory keeps its types: no queue holds more than QueueSize
\* requests and the unlock delay stays in its range.
THEOREM TypeCorrect == Tidy => (Spec => []TypeOK)
  BY Invariance, MemoryInvImplies, PTL

\* Requests stay in the order they were sent in, so a port that serves from the
\* front serves the first come first.
THEOREM FirstComeFirstServedCorrect == Tidy => (Spec => []FirstComeFirstServed)
  BY Invariance, MemoryInvImplies, PTL

\* A request waits on the bus only behind a full queue, so removeRequest() and
\* cancel() always have the room for it that they assume.
THEOREM WaitingOnlyWhenFullCorrect == Tidy => (Spec => []WaitingOnlyWhenFull)
  BY Invariance, MemoryInvImplies, PTL

=============================================================================
