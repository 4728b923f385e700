-------------------------- MODULE UadlMemoryClients ---------------------------
(***************************************************************************)
(* Proofs about UadlMemory and its clients, on the invariant of            *)
(* UadlMemoryProofs: memory and clients agree on the requests under way,   *)
(* a lock excludes the others, an inactive memory is empty.                *)
(*                                                                         *)
(* They are about the set of requests in the memory and not about where    *)
(* in it they are: every step is described by what it does to Entries.     *)
(***************************************************************************)
EXTENDS UadlMemoryProofs

\* What the clients can tell of a request, and the requests of a port and of the memory.
Entry(r) == [id |-> r.id, client |-> r.client, type |-> r.type, port |-> r.port,
             cancelled |-> r.cancelled]
PortEntries(q, w) == {Entry(q[i]) : i \in 1 .. Len(q)}
                       \cup (IF w = NoRequest THEN {} ELSE {Entry(w)})
Entries == UNION {PortEntries(requests[p], waiting[p]) : p \in Ports}

\* The clients hold the tickets in T for the requests in E.
Agree(E, T) ==
  /\ \A e, f \in E : e.id = f.id => e = f
  /\ T = {Ticket(e) : e \in {f \in E : ~f.cancelled}}

\* Only the fetch unit fetches, so a fetch that is preempted is the fetch unit's.
ClientInv ==
  /\ Agree(Entries, outstanding)
  /\ \A e \in Entries : e.type = "IFetch" => e.client = FetchUnit
  /\ preemptionId # NoId => \A e \in Entries : e.id = preemptionId => e.client = FetchUnit

LockInv ==
  /\ locked <=> hold # "free"
  /\ hold = "exclusive" => \A e \in Entries : e.client = locker

QuietInv == ~queueWasActive => Entries = {}

-----------------------------------------------------------------------------
(* The requests of one port.                                                *)

LEMMA EntryFields ==
  ASSUME NEW r
  PROVE  /\ Entry(r).id = r.id /\ Entry(r).client = r.client /\ Entry(r).type = r.type
         /\ Entry(r).port = r.port /\ Entry(r).cancelled = r.cancelled
         /\ Ticket(Entry(r)) = Ticket(r)
<1>1. /\ Entry(r).id = r.id /\ Entry(r).client = r.client /\ Entry(r).type = r.type
      /\ Entry(r).port = r.port /\ Entry(r).cancelled = r.cancelled
  BY Zenon DEF Entry
<1> QED
  BY <1>1, Zenon DEF Ticket

\* Where an entry comes from, and what it is like.
LEMMA EntryOf ==
  ASSUME NEW q, NEW w, NEW e
  PROVE  e \in PortEntries(q, w)
           <=> \/ \E i \in 1 .. Len(q) : e = Entry(q[i])
               \/ w # NoRequest /\ e = Entry(w)
  BY Zenon DEF PortEntries

LEMMA EntriesOfPort ==
  ASSUME NEW p, NEW q, NEW w, NEW n, PortInv(p, q, w, n), NEW e \in PortEntries(q, w)
  PROVE  e.port = p /\ e.id < n
<1>1. CASE \E i \in 1 .. Len(q) : e = Entry(q[i])
  BY <1>1, PortInvParts, EntryFields
<1>2. CASE w # NoRequest /\ e = Entry(w)
  BY <1>2, EntryFields, Zenon DEF PortInv
<1> QED
  BY <1>1, <1>2, EntryOf

\* No two requests of a port have the same id.
LEMMA IdsDiffer ==
  ASSUME NEW p, NEW q, NEW w, NEW n, PortInv(p, q, w, n), NEW k \in 1 .. Len(q)
  PROVE  /\ \A i \in 1 .. Len(q) : i # k => q[i].id # q[k].id
         /\ w # NoRequest => w.id # q[k].id
<1>1. /\ Len(q) \in Nat /\ \A i \in 1 .. Len(q) : q[i] \in Request
      /\ \A i, j \in 1 .. Len(q) : i < j => q[i].id < q[j].id
  BY PortInvParts
<1>2. \A i \in 1 .. Len(q) : q[i].id \in Nat
  BY <1>1, RequestFields, Zenon
<1>3. \A x, y \in Nat : x < y => x # y
  OBVIOUS
<1>4. \A i \in 1 .. Len(q) : i # k => i < k \/ k < i
  BY <1>1
<1>5. w # NoRequest => w \in Request /\ q[k].id < w.id
  BY Zenon DEF PortInv
<1>6. w # NoRequest => w.id \in Nat
  BY <1>5, RequestFields, Zenon
<1> QED
  BY <1>1, <1>2, <1>3, <1>4, <1>5, <1>6, Zenon

\* addWaitingRequest() moves a request and neither adds nor drops one.
LEMMA EntriesAddTo ==
  ASSUME NEW s \in Seq(Request), Len(s) < QueueSize, NEW w \in Request \cup {NoRequest}
  PROVE  PortEntries(AddTo(s, w), NoRequest) = PortEntries(s, w)
<1>1. CASE w = NoRequest
  BY <1>1, Zenon DEF AddTo
<1>2. CASE w # NoRequest
  <2> DEFINE t == Append(s, w)
  <2>1. Len(s) \in Nat /\ w \in Request
    BY <1>2
  <2>2. AddTo(s, w) = t
    BY <1>2, <2>1, QueueSizeType DEF AddTo, push_back
  <2>3. /\ Len(t) = Len(s) + 1 /\ t[Len(s) + 1] = w
        /\ \A i \in 1 .. Len(s) : t[i] = s[i]
    BY <2>1, AppendElements
  <2> HIDE DEF t
  <2>4. /\ Len(s) + 1 \in 1 .. Len(t)
        /\ \A i \in 1 .. Len(s) : i \in 1 .. Len(t)
        /\ \A i \in 1 .. Len(t) : i = Len(s) + 1 \/ i \in 1 .. Len(s)
    BY <2>1, <2>3
  <2>5. \A e : e \in PortEntries(t, NoRequest) <=> e \in PortEntries(s, w)
    BY <1>2, <2>3, <2>4, EntryOf
  <2> QED
    BY <2>2, <2>5, Zenon
<1> QED
  BY <1>1, <1>2, Zenon

\* A request is taken out of the queue.
LEMMA EntriesErase ==
  ASSUME NEW p, NEW q, NEW w, NEW n, PortInv(p, q, w, n), NEW k \in 1 .. Len(q)
  PROVE  PortEntries(erase(q, k), w) = PortEntries(q, w) \ {Entry(q[k])}
<1> DEFINE s == erase(q, k)
<1>1. q \in Seq(Request) /\ Len(q) \in Nat
  BY PortInvParts
<1>2. /\ Len(s) = Len(q) - 1
      /\ \A i \in 1 .. Len(q) - 1 : s[i] = IF i < k THEN q[i] ELSE q[i + 1]
  BY <1>1, EraseElements
<1> HIDE DEF s
<1>3. \A i \in 1 .. Len(s) : \E j \in 1 .. Len(q) : j # k /\ s[i] = q[j]
  <2> SUFFICES ASSUME NEW i \in 1 .. Len(s)
               PROVE  \E j \in 1 .. Len(q) : j # k /\ s[i] = q[j]
    BY Zenon
  <2>1. /\ i \in 1 .. Len(q) - 1
        /\ i \in 1 .. Len(q) /\ i + 1 \in 1 .. Len(q)
        /\ i < k => i # k
        /\ ~(i < k) => i + 1 # k
    BY <1>1, <1>2
  <2> QED
    BY <1>2, <2>1, Zenon
<1>4. \A j \in 1 .. Len(q) : j # k => \E i \in 1 .. Len(s) : s[i] = q[j]
  <2> SUFFICES ASSUME NEW j \in 1 .. Len(q), j # k
               PROVE  \E i \in 1 .. Len(s) : s[i] = q[j]
    BY Zenon
  <2>1. CASE j < k
    <3>1. j \in 1 .. Len(s) /\ j \in 1 .. Len(q) - 1
      BY <1>1, <1>2, <2>1
    <3> QED
      BY <1>2, <2>1, <3>1, Zenon
  <2>2. CASE ~(j < k)
    <3>1. /\ j - 1 \in 1 .. Len(s) /\ j - 1 \in 1 .. Len(q) - 1 /\ ~(j - 1 < k)
          /\ j - 1 + 1 = j
      BY <1>1, <1>2, <2>2
    <3> QED
      BY <1>2, <3>1, Zenon
  <2> QED
    BY <2>1, <2>2, Zenon
<1>5. /\ \A j \in 1 .. Len(q) : j # k => Entry(q[j]) # Entry(q[k])
      /\ w # NoRequest => Entry(w) # Entry(q[k])
  BY IdsDiffer, EntryFields
<1>6. \A e : e \in PortEntries(s, w) <=> e \in PortEntries(q, w) /\ e # Entry(q[k])
  BY <1>3, <1>4, <1>5, EntryOf
<1> QED
  BY <1>6, Zenon DEF s

LEMMA EntriesTail ==
  ASSUME NEW p, NEW q, NEW w, NEW n, PortInv(p, q, w, n), q # << >>
  PROVE  /\ PortEntries(Tail(q), w) = PortEntries(q, w) \ {Entry(Head(q))}
         /\ Entry(Head(q)) \in PortEntries(q, w)
<1>1. q \in Seq(Request) /\ Len(q) \in Nat
  BY PortInvParts
<1>2. 1 \in 1 .. Len(q) /\ Head(q) = q[1]
  BY <1>1
<1>3. Tail(q) = erase(q, 1)
  <2>1. /\ Tail(q) \in Seq(Request) /\ Len(Tail(q)) = Len(q) - 1
        /\ \A i \in 1 .. Len(q) - 1 : Tail(q)[i] = q[i + 1]
    BY <1>1
  <2>2. /\ erase(q, 1) \in Seq(Request) /\ Len(erase(q, 1)) = Len(q) - 1
        /\ \A i \in 1 .. Len(q) - 1 : erase(q, 1)[i] = q[i + 1]
    <3>1. \A i \in 1 .. Len(q) - 1 : ~(i < 1)
      BY <1>1
    <3> QED
      BY <1>1, <1>2, <3>1, EraseElements
  <2>3. \A s \in Seq(Request) : s \in [1 .. Len(s) -> Request]
    OBVIOUS
  <2>4. PICK f, g \in [1 .. Len(q) - 1 -> Request] : f = Tail(q) /\ g = erase(q, 1)
    BY <2>1, <2>2, <2>3, Zenon
  <2>5. \A i \in 1 .. Len(q) - 1 : f[i] = g[i]
    BY <2>1, <2>2, <2>4, Zenon
  <2>6. f = g
    BY <2>5
  <2> QED
    BY <2>4, <2>6, Zenon
<1>4. PortEntries(erase(q, 1), w) = PortEntries(q, w) \ {Entry(q[1])}
  BY <1>2, EntriesErase
<1>5. Entry(q[1]) \in PortEntries(q, w)
  BY <1>2, EntryOf, Zenon
<1> QED
  BY <1>2, <1>3, <1>4, <1>5, Zenon

\* Cancelled requests are dropped from the front.
LEMMA EntriesDrop ==
  ASSUME NEW q \in Seq(Request), NEW w, NEW m \in 0 .. Len(q),
         \A i \in 1 .. m : q[i].cancelled
  PROVE  /\ PortEntries(SubSeq(q, m + 1, Len(q)), w) \subseteq PortEntries(q, w)
         /\ \A e \in PortEntries(q, w) :
              e.cancelled \/ e \in PortEntries(SubSeq(q, m + 1, Len(q)), w)
<1> DEFINE s == SubSeq(q, m + 1, Len(q))
<1>1. Len(q) \in Nat /\ m \in Nat
  OBVIOUS
<1>2. Len(s) = Len(q) - m /\ \A i \in 1 .. Len(q) - m : s[i] = q[m + i]
  BY <1>1
<1> HIDE DEF s
<1>3. \A i \in 1 .. Len(s) : i \in 1 .. Len(q) - m /\ m + i \in 1 .. Len(q)
  BY <1>1, <1>2
<1>4. \A j \in 1 .. Len(q) :
        j \in 1 .. m \/ (j - m \in 1 .. Len(s) /\ j - m \in 1 .. Len(q) - m /\ m + (j - m) = j)
  BY <1>1, <1>2
<1>5. \A i \in 1 .. Len(s) : \E j \in 1 .. Len(q) : s[i] = q[j]
  BY <1>2, <1>3, Zenon
<1>6. \A j \in 1 .. Len(q) : q[j].cancelled \/ \E i \in 1 .. Len(s) : s[i] = q[j]
  BY <1>2, <1>4, Zenon
<1>7. PortEntries(s, w) \subseteq PortEntries(q, w)
  BY <1>5, EntryOf
<1>8. \A e \in PortEntries(q, w) : e.cancelled \/ e \in PortEntries(s, w)
  BY <1>6, EntryOf, EntryFields
<1> QED
  BY <1>7, <1>8, Zenon DEF s

\* A step that changes only ages and expiry.
LEMMA EntriesMap ==
  ASSUME NEW q, NEW w, NEW s, NEW v, Len(s) = Len(q),
         \A i \in 1 .. Len(q) : Entry(s[i]) = Entry(q[i]),
         (v = NoRequest) <=> (w = NoRequest),
         v # NoRequest => Entry(v) = Entry(w)
  PROVE  PortEntries(s, v) = PortEntries(q, w)
<1>1. \A e : e \in PortEntries(s, v) <=> e \in PortEntries(q, w)
  BY EntryOf
<1> QED
  BY <1>1, Zenon

\* A request of the queue is replaced or marked.
LEMMA EntriesReplace ==
  ASSUME NEW p, NEW q, NEW w, NEW n, PortInv(p, q, w, n), NEW k \in 1 .. Len(q), NEW r
  PROVE  PortEntries([q EXCEPT ![k] = r], w) = (PortEntries(q, w) \ {Entry(q[k])}) \cup {Entry(r)}
<1> DEFINE s == [q EXCEPT ![k] = r]
<1>1. q \in Seq(Request) /\ Len(q) \in Nat
  BY PortInvParts
<1>2. Len(s) = Len(q) /\ s[k] = r /\ \A i \in 1 .. Len(q) : i # k => s[i] = q[i]
  BY <1>1
<1> HIDE DEF s
<1>3. /\ \A j \in 1 .. Len(q) : j # k => Entry(q[j]) # Entry(q[k])
      /\ w # NoRequest => Entry(w) # Entry(q[k])
  BY IdsDiffer, EntryFields
<1>4. \A e : e \in PortEntries(s, w)
               <=> (e \in PortEntries(q, w) /\ e # Entry(q[k])) \/ e = Entry(r)
  BY <1>2, <1>3, EntryOf
<1> QED
  BY <1>4, Zenon DEF s

\* A request is put on the bus, or replaced or taken from there.
LEMMA EntriesWaiting ==
  ASSUME NEW p, NEW q, NEW w, NEW n, PortInv(p, q, w, n)
  PROVE  /\ \A r : r # NoRequest => PortEntries(q, r) = PortEntries(q, NoRequest) \cup {Entry(r)}
         /\ w # NoRequest => /\ PortEntries(q, NoRequest) = PortEntries(q, w) \ {Entry(w)}
                             /\ Entry(w) \in PortEntries(q, w)
<1>1. ASSUME NEW r, r # NoRequest
      PROVE  PortEntries(q, r) = PortEntries(q, NoRequest) \cup {Entry(r)}
  <2>1. \A e : e \in PortEntries(q, r) <=> e \in PortEntries(q, NoRequest) \/ e = Entry(r)
    BY <1>1, EntryOf
  <2> QED
    BY <2>1, Zenon
<1>2. ASSUME w # NoRequest
      PROVE  /\ PortEntries(q, NoRequest) = PortEntries(q, w) \ {Entry(w)}
             /\ Entry(w) \in PortEntries(q, w)
  <2>1. \A j \in 1 .. Len(q) : Entry(q[j]) # Entry(w)
    BY <1>2, IdsDiffer, EntryFields
  <2>2. \A e : e \in PortEntries(q, NoRequest) <=> e \in PortEntries(q, w) /\ e # Entry(w)
    BY <1>2, <2>1, EntryOf
  <2>3. Entry(w) \in PortEntries(q, w)
    BY <1>2, EntryOf, Zenon
  <2> QED
    BY <2>2, <2>3, Zenon
<1> QED
  BY <1>1, <1>2, Zenon

\* A request joins the end of the queue.
LEMMA EntriesAppend ==
  ASSUME NEW p, NEW q, NEW w, NEW n, PortInv(p, q, w, n), Len(q) # QueueSize, NEW r \in Request
  PROVE  PortEntries(push_back(q, r), w) = PortEntries(q, w) \cup {Entry(r)}
<1>1. q \in Seq(Request) /\ Len(q) \in Nat /\ Len(q) <= QueueSize /\ w = NoRequest /\ r # NoRequest
  BY PortInvParts, NoRequestAssumption DEF PortInv
<1>2. Len(q) < QueueSize
  BY <1>1, QueueSizeType
<1>3. PortEntries(AddTo(q, r), NoRequest) = PortEntries(q, r)
  BY <1>1, <1>2, EntriesAddTo
<1>4. PortEntries(q, r) = PortEntries(q, NoRequest) \cup {Entry(r)}
  BY <1>1, EntriesWaiting, Zenon
<1> QED
  BY <1>1, <1>3, <1>4, Zenon DEF AddTo

-----------------------------------------------------------------------------
(* The requests of the memory.                                              *)

LEMMA EntryAt ==
  ASSUME NEW e
  PROVE  e \in Entries <=> \E p \in Ports : e \in PortEntries(requests[p], waiting[p])
  BY Zenon DEF Entries

\* A step that changes the queue and the bus of one port: V leaves, N enters.
Changed(p, x, y, V, N) ==
  /\ requests' = [requests EXCEPT ![p] = x]
  /\ waiting' = [waiting EXCEPT ![p] = y]
  /\ \A e \in V : e.port = p
  /\ PortEntries(x, y) = (PortEntries(requests[p], waiting[p]) \ V) \cup N

Becomes(V, N) == Entries' = (Entries \ V) \cup N

LEMMA OnePortEntries ==
  ASSUME QueueInv, NEW p \in Ports, NEW x, NEW y, NEW V, NEW N, Changed(p, x, y, V, N)
  PROVE  Becomes(V, N)
<1>0. /\ requests' = [requests EXCEPT ![p] = x] /\ waiting' = [waiting EXCEPT ![p] = y]
      /\ \A e \in V : e.port = p
      /\ PortEntries(x, y) = (PortEntries(requests[p], waiting[p]) \ V) \cup N
  BY Zenon DEF Changed
<1>1. /\ requests = [z \in Ports |-> requests[z]]
      /\ waiting = [z \in Ports |-> waiting[z]]
      /\ \A z \in Ports : PortInv(z, requests[z], waiting[z], requestId)
  BY Zenon DEF QueueInv
<1>2. requests'[p] = x /\ waiting'[p] = y
  BY <1>0, <1>1, Zenon
<1>3. \A z \in Ports : z # p => requests'[z] = requests[z] /\ waiting'[z] = waiting[z]
  BY <1>0, <1>1, Zenon
<1>4. \A z \in Ports : \A e \in PortEntries(requests[z], waiting[z]) : e.port = z
  BY <1>1, EntriesOfPort
<1>5. \A e : e \in Entries' <=> \E z \in Ports : e \in PortEntries(requests'[z], waiting'[z])
  BY Zenon DEF Entries
<1>6. ASSUME NEW e \in Entries' PROVE e \in (Entries \ V) \cup N
  <2>1. PICK z \in Ports : e \in PortEntries(requests'[z], waiting'[z])
    BY <1>5, Zenon
  <2>2. CASE z = p
    <3>1. e \in (PortEntries(requests[p], waiting[p]) \ V) \cup N
      BY <1>0, <1>2, <2>1, <2>2, Zenon
    <3> QED
      BY <3>1, EntryAt, Zenon
  <2>3. CASE z # p
    <3>1. e \in PortEntries(requests[z], waiting[z])
      BY <1>3, <2>1, <2>3, Zenon
    <3>2. e \notin V
      BY <1>0, <1>4, <2>3, <3>1, Zenon
    <3> QED
      BY <3>1, <3>2, EntryAt, Zenon
  <2> QED
    BY <2>2, <2>3, Zenon
<1>7. ASSUME NEW e \in (Entries \ V) \cup N PROVE e \in Entries'
  <2>1. CASE e \in N
    BY <1>0, <1>2, <1>5, <2>1, Zenon
  <2>2. CASE e \in Entries /\ e \notin V
    <3>1. PICK z \in Ports : e \in PortEntries(requests[z], waiting[z])
      BY <2>2, EntryAt, Zenon
    <3>2. CASE z = p
      BY <1>0, <1>2, <1>5, <2>2, <3>1, <3>2, Zenon
    <3>3. CASE z # p
      BY <1>3, <1>5, <3>1, <3>3, Zenon
    <3> QED
      BY <3>2, <3>3, Zenon
  <2> QED
    BY <2>1, <2>2, Zenon
<1> QED
  BY <1>6, <1>7, Zenon DEF Becomes

\* A step that leaves every port with the entries it had.
LEMMA SameEntries ==
  ASSUME \A p \in Ports : PortEntries(requests'[p], waiting'[p])
                            = PortEntries(requests[p], waiting[p])
  PROVE  Entries' = Entries
  BY Zenon DEF Entries

LEMMA AgreeIs ==
  ASSUME NEW E, NEW T
  PROVE  Agree(E, T)
           <=> /\ \A e, f \in E : e.id = f.id => e = f
               /\ \A o : o \in T <=> \E e \in E : ~e.cancelled /\ o = Ticket(e)
  BY DEF Agree

LEMMA TicketFields ==
  ASSUME NEW r
  PROVE  Ticket(r).id = r.id /\ Ticket(r).client = r.client /\ Ticket(r).port = r.port
  BY Zenon DEF Ticket

\* A request is sent, ends, or is marked as cancelled by the client that holds its ticket.
LEMMA AgreeAdd ==
  ASSUME NEW E, NEW T, Agree(E, T), NEW r, ~r.cancelled, \A e \in E : e.id # r.id
  PROVE  Agree(E \cup {r}, T \cup {Ticket(r)})
<1>1. /\ \A e, f \in E : e.id = f.id => e = f
      /\ \A o : o \in T <=> \E e \in E : ~e.cancelled /\ o = Ticket(e)
  BY AgreeIs, Zenon
<1>2. \A e, f \in E \cup {r} : e.id = f.id => e = f
  BY <1>1
<1>3. \A o : o \in T \cup {Ticket(r)} <=> \E e \in E \cup {r} : ~e.cancelled /\ o = Ticket(e)
  BY <1>1
<1> QED
  BY <1>2, <1>3, AgreeIs, Zenon

LEMMA AgreeRemove ==
  ASSUME NEW E, NEW T, Agree(E, T), NEW r \in E, ~r.cancelled
  PROVE  Agree(E \ {r}, T \ {Ticket(r)})
<1>1. /\ \A e, f \in E : e.id = f.id => e = f
      /\ \A o : o \in T <=> \E e \in E : ~e.cancelled /\ o = Ticket(e)
  BY AgreeIs, Zenon
<1>2. \A e, f \in E \ {r} : e.id = f.id => e = f
  BY <1>1, Zenon
<1>3. \A e \in E : Ticket(e) = Ticket(r) => e = r
  BY <1>1, TicketFields
<1>4. \A o : o \in T \ {Ticket(r)} <=> \E e \in E \ {r} : ~e.cancelled /\ o = Ticket(e)
  BY <1>1, <1>3
<1> QED
  BY <1>2, <1>4, AgreeIs, Zenon

LEMMA AgreeDrop ==
  ASSUME NEW E, NEW T, Agree(E, T), NEW D \in SUBSET E, \A e \in E : e.cancelled \/ e \in D
  PROVE  Agree(D, T)
<1>1. /\ \A e, f \in E : e.id = f.id => e = f
      /\ \A o : o \in T <=> \E e \in E : ~e.cancelled /\ o = Ticket(e)
  BY AgreeIs, Zenon
<1>2. \A o : o \in T <=> \E e \in D : ~e.cancelled /\ o = Ticket(e)
  BY <1>1
<1> QED
  BY <1>1, <1>2, AgreeIs, Zenon

LEMMA AgreeMark ==
  ASSUME NEW E, NEW T, Agree(E, T), NEW r \in E, ~r.cancelled, NEW s, s.cancelled, s.id = r.id
  PROVE  Agree((E \ {r}) \cup {s}, T \ {Ticket(r)})
<1> DEFINE D == E \ {r}
           U == T \ {Ticket(r)}
<1>1. /\ \A e, f \in D : e.id = f.id => e = f
      /\ \A o : o \in U <=> \E e \in D : ~e.cancelled /\ o = Ticket(e)
  <2>1. Agree(D, U)
    BY AgreeRemove, Zenon
  <2> HIDE DEF D, U
  <2> QED
    BY <2>1, AgreeIs, Zenon
<1>2. \A e \in D : e.id # s.id
  <2>1. \A e, f \in E : e.id = f.id => e = f
    BY AgreeIs, Zenon
  <2> QED
    BY <2>1, Zenon
<1> HIDE DEF D, U
<1>3. \A e, f \in D \cup {s} : e.id = f.id => e = f
  BY <1>1, <1>2
<1>4. \A o : o \in U <=> \E e \in D \cup {s} : ~e.cancelled /\ o = Ticket(e)
  BY <1>1
<1>5. Agree(D \cup {s}, U)
  BY <1>3, <1>4, AgreeIs, Zenon
<1> QED
  BY <1>5, Zenon DEF D, U

\* The request that a ticket is for: whatever has its id.
LEMMA TicketOf ==
  ASSUME NEW E, NEW T, Agree(E, T), NEW o \in T
  PROVE  \E e \in E : ~e.cancelled /\ o = Ticket(e) /\ \A f \in E : f.id = o.id => f = e
  BY AgreeIs, TicketFields

LEMMA EntryIds ==
  ASSUME QueueInv, NEW e \in Entries
  PROVE  e.id \in Nat /\ e.id < requestId
<1>1. PICK p \in Ports : e \in PortEntries(requests[p], waiting[p])
  BY EntryAt, Zenon
<1>2. PortInv(p, requests[p], waiting[p], requestId)
  BY Zenon DEF QueueInv
<1>3. e.id < requestId
  BY <1>1, <1>2, EntriesOfPort
<1>4. \A i \in 1 .. Len(requests[p]) : requests[p][i] \in Request
  BY <1>2, PortInvParts, Zenon
<1>5. waiting[p] # NoRequest => waiting[p] \in Request
  BY <1>2, Zenon DEF PortInv
<1>6. e.id \in Nat
  <2>0. \A r \in Request : Entry(r).id \in Nat
    BY EntryFields DEF Request
  <2>1. CASE waiting[p] # NoRequest /\ e = Entry(waiting[p])
    BY <1>5, <2>0, <2>1, Zenon
  <2>2. CASE \E i \in 1 .. Len(requests[p]) : e = Entry(requests[p][i])
    BY <1>4, <2>0, <2>2, Zenon
  <2> QED
    BY <1>1, <2>1, <2>2, EntryOf
<1> QED
  BY <1>3, <1>6, Zenon

-----------------------------------------------------------------------------
(* What every step does to the entries.                                     *)

\* Request e is the newest there is and gives way to the request that is sent.
Ousts(e) ==
  /\ preemptionId # NoId /\ e \in Entries /\ e.id = preemptionId
  /\ \A f \in Entries : f.id <= e.id

\* sendRequest() adds a request, in place of the preempted one if there is one.
LEMMA Sent ==
  ASSUME Tidy, MemoryInv, NEW c \in Clients, NEW type \in Types, NEW serialized,
         NEW p \in Ports, sendRequest(c, type, serialized, p),
         NEW new, new = NewRequest(c, type, p)
  PROVE  \/ /\ Entries' = Entries \cup {Entry(new)}
            /\ outstanding' = outstanding \cup {Ticket(new)}
         \/ \E e : /\ Ousts(e)
                   /\ Entries' = (Entries \ {e}) \cup {Entry(new)}
                   /\ outstanding' = (IF e.cancelled THEN outstanding
                                      ELSE outstanding \ PreemptedTicket) \cup {Ticket(new)}
<1> DEFINE q == requests[p]
           w == waiting[p]
           P == PortEntries(q, w)
<1>1. /\ requestId \in Nat \ {0} /\ PortInv(p, q, w, requestId)
      /\ requests = [z \in Ports |-> requests[z]]
      /\ waiting = [z \in Ports |-> waiting[z]]
      /\ QueueInv /\ PreemptInv
  BY Zenon DEF MemoryInv, QueueInv
<1>2. new \in Request /\ new # NoRequest /\ new.type = type
  BY <1>1, NewRequestType, NoRequestAssumption, Zenon DEF NewRequest
<1>3. /\ sendRequestInquire(c, type, serialized, p)
      /\ \/ Accept(p, new) \/ PreemptWaiting(p, new)
         \/ PreemptBack(p, new) \/ WaitOnBus(p, new)
  BY Zenon DEF sendRequest
<1>4. preemptionId # NoId => \A z \in Ports : z = p
  BY <1>1, OnlyPort, Zenon
<1>5. preemptionId # NoId => \A e : e \in Entries <=> e \in P
  BY <1>4, EntryAt, Zenon
<1>6. /\ q \in Seq(Request) /\ Len(q) \in Nat
      /\ \A i \in 1 .. Len(q) : q[i] \in Request /\ q[i].id \in Nat
      /\ \A i, j \in 1 .. Len(q) : i < j => q[i].id < q[j].id
  BY <1>1, PortInvParts, RequestFields, Zenon
<1> HIDE DEF q, w, P
<1>7. CASE Accept(p, new)
  <2>1. /\ Len(q) # QueueSize
        /\ requests' = [requests EXCEPT ![p] = push_back(q, new)]
        /\ waiting' = waiting /\ outstanding' = outstanding \cup {Ticket(new)}
    BY <1>1, <1>7 DEF Accept, full, q
  <2>2. waiting' = [waiting EXCEPT ![p] = w]
    BY <1>1, <2>1 DEF w
  <2>3. PortEntries(push_back(q, new), w) = (P \ {}) \cup {Entry(new)}
    BY <1>1, <1>2, <2>1, EntriesAppend DEF P
  <2>4. Becomes({}, {Entry(new)})
    <3>1. Changed(p, push_back(q, new), w, {}, {Entry(new)})
      BY <2>1, <2>2, <2>3, Zenon DEF Changed, P, q, w
    <3> QED
      BY <1>1, <3>1, OnePortEntries, Zenon
  <2> QED
    BY <2>1, <2>4 DEF Becomes
<1>8. CASE WaitOnBus(p, new)
  <2>1. /\ Len(q) = QueueSize /\ ~canPreempt(type, p) /\ requests' = requests
        /\ waiting' = [waiting EXCEPT ![p] = new]
        /\ outstanding' = outstanding \cup {Ticket(new)}
    BY <1>2, <1>8 DEF WaitOnBus, full, q
  <2>2. requests' = [requests EXCEPT ![p] = q]
    BY <1>1, <2>1, Zenon DEF q
  <2>3. w = NoRequest
    <3>1. ~readsStaleBack(p)
      BY <1>6, <2>1, QueueSizeType DEF readsStaleBack, q
    <3>2. nAvailableRequestSlots(p) # 0
      BY <1>3, <2>1, <3>1, Zenon DEF sendRequestInquire
    <3>3. QueueSize - Len(q) = 0
      BY <2>1, QueueSizeType
    <3> QED
      BY <3>2, <3>3 DEF nAvailableRequestSlots, q, w
  <2>4. PortEntries(q, new) = (P \ {}) \cup {Entry(new)}
    BY <1>1, <1>2, <2>3, EntriesWaiting DEF P
  <2>5. Becomes({}, {Entry(new)})
    <3>1. Changed(p, q, new, {}, {Entry(new)})
      BY <2>1, <2>2, <2>4, Zenon DEF Changed, P, q, w
    <3> QED
      BY <1>1, <3>1, OnePortEntries, Zenon
  <2> QED
    BY <2>1, <2>5 DEF Becomes
<1>9. CASE PreemptWaiting(p, new)
  <2>1. PICK z \in Ports : /\ preemptsWaiting(type, z)
                           /\ Preempt(waiting[z], new)
                           /\ waiting' = [waiting EXCEPT ![z] = new]
    BY <1>2, <1>9, Zenon DEF PreemptWaiting
  <2>2. preemptionId # NoId /\ z = p /\ w # NoRequest /\ w.id = preemptionId
    BY <1>4, <2>1 DEF preemptsWaiting, WaitingWith, w
  <2>3. requests' = [requests EXCEPT ![p] = q] /\ waiting' = [waiting EXCEPT ![p] = new]
    BY <1>1, <1>9, <2>1, <2>2, Zenon DEF PreemptWaiting, q
  <2>4. /\ PortEntries(q, new) = (P \ {Entry(w)}) \cup {Entry(new)}
        /\ Entry(w) \in P
    BY <1>1, <1>2, <2>2, EntriesWaiting DEF P
  <2>5. \A e \in {Entry(w)} : e.port = p
    BY <1>1, <2>2, EntryFields DEF PortInv
  <2>6. Becomes({Entry(w)}, {Entry(new)})
    <3>1. Changed(p, q, new, {Entry(w)}, {Entry(new)})
      BY <2>3, <2>4, <2>5, Zenon DEF Changed, P, q, w
    <3> QED
      BY <1>1, <3>1, OnePortEntries, Zenon
  <2>7. \A e \in P : e.id <= Entry(w).id
    <3>1. w \in Request /\ w.id \in Nat /\ \A i \in 1 .. Len(q) : q[i].id < w.id
      BY <1>1, <2>2, RequestFields, Zenon DEF PortInv
    <3>2. \A x, y \in Nat : x < y => x <= y
      OBVIOUS
    <3>3. w.id <= w.id /\ \A i \in 1 .. Len(q) : q[i].id <= w.id
      BY <1>6, <3>1, <3>2
    <3> QED
      BY <3>3, EntryOf, EntryFields DEF P
  <2>8. Ousts(Entry(w))
    BY <1>5, <2>2, <2>4, <2>7, EntryFields DEF Ousts
  <2>9. outstanding' = (IF Entry(w).cancelled THEN outstanding
                        ELSE outstanding \ PreemptedTicket) \cup {Ticket(new)}
    BY <2>1, <2>2, EntryFields DEF Preempt, w
  <2> QED
    BY <2>6, <2>8, <2>9, Zenon DEF Becomes
<1>10. CASE PreemptBack(p, new)
  <2> DEFINE m == Len(q)
             r == q[m]
  <2>1. /\ m = QueueSize /\ preemptsBack(type, p) /\ Preempt(back(q), new)
        /\ requests' = [requests EXCEPT ![p] = [q EXCEPT ![m] = new]]
        /\ waiting' = waiting
    BY <1>1, <1>2, <1>10, Zenon DEF PreemptBack, full, q
  <2>2. m \in 1 .. Len(q)
    BY <1>6, <2>1, QueueSizeType
  <2>3. preemptionId # NoId /\ r.id = preemptionId /\ Preempt(r, new)
    BY <2>1 DEF preemptsBack, back, q
  <2>4. w = NoRequest
    BY <1>1, <2>1, <2>3 DEF PreemptInv, full, q, w
  <2>5. waiting' = [waiting EXCEPT ![p] = w]
    BY <1>1, <2>1 DEF w
  <2>6. /\ PortEntries([q EXCEPT ![m] = new], w) = (P \ {Entry(r)}) \cup {Entry(new)}
        /\ Entry(r) \in P
    BY <1>1, <2>2, EntriesReplace, EntryOf DEF P
  <2>7. \A e \in {Entry(r)} : e.port = p
    BY <1>1, <2>2, EntryFields DEF PortInv
  <2>8. Becomes({Entry(r)}, {Entry(new)})
    <3>1. Changed(p, [q EXCEPT ![m] = new], w, {Entry(r)}, {Entry(new)})
      BY <2>1, <2>5, <2>6, <2>7, Zenon DEF Changed, P, q, w
    <3> QED
      BY <1>1, <3>1, OnePortEntries, Zenon
  <2>9. \A e \in P : e.id <= Entry(r).id
    <3>1. \A i \in 1 .. Len(q) : i = m \/ i < m
      BY <1>6
    <3>2. \A x, y \in Nat : x < y => x <= y
      OBVIOUS
    <3>3. \A i \in 1 .. Len(q) : q[i].id <= r.id
      BY <1>6, <2>2, <3>1, <3>2
    <3> QED
      BY <2>4, <3>3, EntryOf, EntryFields DEF P
  <2>10. Ousts(Entry(r))
    BY <1>5, <2>3, <2>6, <2>9, EntryFields DEF Ousts
  <2>11. outstanding' = (IF Entry(r).cancelled THEN outstanding
                         ELSE outstanding \ PreemptedTicket) \cup {Ticket(new)}
    BY <2>3, EntryFields DEF Preempt
  <2> QED
    BY <2>8, <2>10, <2>11, Zenon DEF Becomes
<1> QED
  BY <1>3, <1>7, <1>8, <1>9, <1>10, Zenon

\* Removal of the requests V of port p, leaving s, with the waiting request let in.
Removed(p, s, V) ==
  /\ s \in Seq(Request) /\ Len(s) < Len(requests[p])
  /\ requests' = addWaitingRequest([requests EXCEPT ![p] = s], p)
  /\ waiting' = [waiting EXCEPT ![p] = NoRequest]
  /\ \A e \in V : e.port = p
  /\ PortEntries(s, waiting[p]) = PortEntries(requests[p], waiting[p]) \ V

LEMMA RemovedEntries ==
  ASSUME QueueInv, NEW p \in Ports, NEW s, NEW V, Removed(p, s, V)
  PROVE  Becomes(V, {})
<1> DEFINE x == AddTo(s, waiting[p])
<1>1. /\ s \in Seq(Request) /\ Len(s) < Len(requests[p])
      /\ requests' = addWaitingRequest([requests EXCEPT ![p] = s], p)
      /\ waiting' = [waiting EXCEPT ![p] = NoRequest]
      /\ \A e \in V : e.port = p
      /\ PortEntries(s, waiting[p]) = PortEntries(requests[p], waiting[p]) \ V
  BY Zenon DEF Removed
<1>2. PortInv(p, requests[p], waiting[p], requestId)
  BY Zenon DEF QueueInv
<1>3. Len(s) < QueueSize
  <2>1. Len(requests[p]) \in Nat /\ Len(requests[p]) <= QueueSize
    BY <1>2, PortInvParts, Zenon
  <2> QED
    BY <1>1, <2>1, QueueSizeType
<1>4. waiting[p] \in Request \cup {NoRequest}
  BY <1>2, Zenon DEF PortInv
<1>5. PortEntries(x, NoRequest) = PortEntries(s, waiting[p])
  BY <1>1, <1>3, <1>4, EntriesAddTo
<1>6. requests' = [requests EXCEPT ![p] = x]
  BY <1>1, AddWaitingHere, Zenon
<1> HIDE DEF x
<1>7. Changed(p, x, NoRequest, V, {})
  <2>1. PortEntries(x, NoRequest) = (PortEntries(requests[p], waiting[p]) \ V) \cup {}
    BY <1>1, <1>5
  <2> QED
    BY <1>1, <1>6, <2>1, Zenon DEF Changed
<1> QED
  BY <1>7, OnePortEntries, Zenon

\* read() and write() take the request out that the client's ticket is for.
LEMMA Completed ==
  ASSUME MemoryInv, ClientInv, NEW o \in outstanding, read(o) \/ write(o)
  PROVE  \E e \in Entries : ~e.cancelled /\ o = Ticket(e) /\ Becomes({e}, {})
<1>1. QueueInv /\ outstanding \subseteq TicketSet /\ Agree(Entries, outstanding)
  BY Zenon DEF MemoryInv, FrameInv, ClientInv
<1>2. PICK p \in Ports : p = o.port
  BY <1>1, Zenon DEF TicketSet
<1> DEFINE q == requests[p]
           h == Entry(Head(q))
<1>3. /\ q # << >> /\ Head(q).id = o.id
      /\ requests' = removeRequest(p)
      /\ waiting' = [waiting EXCEPT ![p] = NoRequest]
  BY <1>2, Zenon DEF read, write, requestInquire
<1>4. PortInv(p, q, waiting[p], requestId) /\ requests = [z \in Ports |-> requests[z]]
  BY <1>1, Zenon DEF QueueInv
<1>5. requests' = addWaitingRequest([requests EXCEPT ![p] = Tail(q)], p)
  <2>1. [requests EXCEPT ![p] = Tail(@)] = [requests EXCEPT ![p] = Tail(q)]
    BY <1>4, Zenon
  <2> QED
    BY <1>3, <2>1, Zenon DEF removeRequest
<1>6. Tail(q) \in Seq(Request) /\ Len(Tail(q)) < Len(q)
  BY <1>3, <1>4, TailKeeps
<1>7. /\ PortEntries(Tail(q), waiting[p]) = PortEntries(q, waiting[p]) \ {h}
      /\ h \in PortEntries(q, waiting[p])
  BY <1>3, <1>4, EntriesTail
<1>8. h \in Entries /\ h.id = o.id /\ h.port = p
  BY <1>3, <1>4, <1>7, EntryAt, EntryFields, EntriesOfPort
<1>9. Removed(p, Tail(q), {h})
  BY <1>3, <1>5, <1>6, <1>7, <1>8, Zenon DEF Removed
<1> HIDE DEF h
<1>10. Becomes({h}, {})
  BY <1>1, <1>9, RemovedEntries, Zenon
<1>11. ~h.cancelled /\ o = Ticket(h)
  BY <1>1, <1>8, TicketOf
<1> QED
  BY <1>8, <1>10, <1>11, Zenon

\* A shallow cancel marks a request and changes nothing else that a client can tell.
Marked(r) == [r EXCEPT !.cancelled = TRUE]
Marks(f, e) == /\ f.id = e.id /\ f.client = e.client /\ f.type = e.type /\ f.port = e.port
               /\ f.cancelled

LEMMA MarkedEntry ==
  ASSUME NEW r \in Request
  PROVE  Marked(r) # NoRequest /\ Marks(Entry(Marked(r)), Entry(r))
<1>1. Marked(r) \in Request
  BY RequestFields DEF Marked
<1>2. /\ Marked(r).id = r.id /\ Marked(r).client = r.client /\ Marked(r).type = r.type
      /\ Marked(r).port = r.port /\ Marked(r).cancelled = TRUE
  BY DEF Marked, Request
<1>3. Marks(Entry(Marked(r)), Entry(r))
  BY <1>2, EntryFields DEF Marks
<1> QED
  BY <1>1, <1>3, NoRequestAssumption

\* cancel() takes out or marks the request that the client's ticket is for.
LEMMA Cancelled ==
  ASSUME MemoryInv, ClientInv, NEW o \in outstanding, NEW deep \in BOOLEAN,
         NEW ps \in {{o.port}, Ports}, cancel(o, deep, ps)
  PROVE  \E e \in Entries : /\ ~e.cancelled /\ o = Ticket(e)
                            /\ \/ Becomes({e}, {})
                               \/ \E f : Marks(f, e) /\ Becomes({e}, {f})
<1>1. QueueInv /\ outstanding \subseteq TicketSet /\ Agree(Entries, outstanding)
  BY Zenon DEF MemoryInv, FrameInv, ClientInv
<1>2. PICK e \in Entries : ~e.cancelled /\ o = Ticket(e) /\ \A f \in Entries : f.id = o.id => f = e
  BY <1>1, TicketOf
<1>3. o.port \in Ports /\ e.port = o.port /\ e.id = o.id
  BY <1>1, <1>2, TicketFields DEF TicketSet
<1>4. /\ requests = [z \in Ports |-> requests[z]]
      /\ waiting = [z \in Ports |-> waiting[z]]
      /\ \A z \in Ports : PortInv(z, requests[z], waiting[z], requestId)
  BY <1>1, Zenon DEF QueueInv
<1>5. ps \subseteq Ports /\ o.port \in ps
  BY <1>3
<1>6. ASSUME NEW p \in ps, NEW i \in DOMAIN requests[p], requests[p][i].id = o.id,
             cancel_internal(p, i, deep)
      PROVE  Becomes({e}, {}) \/ \E f : Marks(f, e) /\ Becomes({e}, {f})
  <2> DEFINE q == requests[p]
             w == waiting[p]
  <2>1. p \in Ports /\ PortInv(p, q, w, requestId)
    BY <1>4, <1>5, Zenon
  <2>2. /\ q \in Seq(Request) /\ Len(q) \in Nat
        /\ i \in 1 .. Len(q) /\ q[i] \in Request
    BY <1>6, <2>1, PortInvParts
  <2>3. Entry(q[i]) \in PortEntries(q, w)
    BY <2>2, EntryOf, Zenon
  <2>4. Entry(q[i]) = e /\ e.port = p
    <3>1. Entry(q[i]) \in Entries
      BY <2>1, <2>3, EntryAt, Zenon
    <3>2. Entry(q[i]).id = o.id
      BY <1>6, EntryFields, Zenon
    <3>3. Entry(q[i]).port = p
      BY <2>1, <2>3, EntriesOfPort
    <3> QED
      BY <1>2, <3>1, <3>2, <3>3, Zenon
  <2>5. CASE deep
    <3>1. /\ requests' = addWaitingRequest([requests EXCEPT ![p] = erase(q, i)], p)
          /\ waiting' = [waiting EXCEPT ![p] = NoRequest]
      BY <1>4, <1>6, <2>1, <2>5, Zenon DEF cancel_internal
    <3>2. erase(q, i) \in Seq(Request) /\ Len(erase(q, i)) < Len(q)
      <4>1. erase(q, i) \in Seq(Request) /\ Len(erase(q, i)) = Len(q) - 1
        BY <2>2, EraseElements, Zenon
      <4> QED
        BY <2>2, <4>1
    <3>3. PortEntries(erase(q, i), w) = PortEntries(q, w) \ {e}
      BY <2>1, <2>2, <2>4, EntriesErase
    <3>4. Removed(p, erase(q, i), {e})
      BY <2>4, <3>1, <3>2, <3>3, Zenon DEF Removed
    <3>5. Becomes({e}, {})
      BY <1>1, <2>1, <3>4, RemovedEntries, Zenon
    <3> QED
      BY <3>5
  <2>6. CASE ~deep
    <3> DEFINE r == Marked(q[i])
               s == [q EXCEPT ![i] = r]
    <3>1. requests' = [requests EXCEPT ![p] = s] /\ waiting' = [waiting EXCEPT ![p] = w]
      BY <1>4, <1>6, <2>1, <2>2, <2>6 DEF cancel_internal, Marked
    <3> HIDE DEF r
    <3>2. PortEntries(s, w) = (PortEntries(q, w) \ {e}) \cup {Entry(r)}
      BY <2>1, <2>2, <2>4, EntriesReplace
    <3> HIDE DEF s
    <3>3. Changed(p, s, w, {e}, {Entry(r)})
      BY <2>4, <3>1, <3>2, Zenon DEF Changed
    <3>4. Becomes({e}, {Entry(r)})
      BY <1>1, <2>1, <3>3, OnePortEntries, Zenon
    <3>5. Marks(Entry(r), e)
      BY <2>2, <2>4, MarkedEntry DEF r
    <3> QED
      BY <3>4, <3>5
  <2> QED
    BY <2>5, <2>6, Zenon
<1>7. ASSUME \A p \in ps : \A i \in DOMAIN requests[p] : requests[p][i].id # o.id,
             check_waiting_for_cancel(o.id, deep)
      PROVE  Becomes({e}, {}) \/ \E f : Marks(f, e) /\ Becomes({e}, {f})
  <2>1. PICK p \in Ports : e \in PortEntries(requests[p], waiting[p])
    BY EntryAt, Zenon
  <2> DEFINE q == requests[p]
             w == waiting[p]
  <2>2. PortInv(p, q, w, requestId)
    BY <1>4, Zenon
  <2>3. p = o.port
    BY <1>3, <2>1, <2>2, EntriesOfPort
  <2>4. DOMAIN q = 1 .. Len(q)
    BY <2>2, PortInvParts
  <2>5. w # NoRequest /\ e = Entry(w) /\ w.id = o.id /\ w \in Request
    <3>1. \A i \in 1 .. Len(q) : e # Entry(q[i])
      BY <1>3, <1>5, <1>7, <2>3, <2>4, EntryFields
    <3>2. w # NoRequest /\ e = Entry(w)
      BY <2>1, <3>1, EntryOf
    <3> QED
      BY <1>3, <2>2, <3>2, EntryFields DEF PortInv
  <2>6. \A z \in Ports : z \in WaitingWith(o.id) <=> z = p
    <3>1. ASSUME NEW z \in Ports, waiting[z] # NoRequest, waiting[z].id = o.id PROVE z = p
      <4>1. Entry(waiting[z]) \in PortEntries(requests[z], waiting[z])
        BY <3>1, EntryOf, Zenon
      <4>2. Entry(waiting[z]) = e
        BY <1>2, <3>1, <4>1, EntryAt, EntryFields
      <4>3. e.port = z
        BY <1>4, <4>1, <4>2, EntriesOfPort
      <4> QED
        BY <1>3, <2>3, <4>3
    <3> QED
      BY <2>5, <3>1, Zenon DEF WaitingWith
  <2> DEFINE v == IF deep THEN NoRequest ELSE Marked(w)
  <2>7. requests' = [requests EXCEPT ![p] = q] /\ waiting' = [waiting EXCEPT ![p] = v]
    <3>1. waiting' = [z \in Ports |-> IF z = p THEN v ELSE waiting[z]]
      BY <1>7, <2>6, Zenon DEF check_waiting_for_cancel, Marked
    <3>2. requests' = [requests EXCEPT ![p] = q]
      BY <1>4, <1>7, Zenon DEF check_waiting_for_cancel
    <3> QED
      BY <1>4, <3>1, <3>2, Zenon
  <2>8. /\ PortEntries(q, NoRequest) = PortEntries(q, w) \ {e}
        /\ Marked(w) # NoRequest
             => PortEntries(q, Marked(w)) = PortEntries(q, NoRequest) \cup {Entry(Marked(w))}
    BY <2>2, <2>5, EntriesWaiting
  <2>9. \A f \in {e} : f.port = p
    BY <1>3, <2>3, Zenon
  <2>10. CASE deep
    <3>1. PortEntries(q, NoRequest) = (PortEntries(q, w) \ {e}) \cup {}
      BY <2>8
    <3>2. Changed(p, q, NoRequest, {e}, {})
      BY <2>7, <2>9, <2>10, <3>1, Zenon DEF Changed
    <3>3. Becomes({e}, {})
      BY <1>1, <3>2, OnePortEntries, Zenon
    <3> QED
      BY <3>3
  <2>11. CASE ~deep
    <3>1. Marked(w) # NoRequest /\ Marks(Entry(Marked(w)), e)
      BY <2>5, MarkedEntry
    <3>2. PortEntries(q, Marked(w)) = (PortEntries(q, w) \ {e}) \cup {Entry(Marked(w))}
      BY <2>8, <3>1, Zenon
    <3>3. Changed(p, q, Marked(w), {e}, {Entry(Marked(w))})
      BY <2>7, <2>9, <2>11, <3>2, Zenon DEF Changed
    <3>4. Becomes({e}, {Entry(Marked(w))})
      BY <1>1, <3>3, OnePortEntries, Zenon
    <3> QED
      BY <3>1, <3>4, Zenon
  <2> QED
    BY <2>10, <2>11, Zenon
<1>8. Becomes({e}, {}) \/ \E f : Marks(f, e) /\ Becomes({e}, {f})
  BY <1>6, <1>7, Zenon DEF cancel
<1> QED
  BY <1>2, <1>8, Zenon

\* Aging and expiry: nothing a client can tell.
LEMMA SameEntry ==
  ASSUME NEW r \in Request
  PROVE  /\ Entry(grow(r)) = Entry(r) /\ Entry(expire(r)) = Entry(r)
         /\ grow(r) # NoRequest /\ expire(r) \in Request
<1>1. ASSUME NEW s, s.id = r.id, s.client = r.client, s.type = r.type, s.port = r.port,
             s.cancelled = r.cancelled
      PROVE  Entry(s) = Entry(r)
  BY <1>1, Zenon DEF Entry
<1>2. Entry(grow(r)) = Entry(r)
  <2>1. /\ [r EXCEPT !.age = @ + 1].id = r.id /\ [r EXCEPT !.age = @ + 1].client = r.client
        /\ [r EXCEPT !.age = @ + 1].type = r.type /\ [r EXCEPT !.age = @ + 1].port = r.port
        /\ [r EXCEPT !.age = @ + 1].cancelled = r.cancelled
    BY DEF Request
  <2>2. Entry([r EXCEPT !.age = @ + 1]) = Entry(r)
    BY <1>1, <2>1, Zenon
  <2> QED
    BY <2>2, Zenon DEF grow
<1>3. Entry(expire(r)) = Entry(r)
  <2>1. ASSUME NEW e
        PROVE  Entry([r EXCEPT !.expired = e]) = Entry(r)
    <3>1. /\ [r EXCEPT !.expired = e].id = r.id /\ [r EXCEPT !.expired = e].client = r.client
          /\ [r EXCEPT !.expired = e].type = r.type /\ [r EXCEPT !.expired = e].port = r.port
          /\ [r EXCEPT !.expired = e].cancelled = r.cancelled
      BY DEF Request
    <3> QED
      BY <1>1, <3>1, Zenon
  <2> QED
    BY <2>1, Zenon DEF expire
<1> QED
  BY <1>2, <1>3, RequestFields, NoRequestAssumption, Zenon

\* incrTime() and saveQueueStatus() leave the requests as they are.
LEMMA Started ==
  ASSUME QueueInv, StartCycle
  PROVE  Entries' = Entries
<1>1. /\ requests' = [p \in Ports |->
                        [i \in DOMAIN requests[p] |-> grow(requests[p][i])]]
      /\ waiting' = [p \in Ports |->
                       IF waiting[p] = NoRequest THEN NoRequest ELSE grow(waiting[p])]
  BY Zenon DEF StartCycle
<1>2. ASSUME NEW p \in Ports
      PROVE  PortEntries(requests'[p], waiting'[p]) = PortEntries(requests[p], waiting[p])
  <2> DEFINE q == requests[p]
             w == waiting[p]
             s == [i \in 1 .. Len(q) |-> grow(q[i])]
             v == IF w = NoRequest THEN NoRequest ELSE grow(w)
  <2>1. /\ q \in Seq(Request) /\ Len(q) \in Nat /\ \A i \in 1 .. Len(q) : q[i] \in Request
        /\ w # NoRequest => w \in Request
    <3>1. PortInv(p, q, w, requestId)
      BY Zenon DEF QueueInv
    <3> QED
      BY <3>1, PortInvParts, Zenon DEF PortInv
  <2>2. DOMAIN q = 1 .. Len(q)
    BY <2>1
  <2>3. requests'[p] = s /\ waiting'[p] = v
    BY <1>1, <2>2, Zenon
  <2>4. Len(s) = Len(q)
    BY <2>1
  <2>5. \A i \in 1 .. Len(q) : s[i] = grow(q[i])
    BY Zenon
  <2> HIDE DEF s
  <2>6. \A i \in 1 .. Len(q) : Entry(s[i]) = Entry(q[i])
    BY <2>1, <2>5, SameEntry
  <2>7. /\ (v = NoRequest) <=> (w = NoRequest)
        /\ v # NoRequest => Entry(v) = Entry(w)
    BY <2>1, SameEntry
  <2> HIDE DEF q, w, v
  <2>8. PortEntries(s, v) = PortEntries(q, w)
    BY <2>4, <2>6, <2>7, EntriesMap
  <2> QED
    BY <2>3, <2>8, Zenon DEF q, w
<1> QED
  BY <1>2, SameEntries, Zenon

\* The loop of preCycle() drops only cancelled requests.
LEMMA Scanned ==
  ASSUME QueueInv, NEW p \in Ports, ScanPort(p)
  PROVE  Entries' \subseteq Entries /\ \A e \in Entries : e.cancelled \/ e \in Entries'
<1> DEFINE q == Expired(requests[p])
           w == waiting[p]
           S(n) == SubSeq(q, n + 1, Len(q))
<1>1. PICK n \in 0 .. Len(requests[p]) :
        /\ DeadPrefix(q, n)
        /\ requests' = IF n = 0 THEN [requests EXCEPT ![p] = S(n)]
                       ELSE addWaitingRequest([requests EXCEPT ![p] = S(n)], p)
        /\ waiting' = IF n = 0 THEN waiting ELSE [waiting EXCEPT ![p] = NoRequest]
  BY Zenon DEF ScanPort
<1>2. /\ requests[p] \in Seq(Request) /\ Len(requests[p]) \in Nat
      /\ \A i \in 1 .. Len(requests[p]) : requests[p][i] \in Request
      /\ PortInv(p, requests[p], w, requestId)
      /\ waiting = [z \in Ports |-> waiting[z]]
  <2>1. PortInv(p, requests[p], waiting[p], requestId)
    BY Zenon DEF QueueInv
  <2> QED
    BY <2>1, PortInvParts, Zenon DEF QueueInv
<1>3. /\ q \in Seq(Request) /\ Len(q) = Len(requests[p])
      /\ \A i \in 1 .. Len(q) : Entry(q[i]) = Entry(requests[p][i])
  <2>1. q = [i \in 1 .. Len(requests[p]) |-> expire(requests[p][i])]
    BY <1>2 DEF Expired
  <2>2. \A i \in 1 .. Len(requests[p]) :
          /\ expire(requests[p][i]) \in Request
          /\ Entry(expire(requests[p][i])) = Entry(requests[p][i])
    BY <1>2, SameEntry
  <2> HIDE DEF q
  <2>3. q \in Seq(Request) /\ Len(q) = Len(requests[p])
    BY <1>2, <2>1, <2>2
  <2>4. \A i \in 1 .. Len(q) : Entry(q[i]) = Entry(requests[p][i])
    BY <2>1, <2>2, <2>3, Zenon
  <2> QED
    BY <2>3, <2>4, Zenon
<1>4. PortEntries(q, w) = PortEntries(requests[p], w)
  BY <1>3, EntriesMap
<1>5. \A i \in 1 .. n : q[i].cancelled
  BY <1>1, Zenon DEF DeadPrefix
<1> HIDE DEF q
<1>6. CASE n = 0
  <2>1. S(0) = q
    BY <1>3
  <2>2. requests' = [requests EXCEPT ![p] = q] /\ waiting' = [waiting EXCEPT ![p] = w]
    BY <1>1, <1>2, <1>6, <2>1, Zenon
  <2>3. Changed(p, q, w, {}, {})
    <3>1. PortEntries(q, w) = (PortEntries(requests[p], w) \ {}) \cup {}
      BY <1>4
    <3> QED
      BY <2>2, <3>1, Zenon DEF Changed
  <2>4. Becomes({}, {})
    BY <2>3, OnePortEntries, Zenon
  <2> QED
    BY <2>4 DEF Becomes
<1>7. CASE n # 0
  <2> DEFINE V == PortEntries(requests[p], w) \ PortEntries(S(n), w)
  <2>1. n \in 1 .. Len(q) /\ Len(q) \in Nat /\ n \in 0 .. Len(q)
    BY <1>2, <1>3, <1>7
  <2>2. S(n) \in Seq(Request) /\ Len(S(n)) < Len(requests[p])
    BY <1>3, <2>1
  <2>3. /\ requests' = addWaitingRequest([requests EXCEPT ![p] = S(n)], p)
        /\ waiting' = [waiting EXCEPT ![p] = NoRequest]
    BY <1>1, <1>7, Zenon
  <2>4. /\ PortEntries(S(n), w) \subseteq PortEntries(q, w)
        /\ \A e \in PortEntries(q, w) : e.cancelled \/ e \in PortEntries(S(n), w)
    BY <1>3, <1>5, <2>1, EntriesDrop, Zenon
  <2> HIDE DEF S
  <2>5. PortEntries(S(n), w) = PortEntries(requests[p], w) \ V
    BY <1>4, <2>4
  <2>6. \A e \in V : e.port = p /\ e.cancelled
    BY <1>2, <1>4, <2>4, EntriesOfPort
  <2> HIDE DEF V
  <2>7. Removed(p, S(n), V)
    BY <2>2, <2>3, <2>5, <2>6, Zenon DEF Removed
  <2>8. Becomes(V, {})
    BY <2>7, RemovedEntries, Zenon
  <2> QED
    BY <2>6, <2>8 DEF Becomes
<1> QED
  BY <1>6, <1>7, Zenon

-----------------------------------------------------------------------------
(* Memory and clients agree.                                                *)

\* The ticket the fetch unit gives up is that of the fetch that was preempted.
LEMMA PreemptedIs ==
  ASSUME QueueInv, ClientInv, NEW e, Ousts(e), ~e.cancelled
  PROVE  PreemptedTicket = {Ticket(e)}
<1>1. /\ e \in Entries /\ \A f \in Entries : f.id <= e.id
      /\ e.client = FetchUnit
  BY Zenon DEF Ousts, ClientInv
<1>2. /\ \A f \in Entries : e.id = f.id => e = f
      /\ \A o : o \in outstanding <=> \E f \in Entries : ~f.cancelled /\ o = Ticket(f)
  BY <1>1, AgreeIs DEF ClientInv
<1>3. Ticket(e) \in FetchTickets
  BY <1>1, <1>2, TicketFields DEF FetchTickets
<1>4. ASSUME NEW o \in FetchTickets
      PROVE  o.id <= Ticket(e).id /\ (Ticket(e).id <= o.id => o = Ticket(e))
  <2>1. PICK f \in Entries : o = Ticket(f)
    BY <1>2, <1>4, Zenon DEF FetchTickets
  <2>2. o.id = f.id /\ Ticket(e).id = e.id /\ f.id <= e.id
    BY <1>1, <2>1, TicketFields
  <2>3. f.id \in Nat /\ e.id \in Nat
    BY <1>1, EntryIds
  <2>4. e.id <= f.id => e.id = f.id
    BY <2>2, <2>3
  <2> QED
    BY <1>2, <2>1, <2>2, <2>4, Zenon
<1>5. \A o : o \in PreemptedTicket <=> o = Ticket(e)
  BY <1>3, <1>4, Zenon DEF PreemptedTicket
<1> QED
  BY <1>5, Zenon

LEMMA ClientSend ==
  ASSUME Tidy, MemoryInv, ClientInv, NEW c \in Clients, NEW type \in Types, NEW serialized,
         NEW p \in Ports, sendRequest(c, type, serialized, p),
         type = "IFetch" => c = FetchUnit
  PROVE  /\ ClientInv'
         /\ \A e \in Entries' : e \in Entries \/ e.client = c
<1>1. PICK new : new = NewRequest(c, type, p)
  BY Zenon
<1>2. QueueInv /\ PreemptInv /\ requestId \in Nat /\ preemptionId' = preemptionId
  BY Zenon DEF MemoryInv, QueueInv, sendRequest
<1> DEFINE r == Entry(new)
<1>3. /\ r.id = requestId /\ r.client = c /\ r.type = type /\ ~r.cancelled
      /\ Ticket(r) = Ticket(new)
  <2>1. new.id = requestId /\ new.client = c /\ new.type = type /\ ~new.cancelled
    BY <1>1, Zenon DEF NewRequest
  <2> QED
    BY <2>1, EntryFields
<1> HIDE DEF r
<1>4. \A e \in Entries : e.id # requestId
  BY <1>2, EntryIds
<1>5. requestId # preemptionId
  BY <1>2 DEF PreemptInv
<1>6. ASSUME NEW D \in SUBSET Entries, Entries' = D \cup {r}, Agree(Entries', outstanding')
      PROVE  ClientInv' /\ \A e \in Entries' : e \in Entries \/ e.client = c
  <2>1. \A e \in Entries' : e = r \/ e \in Entries
    BY <1>6, Zenon
  <2>2. \A e \in Entries' : e \in Entries \/ e.client = c
    BY <1>3, <2>1, Zenon
  <2>3. \A e \in Entries' : e.type = "IFetch" => e.client = FetchUnit
    BY <1>3, <2>1, Zenon DEF ClientInv
  <2>4. preemptionId' # NoId
          => \A e \in Entries' : e.id = preemptionId' => e.client = FetchUnit
    BY <1>2, <1>3, <1>5, <2>1, Zenon DEF ClientInv
  <2> QED
    BY <1>6, <2>2, <2>3, <2>4, Zenon DEF ClientInv
<1>7. Agree(Entries, outstanding)
  BY Zenon DEF ClientInv
<1>8. CASE /\ Entries' = Entries \cup {r}
           /\ outstanding' = outstanding \cup {Ticket(new)}
  <2>1. Agree(Entries \cup {r}, outstanding \cup {Ticket(r)})
    BY <1>3, <1>4, <1>7, AgreeAdd
  <2>2. Agree(Entries', outstanding')
    BY <1>3, <1>8, <2>1, Zenon
  <2> QED
    BY <1>6, <1>8, <2>2
<1>9. ASSUME NEW e, Ousts(e), Entries' = (Entries \ {e}) \cup {r},
             outstanding' = (IF e.cancelled THEN outstanding
                             ELSE outstanding \ PreemptedTicket) \cup {Ticket(new)}
      PROVE  ClientInv' /\ \A f \in Entries' : f \in Entries \/ f.client = c
  <2> DEFINE T == IF e.cancelled THEN outstanding ELSE outstanding \ PreemptedTicket
             D == Entries \ {e}
  <2>1. e \in Entries
    BY <1>9, Zenon DEF Ousts
  <2>2. Agree(D, T)
    <3>1. CASE e.cancelled
      <4>1. D \in SUBSET Entries /\ \A f \in Entries : f.cancelled \/ f \in D
        BY <3>1
      <4> HIDE DEF D
      <4>2. Agree(D, outstanding)
        BY <1>7, <4>1, AgreeDrop
      <4> QED
        BY <3>1, <4>2, Zenon
    <3>2. CASE ~e.cancelled
      <4>1. PreemptedTicket = {Ticket(e)}
        BY <1>2, <1>9, <3>2, PreemptedIs, Zenon
      <4>2. Agree(Entries \ {e}, outstanding \ {Ticket(e)})
        BY <1>7, <2>1, <3>2, AgreeRemove
      <4> QED
        BY <3>2, <4>1, <4>2, Zenon
    <3> QED
      BY <3>1, <3>2, Zenon
  <2>3. D \in SUBSET Entries /\ \A f \in D : f.id # r.id
    BY <1>3, <1>4
  <2>4. Entries' = D \cup {r} /\ outstanding' = T \cup {Ticket(r)}
    BY <1>3, <1>9, Zenon
  <2> HIDE DEF D, T
  <2>5. Agree(D \cup {r}, T \cup {Ticket(r)})
    BY <1>3, <2>2, <2>3, AgreeAdd
  <2>6. Agree(Entries', outstanding')
    BY <2>4, <2>5, Zenon
  <2> QED
    BY <1>6, <2>3, <2>4, <2>6, Zenon
<1>10. \/ /\ Entries' = Entries \cup {Entry(new)}
          /\ outstanding' = outstanding \cup {Ticket(new)}
       \/ \E e : /\ Ousts(e)
                 /\ Entries' = (Entries \ {e}) \cup {Entry(new)}
                 /\ outstanding' = (IF e.cancelled THEN outstanding
                                    ELSE outstanding \ PreemptedTicket) \cup {Ticket(new)}
  BY <1>1, Sent, Zenon
<1> QED
  BY <1>8, <1>9, <1>10, Zenon DEF r

\* The steps other than sends bring no client's requests into the memory.
Keeps == \A e \in Entries' : \E f \in Entries : f.client = e.client

LEMMA ClientComplete ==
  ASSUME MemoryInv, ClientInv, NEW o \in outstanding, read(o) \/ write(o)
  PROVE  ClientInv' /\ Keeps
<1>1. PICK e \in Entries : ~e.cancelled /\ o = Ticket(e) /\ Becomes({e}, {})
  BY Completed, Zenon
<1>2. Entries' = Entries \ {e} /\ outstanding' = outstanding \ {Ticket(e)}
  <2>1. Entries' = (Entries \ {e}) \cup {}
    BY <1>1, Zenon DEF Becomes
  <2> QED
    BY <1>1, <2>1, Zenon DEF read, write
<1>3. Agree(Entries \ {e}, outstanding \ {Ticket(e)})
  BY <1>1, AgreeRemove DEF ClientInv
<1>4. Agree(Entries', outstanding')
  BY <1>2, <1>3, Zenon
<1>5. preemptionId' = preemptionId
  BY Zenon DEF read, write
<1>6. \A f \in Entries' : f \in Entries
  BY <1>2, Zenon
<1>7. ClientInv'
  BY <1>4, <1>5, <1>6, Zenon DEF ClientInv
<1> QED
  BY <1>6, <1>7, Zenon DEF Keeps

LEMMA ClientCancel ==
  ASSUME MemoryInv, ClientInv, NEW o \in outstanding, NEW deep \in BOOLEAN,
         NEW ps \in {{o.port}, Ports}, cancel(o, deep, ps)
  PROVE  ClientInv' /\ Keeps
<1>1. PICK e \in Entries : /\ ~e.cancelled /\ o = Ticket(e)
                           /\ \/ Becomes({e}, {})
                              \/ \E f : Marks(f, e) /\ Becomes({e}, {f})
  BY Cancelled, Zenon
<1>2. outstanding' = outstanding \ {Ticket(e)} /\ preemptionId' = preemptionId
  BY <1>1, Zenon DEF cancel
<1>3. Agree(Entries, outstanding)
  BY Zenon DEF ClientInv
<1>4. CASE Becomes({e}, {})
  <2>1. Entries' = (Entries \ {e}) \cup {}
    BY <1>4, Zenon DEF Becomes
  <2>2. Entries' = Entries \ {e}
    BY <2>1, Zenon
  <2>3. Agree(Entries \ {e}, outstanding \ {Ticket(e)})
    BY <1>1, <1>3, AgreeRemove
  <2>4. Agree(Entries', outstanding')
    BY <1>2, <2>2, <2>3, Zenon
  <2>5. \A f \in Entries' : f \in Entries
    BY <2>2, Zenon
  <2>6. ClientInv'
    BY <1>2, <2>4, <2>5, Zenon DEF ClientInv
  <2> QED
    BY <2>5, <2>6, Zenon DEF Keeps
<1>5. ASSUME NEW f, Marks(f, e), Becomes({e}, {f})
      PROVE  ClientInv' /\ Keeps
  <2>1. Entries' = (Entries \ {e}) \cup {f}
    BY <1>5, Zenon DEF Becomes
  <2>2. f.id = e.id /\ f.client = e.client /\ f.type = e.type /\ f.cancelled
    BY <1>5, Zenon DEF Marks
  <2>3. Agree((Entries \ {e}) \cup {f}, outstanding \ {Ticket(e)})
    BY <1>1, <1>3, <2>2, AgreeMark
  <2>4. Agree(Entries', outstanding')
    BY <1>2, <2>1, <2>3, Zenon
  <2>5. \A g \in Entries' : g = f \/ g \in Entries
    BY <2>1, Zenon
  <2>6. \A g \in Entries' : \E h \in Entries : g.id = h.id /\ g.type = h.type /\ h.client = g.client
    BY <1>1, <2>2, <2>5, Zenon
  <2>7. \A g \in Entries' : g.type = "IFetch" => g.client = FetchUnit
    BY <2>6, Zenon DEF ClientInv
  <2>8. preemptionId # NoId
          => \A g \in Entries' : g.id = preemptionId => g.client = FetchUnit
    BY <2>6, Zenon DEF ClientInv
  <2>9. ClientInv'
    BY <1>2, <2>4, <2>7, <2>8, Zenon DEF ClientInv
  <2> QED
    BY <2>6, <2>9, Zenon DEF Keeps
<1> QED
  BY <1>1, <1>4, <1>5, Zenon

LEMMA ClientScan ==
  ASSUME QueueInv, ClientInv, NEW p \in Ports, ScanPort(p)
  PROVE  ClientInv' /\ Keeps
<1>1. Entries' \subseteq Entries /\ \A e \in Entries : e.cancelled \/ e \in Entries'
  BY Scanned, Zenon
<1>2. outstanding' = outstanding /\ preemptionId' = preemptionId
  BY Zenon DEF ScanPort
<1>3. Agree(Entries, outstanding) /\ Entries' \in SUBSET Entries
  BY <1>1, Zenon DEF ClientInv
<1>4. Agree(Entries', outstanding)
  BY <1>1, <1>3, AgreeDrop
<1>5. \A f \in Entries' : f \in Entries
  BY <1>1, Zenon
<1>6. ClientInv'
  BY <1>2, <1>4, <1>5, Zenon DEF ClientInv
<1> QED
  BY <1>5, <1>6, Zenon DEF Keeps

LEMMA ClientStart ==
  ASSUME QueueInv, ClientInv, StartCycle
  PROVE  ClientInv' /\ Keeps
<1>1. Entries' = Entries /\ outstanding' = outstanding /\ savePreemptionId
  BY Started, Zenon DEF StartCycle
<1>2. CASE preemptionId' = preemptionId \/ preemptionId' = NoId
  BY <1>1, <1>2, Zenon DEF ClientInv, Keeps
<1>3. ASSUME NEW p \in Ports, waiting[p] # NoRequest, waiting[p].type = "IFetch",
             preemptionId' = waiting[p].id
      PROVE  ClientInv' /\ Keeps
  <2> DEFINE w == Entry(waiting[p])
  <2>1. w \in PortEntries(requests[p], waiting[p])
    BY <1>3, EntryOf
  <2>2. w \in Entries
    BY <2>1, Zenon DEF Entries
  <2>3. w.id = preemptionId' /\ w.type = "IFetch"
    BY <1>3, EntryFields
  <2> HIDE DEF w
  <2>4. w.client = FetchUnit
    BY <2>2, <2>3, Zenon DEF ClientInv
  <2>5. \A e \in Entries : e.id = w.id => e = w
    BY <2>2, AgreeIs DEF ClientInv
  <2>6. \A e \in Entries : e.id = preemptionId' => e.client = FetchUnit
    BY <2>3, <2>4, <2>5, Zenon
  <2> QED
    BY <1>1, <2>6, Zenon DEF ClientInv, Keeps
<1> QED
  BY <1>1, <1>2, <1>3, Zenon DEF savePreemptionId

\* An empty memory.
LEMMA EmptyPort ==
  ASSUME NEW p, NEW q, NEW w, NEW n, PortInv(p, q, w, n), q = << >>
  PROVE  PortEntries(q, w) = {}
<1>1. Len(q) = 0 /\ Len(q) # QueueSize
  BY MemoryAssumption
<1>2. w = NoRequest
  BY <1>1, Zenon DEF PortInv
<1>3. \A e : e \notin PortEntries(q, w)
  BY <1>1, <1>2, EntryOf
<1> QED
  BY <1>3, Zenon

LEMMA ClientReset ==
  ASSUME reset \/ Init
  PROVE  /\ Init => Entries = {} /\ ClientInv
         /\ reset => Entries' = {} /\ ClientInv' /\ Keeps
<1>1. PortEntries(<< >>, NoRequest) = {}
  <2>1. \A e : e \notin PortEntries(<< >>, NoRequest)
    BY EntryOf
  <2> QED
    BY <2>1, Zenon
<1>2. ASSUME NEW T, T = {}
      PROVE  Agree({}, T)
  <2>1. /\ \A e, f \in {} : e.id = f.id => e = f
        /\ \A o : o \in T <=> \E e \in {} : ~e.cancelled /\ o = Ticket(e)
    BY <1>2, Zenon
  <2> QED
    BY <2>1, AgreeIs
<1>3. ASSUME Init
      PROVE  Entries = {} /\ ClientInv
  <2>1. \A p \in Ports : requests[p] = << >> /\ waiting[p] = NoRequest
    BY <1>3, Zenon DEF Init
  <2>2. Entries = {}
    BY <1>1, <2>1, Zenon DEF Entries
  <2>3. outstanding = {}
    BY <1>3, Zenon DEF Init
  <2> QED
    BY <1>2, <2>2, <2>3, Zenon DEF ClientInv
<1>4. ASSUME reset
      PROVE  Entries' = {} /\ ClientInv' /\ Keeps
  <2>1. \A p \in Ports : requests'[p] = << >> /\ waiting'[p] = NoRequest
    BY <1>4, Zenon DEF reset
  <2>2. Entries' = {}
    BY <1>1, <2>1, Zenon DEF Entries
  <2>3. outstanding' = {}
    BY <1>4, Zenon DEF reset
  <2> QED
    BY <1>2, <2>2, <2>3, Zenon DEF ClientInv, Keeps
<1> QED
  BY <1>3, <1>4, Zenon

-----------------------------------------------------------------------------
(* The steps of Next, by what they do to the clients and to the lock.        *)

Sends(c) == /\ locked => c = locker
            /\ UNCHANGED lockVars /\ queueWasActive' = isActive(requests')
            /\ \A e \in Entries' : e \in Entries \/ e.client = c

Locks == /\ Entries' = Entries /\ UNCHANGED queueWasActive
         /\ \E i \in Lockers : Lock(i) \/ Unlock(i)

Ends == Keeps /\ UNCHANGED <<queueWasActive, lockVars>>

Kinds == Ends \/ Locks \/ (Keeps /\ StartCycle) \/ \E c \in Clients : Sends(c)

LEMMA StepKinds ==
  ASSUME Tidy, MemoryInv, ClientInv, [Next]_vars
  PROVE  ClientInv' /\ Kinds
<1>1. FetchUnit \in Clients /\ FetchPort \in Ports /\ Instrs \subseteq Clients /\ QueueInv
  BY MemoryAssumption DEF Clients, MemoryInv
<1>2. "IFetch" \in Types /\ "Read" \in Types /\ "Write" \in Types
  BY DEF Types
<1>3. ASSUME NEW c \in Clients, NEW type \in Types, NEW s, NEW p \in Ports,
             sendRequest(c, type, s, p), type = "IFetch" => c = FetchUnit
      PROVE  ClientInv' /\ Kinds
  <2>1. ClientInv' /\ \A e \in Entries' : e \in Entries \/ e.client = c
    BY <1>3, ClientSend, Zenon
  <2>2. /\ locked => c = locker
        /\ UNCHANGED lockVars /\ queueWasActive' = isActive(requests')
    BY <1>3, Zenon DEF sendRequest, sendRequestInquire, memLockInquire, updateQueueStatus
  <2> QED
    BY <2>1, <2>2, Zenon DEF Sends, Kinds
<1>4. CASE sendFetchRequest
  BY <1>1, <1>2, <1>3, <1>4, Zenon DEF sendFetchRequest
<1>5. ASSUME NEW i \in Instrs, Load(i) \/ Store(i) PROVE ClientInv' /\ Kinds
  <2>1. i \in Clients /\ "Read" # "IFetch" /\ "Write" # "IFetch"
    BY <1>1
  <2> QED
    BY <1>2, <1>3, <1>5, <2>1, Zenon DEF Load, Store, sendReadRequest, sendWriteRequest
<1>6. ASSUME NEW o \in outstanding, read(o) \/ write(o) PROVE ClientInv' /\ Kinds
  BY <1>6, ClientComplete, Zenon DEF read, write, Kinds, Ends
<1>7. CASE Cancel
  BY <1>7, ClientCancel, Zenon DEF Cancel, cancel, Kinds, Ends
<1>8. ASSUME UNCHANGED <<queueVars, outstanding>>
      PROVE  Entries' = Entries /\ ClientInv' /\ Keeps /\ UNCHANGED queueWasActive
  <2>1. UNCHANGED <<requests, waiting, outstanding, preemptionId, queueWasActive>>
    BY <1>8 DEF queueVars
  <2>2. Entries' = Entries
    BY <2>1, Zenon DEF Entries
  <2> QED
    BY <2>1, <2>2, Zenon DEF ClientInv, Keeps
<1>9. ASSUME NEW i \in Lockers, Lock(i) \/ Unlock(i) PROVE ClientInv' /\ Kinds
  <2>1. UNCHANGED <<queueVars, outstanding>>
    BY <1>9, Zenon DEF Lock, Unlock, allocate_lock, allocate_force_lock, lockAction,
                       deallocate_lock, deallocate_lock_delayed
  <2> QED
    BY <1>8, <1>9, <2>1, Zenon DEF Kinds, Locks
<1>10. CASE StartCycle
  BY <1>1, <1>10, ClientStart, Zenon DEF Kinds
<1>11. ASSUME NEW p \in Ports, ScanPort(p) PROVE ClientInv' /\ Kinds
  BY <1>1, <1>11, ClientScan, Zenon DEF ScanPort, Kinds, Ends
<1>12. CASE reset
  BY <1>12, ClientReset, Zenon DEF reset, Kinds, Ends
<1>13. CASE UNCHANGED vars
  <2>1. UNCHANGED <<queueVars, outstanding>> /\ UNCHANGED lockVars
    BY <1>13 DEF vars
  <2> QED
    BY <1>8, <2>1, Zenon DEF Kinds, Ends
<1> QED
  BY <1>4, <1>5, <1>6, <1>7, <1>9, <1>10, <1>11, <1>12, <1>13, Zenon
    DEF Next, Complete, PreCycle

-----------------------------------------------------------------------------
(* The lock and the activity flag.                                          *)

\* With one port, the queue lockInquire() looks at is the only one there is.
LEMMA LockStepKeeps ==
  ASSUME NPorts = 1, MemoryInv, LockInv, Kinds
  PROVE  LockInv'
<1>1. ASSUME emptyRequests(0) PROVE Entries = {}
  <2>1. \A p \in Ports : p = 0
    BY DEF Ports
  <2>2. \A p \in Ports : requests[p] = << >> /\ PortInv(p, requests[p], waiting[p], requestId)
    BY <1>1, <2>1, Zenon DEF emptyRequests, MemoryInv, QueueInv
  <2>3. \A p \in Ports : PortEntries(requests[p], waiting[p]) = {}
    BY <2>2, EmptyPort
  <2> QED
    BY <2>3, Zenon DEF Entries
<1>2. hold = "free" \/ hold = "exclusive" \/ hold = "forced"
  BY Zenon DEF MemoryInv, FrameInv
<1>3. "free" # "exclusive" /\ "free" # "forced" /\ "exclusive" # "forced"
  OBVIOUS
<1>4. ASSUME Keeps, UNCHANGED <<locked, locker, hold>> PROVE LockInv'
  BY <1>4, Zenon DEF LockInv, Keeps
<1>5. ASSUME ~locked', hold' = "free" PROVE LockInv'
  BY <1>3, <1>5, Zenon DEF LockInv
<1>6. CASE Ends
  BY <1>4, <1>6, Zenon DEF Ends, lockVars
<1>7. CASE Keeps /\ StartCycle
  <2>1. UNCHANGED <<locked, locker, hold>> \/ (~locked' /\ hold' = "free")
    BY <1>7, Zenon DEF StartCycle, checkDelayedUnlock, lockVars
  <2> QED
    BY <1>4, <1>5, <1>7, <2>1, Zenon
<1>8. CASE Locks
  <2>1. PICK i \in Lockers : Lock(i) \/ Unlock(i)
    BY <1>8, Zenon DEF Locks
  <2>2. Entries' = Entries /\ Keeps
    BY <1>8, Zenon DEF Locks, Keeps
  <2>3. CASE locked /\ Lock(i)
    <3>1. locked' /\ locker' = locker /\ hold' = hold
      BY <2>3, Zenon DEF Lock, allocate_lock, allocate_force_lock, lockInquire,
                         memLockInquire, lockAction
    <3> QED
      BY <2>2, <2>3, <3>1, Zenon DEF LockInv
  <2>4. CASE ~locked /\ Lock(i)
    <3>1. locked' /\ (hold' = "forced" \/ (hold' = "exclusive" /\ emptyRequests(0)))
      BY <2>4, Zenon DEF Lock, allocate_lock, allocate_force_lock, lockInquire, lockAction
    <3> QED
      BY <1>1, <1>3, <2>2, <3>1, Zenon DEF LockInv
  <2>5. CASE Unlock(i)
    <3>1. UNCHANGED <<locked, locker, hold>> \/ (~locked' /\ hold' = "free")
      BY <2>5, Zenon DEF Unlock, deallocate_lock, deallocate_lock_delayed, unlockAction
    <3> QED
      BY <1>4, <1>5, <2>2, <3>1, Zenon
  <2> QED
    BY <2>1, <2>3, <2>4, <2>5, Zenon
<1>9. ASSUME NEW c \in Clients, Sends(c) PROVE LockInv'
  <2>1. UNCHANGED <<locked, locker, hold>>
    BY <1>9, Zenon DEF Sends, lockVars
  <2>2. hold = "exclusive" => c = locker
    BY <1>3, <1>9, Zenon DEF LockInv, Sends
  <2> QED
    BY <1>9, <2>1, <2>2, Zenon DEF LockInv, Sends
<1> QED
  BY <1>6, <1>7, <1>8, <1>9, Zenon DEF Kinds

\* Where no queue holds a request there is none on the bus either.
LEMMA QuietStepKeeps ==
  ASSUME MemoryInv, MemoryInv', QuietInv, Kinds
  PROVE  QuietInv'
<1>1. CASE Keeps /\ UNCHANGED queueWasActive
  <2>1. Entries = {} => Entries' = {}
    BY <1>1, Zenon DEF Keeps
  <2> QED
    BY <1>1, <2>1, Zenon DEF QuietInv
<1>2. Locks => Keeps /\ UNCHANGED queueWasActive
  BY Zenon DEF Locks, Keeps
<1>3. Ends => Keeps /\ UNCHANGED queueWasActive
  BY Zenon DEF Ends
<1>4. CASE Keeps /\ StartCycle
  <2> SUFFICES ASSUME ~isActive(requests) PROVE Entries' = {}
    BY <1>4, Zenon DEF QuietInv, StartCycle
  <2>1. \A p \in Ports : requests[p] = << >> /\ PortInv(p, requests[p], waiting[p], requestId)
    BY Zenon DEF isActive, MemoryInv, QueueInv
  <2>2. \A p \in Ports : PortEntries(requests[p], waiting[p]) = {}
    BY <2>1, EmptyPort
  <2>3. Entries = {}
    BY <2>2, Zenon DEF Entries
  <2> QED
    BY <1>4, <2>3, Zenon DEF Keeps
<1>5. ASSUME NEW c \in Clients, Sends(c) PROVE QuietInv'
  <2> SUFFICES ASSUME ~isActive(requests') PROVE Entries' = {}
    BY <1>5, Zenon DEF QuietInv, Sends
  <2>1. \A p \in Ports : requests'[p] = << >> /\ PortInv(p, requests'[p], waiting'[p], requestId')
    BY Zenon DEF isActive, MemoryInv, QueueInv
  <2>2. \A p \in Ports : PortEntries(requests'[p], waiting'[p]) = {}
    BY <2>1, EmptyPort
  <2> QED
    BY <2>2, Zenon DEF Entries
<1> QED
  BY <1>1, <1>2, <1>3, <1>4, <1>5, Zenon DEF Kinds

-----------------------------------------------------------------------------
(* The results.                                                             *)

LEMMA EntriesAre ==
  ASSUME QueueInv
  PROVE  \A e : e \in Entries <=> \E r \in Requests : e = Entry(r)
<1> SUFFICES ASSUME NEW e PROVE e \in Entries <=> \E r \in Requests : e = Entry(r)
  OBVIOUS
<1>1. ASSUME NEW p \in Ports
      PROVE  e \in PortEntries(requests[p], waiting[p]) <=> \E r \in Contents(p) : e = Entry(r)
  <2>1. DOMAIN requests[p] = 1 .. Len(requests[p])
    BY PortInvParts DEF QueueInv
  <2>2. \A r : r \in Contents(p) <=> \/ \E i \in 1 .. Len(requests[p]) : r = requests[p][i]
                                     \/ waiting[p] # NoRequest /\ r = waiting[p]
    BY <2>1, Zenon DEF Contents
  <2> HIDE DEF Contents
  <2>3. e \in PortEntries(requests[p], waiting[p])
          <=> \/ \E i \in 1 .. Len(requests[p]) : e = Entry(requests[p][i])
              \/ waiting[p] # NoRequest /\ e = Entry(waiting[p])
    BY EntryOf
  <2> QED
    BY <2>2, <2>3, Zenon
<1> QED
  BY <1>1, Zenon DEF Entries, Requests

LEMMA ClientInvImplies == MemoryInv /\ ClientInv => ClientsAgree
<1> SUFFICES ASSUME MemoryInv, ClientInv PROVE ClientsAgree
  OBVIOUS
<1>1. \A e : e \in Entries <=> \E r \in Requests : e = Entry(r)
  BY EntriesAre, Zenon DEF MemoryInv
<1>2. \A o : o \in outstanding <=> \E e \in Entries : ~e.cancelled /\ o = Ticket(e)
  BY AgreeIs DEF ClientInv
<1>3. \A r : Entry(r).cancelled = r.cancelled /\ Ticket(Entry(r)) = Ticket(r)
  BY EntryFields
<1>4. ASSUME NEW o
      PROVE  o \in outstanding <=> \E r \in Requests : ~r.cancelled /\ o = Ticket(r)
  <2>1. ASSUME NEW e \in Entries, ~e.cancelled, o = Ticket(e)
        PROVE  \E r \in Requests : ~r.cancelled /\ o = Ticket(r)
    <3>1. PICK r \in Requests : e = Entry(r)
      BY <1>1, <2>1
    <3> QED
      BY <1>3, <2>1, <3>1
  <2>2. ASSUME NEW r \in Requests, ~r.cancelled, o = Ticket(r)
        PROVE  \E e \in Entries : ~e.cancelled /\ o = Ticket(e)
    <3>1. Entry(r) \in Entries
      BY <1>1
    <3> QED
      BY <1>3, <2>2, <3>1
  <2> QED
    BY <1>2, <2>1, <2>2
<1>5. ASSUME NEW o
      PROVE  o \in outstanding <=> o \in {Ticket(r) : r \in {x \in Requests : ~x.cancelled}}
  BY <1>4, Zenon
<1> QED
  BY <1>5, Zenon DEF ClientsAgree

LEMMA LockInvImplies == MemoryInv /\ LockInv => LockExcludesOthers
<1> SUFFICES ASSUME MemoryInv, LockInv, hold = "exclusive", NEW r \in Requests
             PROVE  r.client = locker
  BY Zenon DEF LockExcludesOthers
<1>1. Entry(r) \in Entries
  BY EntriesAre, Zenon DEF MemoryInv
<1>2. Entry(r).client = r.client
  BY EntryFields
<1> QED
  BY <1>1, <1>2, Zenon DEF LockInv

LEMMA QuietInvImplies == MemoryInv /\ QuietInv => InactiveIsQuiet
<1> SUFFICES ASSUME MemoryInv, QuietInv, ~queueWasActive, NEW p \in Ports
             PROVE  emptyRequests(p)
  BY Zenon DEF InactiveIsQuiet
<1>1. \A e : e \notin PortEntries(requests[p], waiting[p])
  BY Zenon DEF QuietInv, Entries
<1>2. waiting[p] = NoRequest
  <2>1. waiting[p] # NoRequest => Entry(waiting[p]) \in PortEntries(requests[p], waiting[p])
    BY EntryOf
  <2> QED
    BY <1>1, <2>1, Zenon
<1>3. requests[p] \in Seq(Request)
  BY PortInvParts DEF MemoryInv, QueueInv
<1>4. \A i \in 1 .. Len(requests[p]) :
        Entry(requests[p][i]) \in PortEntries(requests[p], waiting[p])
  BY EntryOf
<1>5. ~(1 \in 1 .. Len(requests[p]))
  BY <1>1, <1>4, Zenon
<1>6. requests[p] = << >>
  BY <1>3, <1>5
<1> QED
  BY <1>2, <1>6, Zenon DEF emptyRequests

LEMMA ClientsInit == Init => ClientInv /\ LockInv /\ QuietInv
<1> SUFFICES ASSUME Init PROVE ClientInv /\ LockInv /\ QuietInv
  OBVIOUS
<1>1. Entries = {} /\ ClientInv
  BY ClientReset, Zenon
<1>2. locked = FALSE /\ hold = "free"
  BY Zenon DEF Init
<1>3. LockInv
  BY <1>2 DEF LockInv
<1> QED
  BY <1>1, <1>3, Zenon DEF QuietInv

LEMMA ClientsStep ==
  ASSUME Tidy
  PROVE  MemoryInv /\ ClientInv /\ QuietInv /\ [Next]_vars
           => MemoryInv' /\ ClientInv' /\ QuietInv'
<1> SUFFICES ASSUME MemoryInv, ClientInv, QuietInv, [Next]_vars
             PROVE  MemoryInv' /\ ClientInv' /\ QuietInv'
  OBVIOUS
<1>1. MemoryInv'
  BY MemoryInvStep, Zenon
<1>2. ClientInv' /\ Kinds
  BY StepKinds, Zenon
<1> QED
  BY <1>1, <1>2, QuietStepKeeps, Zenon

LEMMA ClientsInvariance ==
  ASSUME Tidy
  PROVE  Spec => [](MemoryInv /\ ClientInv /\ QuietInv)
<1>1. Init => MemoryInv /\ ClientInv /\ QuietInv
  BY MemoryInvInit, ClientsInit, Zenon
<1>2. MemoryInv /\ ClientInv /\ QuietInv /\ [Next]_vars
        => MemoryInv' /\ ClientInv' /\ QuietInv'
  BY ClientsStep
<1> QED
  BY <1>1, <1>2, PTL DEF Spec

\* Memory and clients agree on the requests under way: sends, reads, writes,
\* deep and shallow cancels, preemptions, the clean-up of preCycle() and resets,
\* in whatever order, lose none and leave no client waiting for one that is gone.
THEOREM ClientsAgreeCorrect == Tidy => (Spec => []ClientsAgree)
<1>1. ASSUME Tidy PROVE Spec => []ClientsAgree
  BY <1>1, ClientsInvariance, ClientInvImplies, PTL
<1> QED
  BY <1>1

\* A memory that calls itself inactive holds no request, in a queue or on the
\* bus, at any port: what is_inactive() promises.
THEOREM InactiveIsQuietCorrect == Tidy => (Spec => []InactiveIsQuiet)
<1>1. ASSUME Tidy PROVE Spec => []InactiveIsQuiet
  BY <1>1, ClientsInvariance, QuietInvImplies, PTL
<1> QED
  BY <1>1

\* In a memory with one port, a lock obtained through can_lock() excludes the
\* others for as long as it is held: every request is the holder's. lockInquire()
\* looks at port 0 only, so more ports are not covered.
THEOREM LockExcludesOthersCorrect == NPorts = 1 => (Spec => []LockExcludesOthers)
<1>1. ASSUME NPorts = 1
      PROVE  MemoryInv /\ ClientInv /\ QuietInv /\ LockInv /\ [Next]_vars => LockInv'
  <2>1. Tidy
    BY <1>1, Zenon DEF Tidy
  <2> QED
    BY <1>1, <2>1, StepKinds, LockStepKeeps, Zenon
<1>2. ASSUME NPorts = 1 PROVE Spec => []LockExcludesOthers
  <2>1. Tidy
    BY <1>2, Zenon DEF Tidy
  <2>2. Init => LockInv
    BY ClientsInit, Zenon
  <2> QED
    BY <1>1, <1>2, <2>1, <2>2, ClientsInvariance, LockInvImplies, PTL DEF Spec
<1> QED
  BY <1>2

=============================================================================
