--------------------------- MODULE UadlMemoryQueues ---------------------------
(***************************************************************************)
(* What the operations of UadlMemory do to one port: the order of its      *)
(* queue, and the request that waits behind it.                            *)
(***************************************************************************)
EXTENDS UadlMemory, TLAPS

\* What holds of the queue q and the bus-waiting slot w of port p when n is the
\* next request id.
PortInv(p, q, w, n) ==
  /\ q \in Seq(Request) /\ Len(q) <= QueueSize
  /\ \A i \in 1 .. Len(q) : q[i].port = p /\ q[i].id < n
  /\ \A i, j \in 1 .. Len(q) : i < j => q[i].id < q[j].id
  /\ w \in Request \cup {NoRequest}
  /\ w # NoRequest => /\ w.port = p /\ w.id < n
                      /\ Len(q) = QueueSize
                      /\ \A i \in 1 .. Len(q) : q[i].id < w.id

-----------------------------------------------------------------------------
(* Queue operations keep PortInv. *)

AddTo(q, w) == IF w = NoRequest THEN q ELSE push_back(q, w)

\* erase() of an element shifts the later ones down by one.
LEMMA EraseElements ==
  ASSUME NEW S, NEW q \in Seq(S), NEW k \in 1 .. Len(q)
  PROVE  /\ erase(q, k) \in Seq(S)
         /\ Len(erase(q, k)) = Len(q) - 1
         /\ \A i \in 1 .. Len(q) - 1 :
              erase(q, k)[i] = IF i < k THEN q[i] ELSE q[i + 1]
<1>1. PICK n \in Nat : n = Len(q) - 1
  OBVIOUS
<1>2. \A i \in 1 .. n : i \in 1 .. Len(q) /\ i + 1 \in 1 .. Len(q)
  BY <1>1
<1>3. \A i \in 1 .. Len(q) : q[i] \in S
  OBVIOUS
<1>4. erase(q, k) = [i \in 1 .. n |-> IF i < k THEN q[i] ELSE q[i + 1]]
  BY <1>1, Zenon DEF erase
<1>5. erase(q, k) \in [1 .. n -> S]
  BY <1>2, <1>3, <1>4, Zenon
<1>6. \A s \in [1 .. n -> S] : s \in Seq(S) /\ Len(s) = n
  OBVIOUS
<1> QED
  BY <1>1, <1>4, <1>5, <1>6, Zenon

LEMMA QueueSizeType == QueueSize \in Nat \ {0}
  BY MemoryAssumption, Zenon

\* The conjuncts of PortInv, for use one at a time.
LEMMA PortInvParts ==
  ASSUME NEW p, NEW q, NEW w, NEW n, PortInv(p, q, w, n)
  PROVE  /\ q \in Seq(Request) /\ Len(q) \in Nat /\ Len(q) <= QueueSize
         /\ \A i \in 1 .. Len(q) : q[i] \in Request
         /\ \A i \in 1 .. Len(q) : q[i].port = p /\ q[i].id < n
         /\ \A i, j \in 1 .. Len(q) : i < j => q[i].id < q[j].id
  BY DEF PortInv

LEMMA PortInvOf ==
  ASSUME NEW p, NEW s, NEW n, s \in Seq(Request), Len(s) <= QueueSize,
         \A i \in 1 .. Len(s) : s[i].port = p /\ s[i].id < n,
         \A i, j \in 1 .. Len(s) : i < j => s[i].id < s[j].id
  PROVE  PortInv(p, s, NoRequest, n)
  BY Zenon DEF PortInv

LEMMA AppendElements ==
  ASSUME NEW S, NEW s \in Seq(S), NEW w \in S
  PROVE  /\ Append(s, w) \in Seq(S) /\ Len(Append(s, w)) = Len(s) + 1
         /\ Append(s, w)[Len(s) + 1] = w
         /\ \A i \in 1 .. Len(s) : Append(s, w)[i] = s[i]
  OBVIOUS

LEMMA AddToKeeps ==
  ASSUME NEW p, NEW s, NEW w, NEW n, PortInv(p, s, NoRequest, n),
         Len(s) < QueueSize,
         w # NoRequest => /\ w \in Request /\ w.port = p /\ w.id < n
                          /\ \A i \in 1 .. Len(s) : s[i].id < w.id
  PROVE  PortInv(p, AddTo(s, w), NoRequest, n)
<1>1. CASE w = NoRequest
  BY <1>1, Zenon DEF AddTo
<1>2. CASE w # NoRequest
  <2> DEFINE t == Append(s, w)
  <2>1. /\ w \in Request /\ w.port = p /\ w.id < n
        /\ \A i \in 1 .. Len(s) : s[i].id < w.id
    BY <1>2
  <2>2. s \in Seq(Request) /\ Len(s) \in Nat
    BY PortInvParts
  <2>3. AddTo(s, w) = t
    BY <1>2, <2>2, QueueSizeType DEF AddTo, push_back
  <2>4. /\ t \in Seq(Request) /\ Len(t) = Len(s) + 1 /\ t[Len(s) + 1] = w
        /\ \A i \in 1 .. Len(s) : t[i] = s[i]
    <3>1. s \in Seq(Request) /\ w \in Request
      BY <2>1, <2>2, Zenon
    <3> QED
      BY <3>1, AppendElements
  <2> SUFFICES PortInv(p, t, NoRequest, n)
    BY <2>3, Zenon
  <2> HIDE DEF t
  <2>5. \A i \in 1 .. Len(t) : t[i].port = p /\ t[i].id < n
    <3>1. \A i \in 1 .. Len(s) : s[i].port = p /\ s[i].id < n
      BY PortInvParts, Zenon
    <3> QED
      BY <2>1, <2>2, <2>4, <3>1
  <2>6. ASSUME NEW i \in 1 .. Len(t), NEW j \in 1 .. Len(t), i < j
        PROVE  t[i].id < t[j].id
    <3>1. i \in 1 .. Len(s) /\ (j \in 1 .. Len(s) \/ j = Len(s) + 1)
      BY <2>2, <2>4, <2>6
    <3>2. CASE j \in 1 .. Len(s)
      <4>1. s[i].id < s[j].id
        BY <2>6, <3>1, <3>2, PortInvParts
      <4> QED
        BY <2>4, <3>1, <3>2, <4>1
    <3>3. CASE j = Len(s) + 1
      BY <2>1, <2>4, <3>1, <3>3
    <3> QED
      BY <3>1, <3>2, <3>3, Zenon
  <2>7. Len(t) <= QueueSize
    BY <2>2, <2>4, QueueSizeType
  <2> QED
    BY <2>4, <2>5, <2>6, <2>7, PortInvOf
<1> QED
  BY <1>1, <1>2

\* A queue s with ids and ports of q in the order of q, f naming the places they
\* had in q, is in order too, and before the request that waits.
LEMMA Subqueue ==
  ASSUME NEW p, NEW q, NEW w, NEW n, PortInv(p, q, w, n),
         NEW s, s \in Seq(Request), Len(s) <= Len(q),
         NEW f \in [1 .. Len(s) -> 1 .. Len(q)],
         \A i, j \in 1 .. Len(s) : i < j => f[i] < f[j],
         \A i \in 1 .. Len(s) : s[i].id = q[f[i]].id /\ s[i].port = q[f[i]].port
  PROVE  /\ PortInv(p, s, NoRequest, n)
         /\ w # NoRequest => /\ w \in Request /\ w.port = p /\ w.id < n
                             /\ \A i \in 1 .. Len(s) : s[i].id < w.id
<1>1. \A i \in 1 .. Len(s) : f[i] \in 1 .. Len(q)
  BY Zenon
<1>2. \A i \in 1 .. Len(s) : s[i].port = p /\ s[i].id < n
  BY <1>1, PortInvParts
<1>3. ASSUME NEW i \in 1 .. Len(s), NEW j \in 1 .. Len(s), i < j
      PROVE  s[i].id < s[j].id
  <2>1. f[i] \in 1 .. Len(q) /\ f[j] \in 1 .. Len(q) /\ f[i] < f[j]
    BY <1>1, <1>3, Zenon
  <2>2. q[f[i]].id < q[f[j]].id
    BY <2>1, PortInvParts, Zenon
  <2> QED
    BY <2>2, Zenon
<1>4. Len(s) <= QueueSize
  <2>1. Len(s) \in Nat /\ Len(q) \in Nat /\ Len(q) <= QueueSize
    BY PortInvParts
  <2> QED
    BY <2>1, QueueSizeType
<1>5. PortInv(p, s, NoRequest, n)
  BY <1>2, <1>3, <1>4, PortInvOf, Zenon
<1>6. ASSUME w # NoRequest
      PROVE  /\ w \in Request /\ w.port = p /\ w.id < n
             /\ \A i \in 1 .. Len(s) : s[i].id < w.id
  <2>1. /\ w \in Request /\ w.port = p /\ w.id < n
        /\ \A i \in 1 .. Len(q) : q[i].id < w.id
    BY <1>6, Zenon DEF PortInv
  <2> QED
    BY <1>1, <2>1, Zenon
<1> QED
  BY <1>5, <1>6

\* Taking a request out and letting the waiting one in.
LEMMA RemovalKeeps ==
  ASSUME NEW p, NEW q, NEW w, NEW n, PortInv(p, q, w, n),
         NEW s, s \in Seq(Request), Len(s) < Len(q),
         NEW f \in [1 .. Len(s) -> 1 .. Len(q)],
         \A i, j \in 1 .. Len(s) : i < j => f[i] < f[j],
         \A i \in 1 .. Len(s) : s[i] = q[f[i]]
  PROVE  PortInv(p, AddTo(s, w), NoRequest, n)
<1>1. Len(s) < Len(q) /\ Len(s) <= Len(q) /\ Len(s) < QueueSize
  <2>1. Len(s) \in Nat /\ Len(q) \in Nat /\ Len(q) <= QueueSize
    BY PortInvParts
  <2> QED
    BY <2>1, QueueSizeType
<1>2. \A i \in 1 .. Len(s) : s[i].id = q[f[i]].id /\ s[i].port = q[f[i]].port
  BY Zenon
<1>3. /\ PortInv(p, s, NoRequest, n)
      /\ w # NoRequest => /\ w \in Request /\ w.port = p /\ w.id < n
                          /\ \A i \in 1 .. Len(s) : s[i].id < w.id
  BY <1>1, <1>2, Subqueue
<1> QED
  BY <1>1, <1>3, AddToKeeps, Zenon

LEMMA DropKeeps ==
  ASSUME NEW p, NEW q, NEW w, NEW n, PortInv(p, q, w, n),
         NEW m \in 1 .. Len(q)
  PROVE  PortInv(p, AddTo(SubSeq(q, m + 1, Len(q)), w), NoRequest, n)
<1> DEFINE s == SubSeq(q, m + 1, Len(q))
           f == [i \in 1 .. Len(s) |-> m + i]
<1>1. q \in Seq(Request) /\ Len(q) \in Nat /\ m \in Nat /\ m >= 1
  BY PortInvParts
<1>2. s \in Seq(Request) /\ Len(s) = Len(q) - m
        /\ \A i \in 1 .. Len(s) : s[i] = q[m + i]
  BY <1>1
<1> SUFFICES PortInv(p, AddTo(s, w), NoRequest, n)
  OBVIOUS
<1> HIDE DEF s
<1>3. Len(s) < Len(q)
  BY <1>1, <1>2
<1>4. f \in [1 .. Len(s) -> 1 .. Len(q)]
  BY <1>1, <1>2
<1>5. \A i, j \in 1 .. Len(s) : i < j => f[i] < f[j]
  BY <1>1, <1>2
<1>6. \A i \in 1 .. Len(s) : s[i] = q[f[i]]
  BY <1>2
<1>7. s \in Seq(Request)
  BY <1>2
<1> HIDE DEF f
<1> QED
  BY <1>3, <1>4, <1>5, <1>6, <1>7, RemovalKeeps, Zenon

LEMMA EraseKeeps ==
  ASSUME NEW p, NEW q, NEW w, NEW n, PortInv(p, q, w, n),
         NEW k \in 1 .. Len(q)
  PROVE  PortInv(p, AddTo(erase(q, k), w), NoRequest, n)
<1> DEFINE s == erase(q, k)
           f == [i \in 1 .. Len(s) |-> IF i < k THEN i ELSE i + 1]
<1>1. q \in Seq(Request) /\ Len(q) \in Nat /\ k \in Nat
  BY PortInvParts
<1>2. s \in Seq(Request) /\ Len(s) = Len(q) - 1
        /\ \A i \in 1 .. Len(q) - 1 : s[i] = IF i < k THEN q[i] ELSE q[i + 1]
  BY <1>1, EraseElements
<1> SUFFICES PortInv(p, AddTo(s, w), NoRequest, n)
  OBVIOUS
<1> HIDE DEF s
<1>3. f \in [1 .. Len(s) -> 1 .. Len(q)]
  BY <1>1, <1>2
<1>4. \A i, j \in 1 .. Len(s) : i < j => f[i] < f[j]
  BY <1>1, <1>2
<1>5. \A i \in 1 .. Len(s) : s[i] = q[f[i]]
  BY <1>2
<1>6. s \in Seq(Request) /\ Len(s) < Len(q)
  BY <1>1, <1>2
<1> HIDE DEF f
<1> QED
  BY <1>3, <1>4, <1>5, <1>6, RemovalKeeps

\* Updates that leave ids and ports alone: aging, expiry, marking as cancelled.
LEMMA MapKeeps ==
  ASSUME NEW p, NEW q, NEW w, NEW n, PortInv(p, q, w, n),
         NEW s, s \in Seq(Request), Len(s) = Len(q),
         \A i \in 1 .. Len(q) : s[i].id = q[i].id /\ s[i].port = q[i].port,
         NEW v,
         v # NoRequest => /\ v \in Request /\ w # NoRequest
                          /\ v.id = w.id /\ v.port = w.port
  PROVE  PortInv(p, s, v, n)
<1>0. /\ Len(q) <= QueueSize
      /\ \A i \in 1 .. Len(q) : q[i].port = p /\ q[i].id < n
      /\ \A i, j \in 1 .. Len(q) : i < j => q[i].id < q[j].id
  BY PortInvParts
<1>1. /\ Len(s) <= QueueSize
      /\ \A i \in 1 .. Len(s) : s[i].port = p /\ s[i].id < n
      /\ \A i, j \in 1 .. Len(s) : i < j => s[i].id < s[j].id
  BY <1>0
<1>2. v \in Request \cup {NoRequest}
  BY Zenon
<1>3. ASSUME v # NoRequest
      PROVE  /\ v.port = p /\ v.id < n /\ Len(s) = QueueSize
             /\ \A i \in 1 .. Len(s) : s[i].id < v.id
  BY <1>3 DEF PortInv
<1> QED
  BY <1>1, <1>2, <1>3 DEF PortInv

LEMMA LaterId ==
  ASSUME NEW p, NEW q, NEW w, NEW n \in Nat, PortInv(p, q, w, n)
  PROVE  PortInv(p, q, w, n + 1)
<1>1. \A r \in Request : r.id \in Nat
  BY DEF Request
<1>2. \A i \in 1 .. Len(q) : q[i].port = p /\ q[i].id < n + 1
  BY <1>1, PortInvParts
<1>3. w # NoRequest => w.id < n + 1
  BY <1>1 DEF PortInv
<1> QED
  BY <1>2, <1>3 DEF PortInv

\* A new request, with id n: at the end of the queue, in place of the last
\* request, or on the bus.
LEMMA NewKeeps ==
  ASSUME NEW p, NEW q, NEW w, NEW n \in Nat, PortInv(p, q, w, n),
         NEW r \in Request, r.id = n, r.port = p
  PROVE  /\ Len(q) # QueueSize => PortInv(p, push_back(q, r), w, n + 1)
         /\ Len(q) = QueueSize => PortInv(p, q, r, n + 1)
         /\ (Len(q) = QueueSize /\ w = NoRequest)
              => PortInv(p, [q EXCEPT ![Len(q)] = r], w, n + 1)
<1>1. r # NoRequest
  BY NoRequestAssumption, Zenon
<1>2. /\ q \in Seq(Request) /\ Len(q) \in Nat /\ Len(q) <= QueueSize
      /\ PortInv(p, q, w, n + 1)
  BY PortInvParts, LaterId
<1>3. \A i \in 1 .. Len(q) : q[i].id < r.id
  BY PortInvParts
<1>4. r.id < n + 1
  OBVIOUS
<1>5. ASSUME Len(q) # QueueSize PROVE PortInv(p, push_back(q, r), w, n + 1)
  <2>1. w = NoRequest
    BY <1>5 DEF PortInv
  <2>2. Len(q) < QueueSize
    BY <1>2, <1>5, QueueSizeType
  <2>3. PortInv(p, AddTo(q, r), NoRequest, n + 1)
    BY <1>2, <1>3, <1>4, <2>1, <2>2, AddToKeeps
  <2> QED
    BY <1>1, <2>1, <2>3 DEF AddTo
<1>6. ASSUME Len(q) = QueueSize PROVE PortInv(p, q, r, n + 1)
  BY <1>2, <1>3, <1>4, <1>6 DEF PortInv
<1>7. ASSUME Len(q) = QueueSize, w = NoRequest
      PROVE  PortInv(p, [q EXCEPT ![Len(q)] = r], w, n + 1)
  <2> DEFINE s == [q EXCEPT ![Len(q)] = r]
  <2>1. Len(q) >= 1
    BY <1>7, QueueSizeType
  <2>2. /\ s \in Seq(Request) /\ Len(s) = Len(q) /\ s[Len(q)] = r
        /\ \A i \in 1 .. Len(q) - 1 : s[i] = q[i]
    BY <1>2, <2>1
  <2> HIDE DEF s
  <2>3. \A i \in 1 .. Len(s) : s[i].port = p /\ s[i].id < n + 1
    <3>1. \A i \in 1 .. Len(q) : q[i].port = p /\ q[i].id < n + 1
      BY <1>2, PortInvParts
    <3> QED
      BY <1>2, <1>4, <2>2, <3>1
  <2>4. ASSUME NEW i \in 1 .. Len(s), NEW j \in 1 .. Len(s), i < j
        PROVE  s[i].id < s[j].id
    <3>1. i \in 1 .. Len(q) - 1 /\ (j \in 1 .. Len(q) - 1 \/ j = Len(q))
      BY <1>2, <2>2, <2>4
    <3>2. CASE j \in 1 .. Len(q) - 1
      <4>1. i \in 1 .. Len(q) /\ j \in 1 .. Len(q)
        BY <1>2, <3>1, <3>2
      <4>2. q[i].id < q[j].id
        BY <2>4, <4>1, PortInvParts
      <4> QED
        BY <2>2, <3>1, <3>2, <4>2
    <3>3. CASE j = Len(q)
      <4>1. i \in 1 .. Len(q)
        BY <1>2, <3>1
      <4> QED
        BY <1>3, <2>2, <3>1, <3>3, <4>1
    <3> QED
      BY <3>1, <3>2, <3>3
  <2>5. PortInv(p, s, NoRequest, n + 1)
    BY <1>2, <2>2, <2>3, <2>4, PortInvOf
  <2> QED
    BY <1>7, <2>5 DEF s
<1> QED
  BY <1>5, <1>6, <1>7, Zenon

=============================================================================
