------------------------ MODULE MergedLoggingProofs -------------------------
(***************************************************************************)
(* Proofs about MergedLogging for any number of cores, instructions and    *)
(* events.                                                                 *)
(*                                                                         *)
(* The inductive invariant says of each core where in its queue every      *)
(* instruction begins that the clients have not received yet, of the scan  *)
(* what the loggers that were asked had, and of the end that the queues    *)
(* are empty once an empty scan has begun after the cores had stopped.     *)
(***************************************************************************)
EXTENDS MergedLogging, WellFoundedInduction, TLAPS

\* The first n events of core c's k-th instruction.
Instr(c, k, n) == [j \in 1 .. n |-> <<c, k, j>>]

\* What the core threads have logged, and what the I/O thread has gathered.
LoggedInv(c) ==
    /\ \A k \in 1 .. Len(logged[c]) : logged[c][k] = Instr(c, k, Len(logged[c][k]))
    /\ current[c] = Instr(c, Len(logged[c]) + 1, Len(current[c]))

PendingInv(c) ==
    /\ pending[c] = Instr(c, written[c] + 1, Len(pending[c]))
    /\ pending_ts[c] > 0 => /\ written[c] < Len(logged[c])
                            /\ pending[c] = logged[c][written[c] + 1]

\* The instruction at the front of c's queue, and how many of its events have left; the
\* instruction that is executing, and how many events each one has so far.
Oldest(c) == IF pending_ts[c] > 0 THEN written[c] + 2 ELSE written[c] + 1
Gone(c) == IF pending_ts[c] > 0 THEN 0 ELSE Len(pending[c])
Newest(c) == Len(logged[c]) + 1
Sizes(c) == [k \in 1 .. Newest(c) |-> IF k = Newest(c) THEN Len(current[c]) ELSE Len(logged[c][k])]

\* Instructions a to z of core c lie in the queue q one after the other, a commit between two:
\* instruction k, of s[k] events, begins at position f[k].  Of the first, g events have left.
EventObject(c, k, n) == [ts |-> 0, event |-> <<c, k, n>>]
Lies(c, a, z, g, s, q, f) ==
    /\ f[a] = 1 - g
    /\ f[z] + s[z] = Len(q) + 1
    /\ \A k \in a .. z - 1 : f[k + 1] = f[k] + s[k] + 1
    /\ \A k \in a + 1 .. z : f[k] >= 2
    /\ \A j, k \in a .. z : j < k => f[j] < f[k]
    /\ \A k \in a .. z : \A n \in 1 .. s[k] :
          f[k] + n >= 2 => q[f[k] + n - 1] = EventObject(c, k, n)
    /\ \A k \in a + 1 .. z : IsCommit(q[f[k] - 1])

Places(g, q) == 1 - g .. Len(q) + 1
QueueInv(c) ==
    /\ Oldest(c) <= Newest(c)
    /\ \E f \in [Oldest(c) .. Newest(c) -> Places(Gone(c), queue[c])] :
          Lies(c, Oldest(c), Newest(c), Gone(c), Sizes(c), queue[c], f)

StreamInv == \A c \in Core : LoggedInv(c) /\ PendingInv(c) /\ QueueInv(c)

\* The scan has asked the loggers below io.i: what they have is pending, the best of it is
\* at min_index.  What the others had when it began they still have.
ScanInv ==
    /\ io.min_index = 0 => io.min_ts = 0 /\ \A c \in Core : c < io.i => pending_ts[c] = 0
    /\ io.min_index > 0 => /\ io.min_index < io.i
                           /\ io.min_ts > 0
                           /\ pending_ts[io.min_index] = io.min_ts
    /\ \A c \in Core : c < io.i /\ pending_ts[c] > 0 => io.min_ts <= pending_ts[c]
    /\ io.i > 1 => \A c \in Core :
          ready[c] > 0 => IF c < io.i THEN pending_ts[c] = ready[c] ELSE Available(c) = ready[c]

\* A scan that began after the cores had stopped leaves no queue it has asked for half full.
DrainInv ==
    /\ done => \A c \in Core : stamp[c] = 0
    /\ io.last => done
    /\ io.last => \A c \in Core : c < io.i /\ pending_ts[c] = 0 => queue[c] = << >>
    /\ io.pc = "stopped" => done /\ \A c \in Core : pending_ts[c] = 0 /\ queue[c] = << >>

Inv == TypeOK /\ StreamInv /\ ScanInv /\ DrainInv

-----------------------------------------------------------------------------
(* Natural numbers and commits                                              *)

LEMMA Least ==
    ASSUME NEW S \in SUBSET Nat, S # {}
    PROVE  \E x \in S : \A y \in S : x <= y
<1>1. PICK x \in S : \A y \in S : <<y, x>> \notin OpToRel(<, Nat)
  BY NatLessThanWellFounded, WFMin, Zenon
<1>2. \A y \in S : ~(y < x)
  BY <1>1, Zenon DEF OpToRel
<1> QED
  BY <1>2

LEMMA FirstCommitIs ==
    ASSUME NEW q \in Seq(Object)
    PROVE  \/ FirstCommit(q) = 0 /\ \A i \in 1 .. Len(q) : ~IsCommit(q[i])
           \/ /\ FirstCommit(q) \in 1 .. Len(q) /\ IsCommit(q[FirstCommit(q)])
              /\ \A i \in 1 .. FirstCommit(q) - 1 : ~IsCommit(q[i])
<1> DEFINE I == {i \in 1 .. Len(q) : IsCommit(q[i])}
<1>1. FirstCommit(q) = IF I # {} THEN Min(I) ELSE 0
  BY DEF FirstCommit
<1>2. CASE I = {}
  BY <1>1, <1>2
<1>3. CASE I # {}
  <2>0. I \in SUBSET Nat
    OBVIOUS
  <2> HIDE DEF I
  <2>1. \E x \in I : \A y \in I : x <= y
    BY <1>3, <2>0, Least
  <2>2. Min(I) \in I /\ \A y \in I : Min(I) <= y
    BY <2>1, Zenon DEF Min
  <2>3. FirstCommit(q) \in I /\ \A y \in I : FirstCommit(q) <= y
    BY <1>1, <1>3, <2>2
  <2> QED
    BY <2>3 DEF I
<1> QED
  BY <1>2, <1>3

LEMMA FirstCommitAt ==
    ASSUME NEW q \in Seq(Object), NEW n \in 1 .. Len(q), IsCommit(q[n]),
           \A i \in 1 .. n - 1 : ~IsCommit(q[i])
    PROVE  FirstCommit(q) = n
<1>1. FirstCommit(q) # 0 /\ FirstCommit(q) \in 1 .. Len(q)
  BY FirstCommitIs
<1>2. ~(n < FirstCommit(q))
  BY <1>1, FirstCommitIs
<1>3. ~(FirstCommit(q) < n)
  BY <1>1, FirstCommitIs
<1> QED
  BY <1>1, <1>2, <1>3

\* A queue that grows at its end keeps its first commit.
LEMMA FirstCommitStays ==
    ASSUME NEW q \in Seq(Object), NEW obj \in Object, FirstCommit(q) # 0
    PROVE  /\ FirstCommit(Append(q, obj)) = FirstCommit(q)
           /\ Append(q, obj)[FirstCommit(q)] = q[FirstCommit(q)]
<1> DEFINE r == Append(q, obj)
           n == FirstCommit(q)
<1>1. n \in 1 .. Len(q) /\ IsCommit(q[n]) /\ \A i \in 1 .. n - 1 : ~IsCommit(q[i])
  BY FirstCommitIs
<1>2. r \in Seq(Object) /\ Len(r) = Len(q) + 1 /\ \A i \in 1 .. Len(q) : r[i] = q[i]
  OBVIOUS
<1> HIDE DEF r, n
<1>3. n \in 1 .. Len(r) /\ IsCommit(r[n]) /\ \A i \in 1 .. n - 1 : ~IsCommit(r[i])
  BY <1>1, <1>2
<1>4. FirstCommit(r) = n
  BY <1>2, <1>3, FirstCommitAt
<1> QED
  BY <1>1, <1>2, <1>4 DEF r, n

\* The events before the first commit are events.
LEMMA EventsBefore ==
    ASSUME NEW q \in Seq(Object), NEW n \in 0 .. Len(q), \A i \in 1 .. n : ~IsCommit(q[i])
    PROVE  /\ Events(SubSeq(q, 1, n)) \in Seq(Event)
           /\ Len(Events(SubSeq(q, 1, n))) = n
           /\ \A i \in 1 .. n : Events(SubSeq(q, 1, n))[i] = q[i].event
<1> DEFINE r == SubSeq(q, 1, n)
<1>1. r \in Seq(Object) /\ Len(r) = n /\ \A i \in 1 .. n : r[i] = q[i]
  OBVIOUS
<1> HIDE DEF r
<1>2. \A i \in 1 .. n : q[i] \in Object /\ q[i].event \in Event
  BY DEF IsCommit, Object
<1>3. Events(r) = [i \in 1 .. n |-> r[i].event]
  BY <1>1 DEF Events
<1>4. Events(r) \in [1 .. n -> Event]
  BY <1>1, <1>2, <1>3
<1>5. \A t \in [1 .. n -> Event] : t \in Seq(Event) /\ Len(t) = n
  OBVIOUS
<1>6. \A i \in 1 .. n : Events(r)[i] = q[i].event
  BY <1>1, <1>3, Zenon
<1> QED
  BY <1>4, <1>5, <1>6, Zenon DEF r

\* What handleMergedLogging leaves in a logger that had nothing pending: it takes what lies
\* before the first commit, and the commit.
Before(q) == IF FirstCommit(q) = 0 THEN Len(q) ELSE FirstCommit(q) - 1
Rest(q) == SubSeq(q, (IF FirstCommit(q) = 0 THEN Len(q) ELSE FirstCommit(q)) + 1, Len(q))

LEMMA BeforeIs ==
    ASSUME NEW q \in Seq(Object)
    PROVE  /\ Before(q) \in 0 .. Len(q) /\ \A i \in 1 .. Before(q) : ~IsCommit(q[i])
           /\ FirstCommit(q) \in Nat
           /\ FirstCommit(q) # 0 => FirstCommit(q) \in 1 .. Len(q) /\ IsCommit(q[FirstCommit(q)])
           /\ Rest(q) \in Seq(Object)
<1>1. /\ Before(q) \in 0 .. Len(q) /\ \A i \in 1 .. Before(q) : ~IsCommit(q[i])
      /\ FirstCommit(q) \in 0 .. Len(q)
      /\ FirstCommit(q) # 0 => FirstCommit(q) \in 1 .. Len(q) /\ IsCommit(q[FirstCommit(q)])
  BY FirstCommitIs DEF Before
<1>2. CASE FirstCommit(q) = 0
  BY <1>1, <1>2 DEF Rest
<1>3. CASE FirstCommit(q) # 0
  BY <1>1, <1>3 DEF Rest
<1> QED
  BY <1>1, <1>2, <1>3

LEMMA TakenInstr ==
    ASSUME TypeOK, NEW c \in Core, TakeInstr(c), pending_ts[c] = 0
    PROVE  /\ queue' = [queue EXCEPT ![c] = Rest(queue[c])]
           /\ pending' = [pending EXCEPT
                  ![c] = pending[c] \o Events(SubSeq(queue[c], 1, Before(queue[c])))]
           /\ pending_ts' = [pending_ts EXCEPT ![c] =
                  IF FirstCommit(queue[c]) = 0 THEN 0 ELSE queue[c][FirstCommit(queue[c])].ts]
<1>1. ~(pending_ts[c] > 0)
  OBVIOUS
<1>2. c \in DOMAIN queue /\ c \in DOMAIN pending
  BY DEF TypeOK
<1>3. CASE FirstCommit(queue[c]) = 0
  BY <1>1, <1>2, <1>3, Zenon DEF TakeInstr, Before, Rest
<1>4. CASE FirstCommit(queue[c]) # 0
  BY <1>1, <1>2, <1>4, Zenon DEF TakeInstr, Before, Rest
<1> QED
  BY <1>3, <1>4, Zenon

LEMMA TakeInstrType ==
    ASSUME TypeOK, NEW c \in Core, TakeInstr(c)
    PROVE  /\ queue' \in [Core -> Seq(Object)]
           /\ pending' \in [Core -> Seq(Event)] /\ pending_ts' \in [Core -> Nat]
<1>1. CASE pending_ts[c] > 0
  BY <1>1 DEF TakeInstr, TypeOK
<1>2. CASE ~(pending_ts[c] > 0)
  <2> DEFINE q == queue[c]
             n == FirstCommit(q)
             ev == Events(SubSeq(q, 1, Before(q)))
  <2>1. q \in Seq(Object) /\ pending[c] \in Seq(Event) /\ pending_ts[c] = 0
    BY <1>2 DEF TypeOK
  <2>2. /\ queue' = [queue EXCEPT ![c] = Rest(q)]
        /\ pending' = [pending EXCEPT ![c] = pending[c] \o ev]
        /\ pending_ts' = [pending_ts EXCEPT ![c] = IF n = 0 THEN 0 ELSE q[n].ts]
    BY <2>1, TakenInstr, Zenon
  <2> HIDE DEF q
  <2>3. ev \in Seq(Event) /\ Rest(q) \in Seq(Object)
    BY <2>1, BeforeIs, EventsBefore
  <2>4. n # 0 => q[n] \in Object
    BY <2>1, BeforeIs
  <2>5. n # 0 => q[n].ts \in Nat
    BY <2>4 DEF Object
  <2> HIDE DEF ev, n
  <2>6. pending[c] \o ev \in Seq(Event)
    BY <2>1, <2>3
  <2> QED
    BY <2>2, <2>3, <2>5, <2>6 DEF TypeOK
<1> QED
  BY <1>1, <1>2

-----------------------------------------------------------------------------
(* Types                                                                    *)

\* The winner of a complete scan has a whole instruction pending.
LEMMA WinnerHasOne ==
    ASSUME Inv, io.min_index > 0
    PROVE  /\ io.min_index \in Core /\ pending_ts[io.min_index] > 0
           /\ written[io.min_index] < Len(logged[io.min_index])
           /\ pending[io.min_index] = logged[io.min_index][written[io.min_index] + 1]
<1>1. io.min_index \in Core
  BY DEF Inv, TypeOK, Position, Core
<1>2. pending_ts[io.min_index] > 0
  BY DEF Inv, ScanInv
<1> QED
  BY <1>1, <1>2 DEF Inv, StreamInv, PendingInv

LEMMA TypeStep ==
    ASSUME Inv, [Next]_vars
    PROVE  TypeOK'
<1> USE DEF Inv
<1>1. ASSUME NEW c \in Core, Log(c) PROVE TypeOK'
  <2> DEFINE e == <<c, Len(logged[c]) + 1, Len(current[c]) + 1>>
  <2>1. e \in Event
    <3>1. Len(logged[c]) + 1 \in 1 .. Instrs /\ Len(current[c]) + 1 \in 1 .. MaxEvents
      <4>1. PICK l \in Nat, m \in Nat : l = Len(logged[c]) /\ m = Len(current[c])
        BY DEF TypeOK
      <4>2. l < Instrs /\ m < MaxEvents
        BY <1>1, <4>1, Zenon DEF Log
      <4>3. l + 1 \in 1 .. Instrs /\ m + 1 \in 1 .. MaxEvents
        BY <4>2, CoresAssumption
      <4> QED
        BY <4>1, <4>3, Zenon
    <3> QED
      BY <3>1 DEF Event
  <2>2. [ts |-> 0, event |-> e] \in Object
    BY <2>1 DEF Object
  <2>3. /\ queue' = [queue EXCEPT ![c] = Append(queue[c], [ts |-> 0, event |-> e])]
        /\ current' = [current EXCEPT ![c] = Append(current[c], e)]
    BY <1>1 DEF Log
  <2> HIDE DEF e
  <2>4. queue' \in [Core -> Seq(Object)] /\ current' \in [Core -> Seq(Event)]
    BY <2>1, <2>2, <2>3 DEF TypeOK
  <2> QED
    BY <1>1, <2>4, Zenon DEF Log, TypeOK, thread
<1>2. ASSUME NEW c \in Core, Stamp(c) PROVE TypeOK'
  <2>1. clock' \in Nat \ {0} /\ stamp' \in [Core -> Nat]
    BY <1>2 DEF Stamp, TypeOK
  <2> QED
    BY <1>2, <2>1, Zenon DEF Stamp, TypeOK, thread
<1>3. ASSUME NEW c \in Core, log_commit(c) PROVE TypeOK'
  <2>1. [ts |-> stamp[c]] \in Object
    BY <1>3 DEF log_commit, Object, TypeOK
  <2>2. queue' \in [Core -> Seq(Object)] /\ stamp' \in [Core -> Nat]
    BY <1>3, <2>1 DEF log_commit, TypeOK
  <2>3. logged' \in [Core -> Seq(Seq(Event))] /\ current' \in [Core -> Seq(Event)]
    BY <1>3 DEF log_commit, TypeOK
  <2>4. \A d \in Core : written[d] <= Len(logged'[d])
    BY <1>3 DEF log_commit, TypeOK
  <2> QED
    BY <1>3, <2>2, <2>3, <2>4, Zenon DEF log_commit, TypeOK, thread
<1>4. CASE doneLogging
  BY <1>4, Zenon DEF doneLogging, TypeOK, cores, thread
<1>5. CASE Scan
  <2>1. io.i \in Core
    BY <1>5 DEF Scan, TypeOK, Position, Core
  <2>2. /\ queue' \in [Core -> Seq(Object)]
        /\ pending' \in [Core -> Seq(Event)] /\ pending_ts' \in [Core -> Nat]
    BY <1>5, <2>1, TakeInstrType DEF Scan
  <2>3. io' \in Position
    <3> DEFINE t == pending_ts'[io.i]
    <3>1. t \in Nat
      BY <2>1, <2>2
    <3>2. \/ io' = [io EXCEPT !.i = io.i + 1, !.min_ts = t, !.min_index = io.i]
          \/ io' = [io EXCEPT !.i = io.i + 1]
      BY <1>5 DEF Scan
    <3>3. \A n \in Core : n + 1 \in 1 .. Cores + 1 /\ n \in 0 .. Cores
      BY CoresAssumption DEF Core
    <3>4. io \in Position /\ io.i + 1 \in 1 .. Cores + 1 /\ io.i \in 0 .. Cores
      BY <2>1, <3>3, Zenon DEF TypeOK
    <3> HIDE DEF t
    <3>5. [io EXCEPT !.i = io.i + 1] \in Position
      BY <3>4, Zenon DEF Position
    <3>6. [io EXCEPT !.i = io.i + 1, !.min_ts = t, !.min_index = io.i] \in Position
      BY <3>1, <3>4, Zenon DEF Position
    <3> QED
      BY <3>2, <3>5, <3>6, Zenon
  <2>4. \A c \in Core : Available(c) \in Nat
    <3> SUFFICES ASSUME NEW c \in Core PROVE Available(c) \in Nat
      BY Zenon
    <3>1. queue[c] \in Seq(Object) /\ pending_ts[c] \in Nat
      BY DEF TypeOK
    <3>2. FirstCommit(queue[c]) # 0 => queue[c][FirstCommit(queue[c])] \in Object
      BY <3>1, BeforeIs
    <3>3. \A obj \in Object : obj.ts \in Nat
      BY DEF Object
    <3> QED
      BY <3>1, <3>2, <3>3, Zenon DEF Available
  <2>5. ready' \in [Core -> Nat]
    BY <1>5, <2>4 DEF Scan, TypeOK
  <2> QED
    BY <1>5, <2>2, <2>3, <2>5, Zenon DEF Scan, TypeOK
<1>6. CASE commitMergedLogging
  <2> DEFINE c == io.min_index
  <2>1. c \in Core /\ written[c] < Len(logged[c])
    BY <1>6, WinnerHasOne DEF commitMergedLogging
  <2>2. Restart \in Position
    BY CoresAssumption DEF Restart, Position, TypeOK
  <2>3. trace' \in Seq(Event) /\ pending' \in [Core -> Seq(Event)] /\ pending_ts' \in [Core -> Nat]
    BY <1>6, <2>1 DEF commitMergedLogging, TypeOK
  <2>4. written' \in [Core -> Nat] /\ \A d \in Core : written'[d] <= Len(logged[d])
    <3>1. PICK w \in Nat, l \in Nat : w = written[c] /\ l = Len(logged[c])
      BY <2>1 DEF TypeOK
    <3>2. w + 1 \in Nat /\ w + 1 <= l
      BY <2>1, <3>1
    <3>3. written' = [written EXCEPT ![c] = w + 1]
      BY <1>6, <3>1, Zenon DEF commitMergedLogging
    <3> QED
      BY <3>1, <3>2, <3>3, Zenon DEF TypeOK
  <2> QED
    BY <1>6, <2>2, <2>3, <2>4, Zenon DEF commitMergedLogging, TypeOK, cores
<1>7. CASE runMergedStream
  <2>0. 1 \in 1 .. Cores + 1 /\ 0 \in 0 .. Cores /\ 0 \in Nat /\ done \in BOOLEAN
    BY CoresAssumption DEF TypeOK
  <2>1. Restart \in Position /\ [Restart EXCEPT !.pc = "stopped"] \in Position
    BY <2>0 DEF Restart, Position
  <2>2. io' \in Position
    BY <1>7, <2>1, Zenon DEF runMergedStream
  <2> QED
    BY <1>7, <2>2, Zenon DEF runMergedStream, TypeOK, cores
<1>8. CASE Joined \/ UNCHANGED vars
  BY <1>8, Zenon DEF Joined, vars, cores, thread, TypeOK
<1> QED
  BY <1>1, <1>2, <1>3, <1>4, <1>5, <1>6, <1>7, <1>8, Zenon DEF Next

-----------------------------------------------------------------------------
(* How instructions lie in a queue                                          *)

LEMMA LiesWithin ==
    ASSUME NEW c, NEW a \in Nat \ {0}, NEW z \in Nat \ {0}, a <= z, NEW g \in Nat,
           NEW s \in [1 .. z -> Nat], NEW q \in Seq(Object),
           NEW f \in [a .. z -> Int], Lies(c, a, z, g, s, q, f)
    PROVE  /\ \A k \in a .. z : f[k] <= f[z] /\ f[k] + s[k] <= Len(q) + 1
           /\ f \in [a .. z -> Places(g, q)]
<1>0. a \in a .. z /\ z \in a .. z /\ z \in 1 .. z
  OBVIOUS
<1>1. PICK l \in Nat : l = Len(q)
  OBVIOUS
<1>2. PICK fz \in Int, sz \in Nat : fz = f[z] /\ sz = s[z] /\ fz + sz = l + 1
  BY <1>0, <1>1, Zenon DEF Lies
<1>3. ASSUME NEW k \in a .. z
      PROVE  f[k] <= f[z] /\ f[k] + s[k] <= Len(q) + 1 /\ f[k] \in 1 - g .. Len(q) + 1
  <2>1. PICK x \in Int, y \in Nat : x = f[k] /\ y = s[k]
    <3>1. k \in 1 .. z
      OBVIOUS
    <3> QED
      BY <3>1, Zenon
  <2>2. x <= fz
    <3>1. CASE k = z
      BY <1>2, <2>1, <3>1
    <3>2. CASE k # z
      <4>1. k < z
        BY <3>2
      <4>2. x < fz
        BY <1>0, <1>2, <2>1, <4>1, Zenon DEF Lies
      <4> QED
        BY <4>2
    <3> QED
      BY <3>1, <3>2, Zenon
  <2>3. x + y <= l + 1
    <3>1. CASE k = z
      BY <1>2, <2>1, <3>1
    <3>2. CASE k # z
      <4>1. k \in a .. z - 1 /\ k + 1 \in a .. z
        BY <3>2
      <4>2. f[k + 1] = x + y + 1
        BY <2>1, <4>1, Zenon DEF Lies
      <4>3. k + 1 = z \/ k + 1 < z
        BY <4>1
      <4>4. f[k + 1] = fz \/ f[k + 1] < fz
        BY <1>0, <1>2, <4>1, <4>3, Zenon DEF Lies
      <4>5. x + y + 1 = fz \/ x + y + 1 < fz
        BY <4>2, <4>4, Zenon
      <4> QED
        BY <1>2, <4>5, SMTT(20)
    <3> QED
      BY <3>1, <3>2, Zenon
  <2>4. x >= 1 - g
    <3>1. f[a] = 1 - g
      BY DEF Lies
    <3>2. k = a \/ a < k
      OBVIOUS
    <3>3. x = 1 - g \/ 1 - g < x
      BY <1>0, <2>1, <3>1, <3>2, Zenon DEF Lies
    <3> QED
      BY <3>3
  <2>5. x \in 1 - g .. l + 1
    BY <1>2, <2>2, <2>4
  <2> QED
    BY <1>1, <1>2, <2>1, <2>2, <2>3, <2>5, Zenon
<1> QED
  BY <1>3, Zenon DEF Places

\* The first commit of a queue ends its first instruction.
FirstOut(c, a, z, g, s, q, f) ==
    /\ a = z => FirstCommit(q) = 0 /\ s[a] = g + Len(q)
    /\ a < z => /\ FirstCommit(q) = f[a + 1] - 1 /\ FirstCommit(q) \in 1 .. Len(q)
                /\ s[a] = g + (FirstCommit(q) - 1)
    /\ \A i \in 1 .. Before(q) : q[i] = EventObject(c, a, g + i)

LEMMA LiesFirst ==
    ASSUME NEW c, NEW a \in Nat \ {0}, NEW z \in Nat \ {0}, a <= z, NEW g \in Nat,
           NEW s \in [1 .. z -> Nat], NEW q \in Seq(Object),
           NEW f \in [a .. z -> Int], Lies(c, a, z, g, s, q, f)
    PROVE  FirstOut(c, a, z, g, s, q, f)
<1>0. a \in a .. z /\ z \in a .. z /\ z \in 1 .. z /\ a \in 1 .. z
  OBVIOUS
<1>1. PICK sa \in Nat, l \in Nat : sa = s[a] /\ l = Len(q)
  BY <1>0
<1>2. f[a] = 1 - g
  BY Zenon DEF Lies
<1>3. ASSUME NEW i \in 1 .. sa - g
      PROVE  q[i] = EventObject(c, a, g + i) /\ ~IsCommit(q[i])
  <2>1. g + i \in 1 .. sa /\ (1 - g) + (g + i) >= 2 /\ (1 - g) + (g + i) - 1 = i
    OBVIOUS
  <2>2. q[i] = EventObject(c, a, g + i)
    BY <1>0, <1>1, <1>2, <2>1, Zenon DEF Lies
  <2>3. ~IsCommit(EventObject(c, a, g + i))
    BY DEF EventObject, IsCommit
  <2> QED
    BY <2>2, <2>3, Zenon
<1>4. CASE a = z
  <2>1. (1 - g) + sa = l + 1
    BY <1>1, <1>2, <1>4, Zenon DEF Lies
  <2>2. sa - g = l /\ sa = g + l
    BY <2>1
  <2>3. FirstCommit(q) = 0
    <3>1. \A i \in 1 .. Len(q) : ~IsCommit(q[i])
      BY <1>1, <1>3, <2>2, Zenon
    <3> QED
      BY <3>1, FirstCommitIs
  <2>4. ~(a < z)
    BY <1>4
  <2> QED
    BY <1>1, <1>3, <2>2, <2>3, <2>4, Zenon DEF Before, FirstOut
<1>5. CASE a < z
  <2>1. a \in a .. z - 1 /\ a + 1 \in a + 1 .. z /\ a + 1 \in a .. z /\ a # z
    BY <1>5
  <2>2. PICK x \in Int : x = f[a + 1]
    BY <2>1, Zenon
  <2>3. x = (1 - g) + sa + 1 /\ x >= 2 /\ IsCommit(q[x - 1])
    BY <1>1, <1>2, <2>1, <2>2, Zenon DEF Lies
  <2>4. x <= l + 1
    <3>1. f \in [a .. z -> Places(g, q)]
      BY LiesWithin, Zenon
    <3>2. x \in 1 - g .. l + 1
      BY <1>1, <2>1, <2>2, <3>1, Zenon DEF Places
    <3> QED
      BY <3>2
  <2>5. x - 1 \in 1 .. l /\ (x - 1) - 1 = sa - g /\ sa = g + ((x - 1) - 1)
    BY <2>3, <2>4
  <2>6. PICK n \in 1 .. l : n = x - 1
    BY <2>5, Zenon
  <2>7. \A i \in 1 .. n - 1 : ~IsCommit(q[i])
    BY <1>3, <2>5, <2>6, Zenon
  <2>8. FirstCommit(q) = n
    BY <1>1, <2>3, <2>6, <2>7, FirstCommitAt, Zenon
  <2>9. n # 0
    OBVIOUS
  <2> QED
    BY <1>1, <1>3, <2>1, <2>2, <2>5, <2>6, <2>8, <2>9, Zenon DEF Before, FirstOut
<1> QED
  BY <1>4, <1>5

\* The events and commits of instructions that lie in a queue are at positions of the queue.
LEMMA LiesPlaces ==
    ASSUME NEW c, NEW a \in Nat \ {0}, NEW z \in Nat \ {0}, a <= z, NEW g \in Nat,
           NEW s \in [1 .. z -> Nat], NEW q \in Seq(Object),
           NEW f \in [a .. z -> Int], Lies(c, a, z, g, s, q, f)
    PROVE  /\ \A k \in a .. z : \A n \in 1 .. s[k] : f[k] + n >= 2 => f[k] + n - 1 \in 1 .. Len(q)
           /\ \A k \in a + 1 .. z : f[k] - 1 \in 1 .. Len(q)
<1>1. PICK l \in Nat : l = Len(q)
  OBVIOUS
<1>2. \A k \in a .. z : f[k] + s[k] <= l + 1
  BY <1>1, LiesWithin, Zenon
<1>3. \A k \in a .. z : k \in 1 .. z
  OBVIOUS
<1>4. ASSUME NEW k \in a .. z, NEW n \in 1 .. s[k], f[k] + n >= 2
      PROVE  f[k] + n - 1 \in 1 .. Len(q)
  <2>1. PICK x \in Int, y \in Nat : x = f[k] /\ y = s[k]
    BY <1>3, Zenon
  <2>2. n \in 1 .. y /\ x + n >= 2 /\ x + y <= l + 1
    BY <1>2, <1>4, <2>1, Zenon
  <2>3. x + n - 1 \in 1 .. l
    BY <2>2
  <2> QED
    BY <1>1, <2>1, <2>3, Zenon
<1>5. ASSUME NEW k \in a + 1 .. z PROVE f[k] - 1 \in 1 .. Len(q)
  <2>1. k \in a .. z
    OBVIOUS
  <2>2. PICK x \in Int, y \in Nat : x = f[k] /\ y = s[k]
    BY <1>3, <2>1, Zenon
  <2>3. x >= 2 /\ x + y <= l + 1
    BY <1>2, <2>1, <2>2, Zenon DEF Lies
  <2>4. x - 1 \in 1 .. l
    BY <2>3
  <2> QED
    BY <1>1, <2>2, <2>4, Zenon
<1> QED
  BY <1>4, <1>5, Zenon

\* A logged event is the next one of the last instruction.
LEMMA LiesLog ==
    ASSUME NEW c, NEW a \in Nat \ {0}, NEW z \in Nat \ {0}, a <= z, NEW g \in Nat,
           NEW s \in [1 .. z -> Nat], NEW q \in Seq(Object),
           NEW f \in [a .. z -> Int], Lies(c, a, z, g, s, q, f),
           NEW t \in [1 .. z -> Nat], t[z] = s[z] + 1, \A k \in 1 .. z - 1 : t[k] = s[k],
           EventObject(c, z, s[z] + 1) \in Object
    PROVE  Lies(c, a, z, g, t, Append(q, EventObject(c, z, s[z] + 1)), f)
<1> DEFINE obj == EventObject(c, z, s[z] + 1)
           r == Append(q, obj)
<1>0. \A k \in a .. z : /\ k \in 1 .. z /\ (k = z \/ k \in 1 .. z - 1)
                        /\ (k \in a .. z - 1 => k \in 1 .. z - 1)
  OBVIOUS
<1>1. PICK l \in Nat : l = Len(q)
  OBVIOUS
<1> HIDE DEF obj
<1>2. Len(r) = l + 1 /\ r[l + 1] = obj /\ \A i \in 1 .. l : r[i] = q[i]
  BY <1>1 DEF obj
<1> HIDE DEF r
<1>3. z \in a .. z /\ z \in 1 .. z
  OBVIOUS
<1>4. f[z] + t[z] = Len(r) + 1
  <2>1. PICK x \in Int, y \in Nat : x = f[z] /\ y = s[z]
    BY <1>3, Zenon
  <2>2. x + y = l + 1
    BY <1>1, <2>1, Zenon DEF Lies
  <2>3. x + (y + 1) = (l + 1) + 1
    BY <2>2
  <2> QED
    BY <1>2, <2>1, <2>3, Zenon
<1>5. \A k \in a .. z - 1 : f[k + 1] = f[k] + t[k] + 1
  <2>1. \A k \in a .. z - 1 : k \in 1 .. z - 1
    OBVIOUS
  <2> QED
    BY <2>1, Zenon DEF Lies
<1>6. ASSUME NEW k \in a .. z, NEW n \in 1 .. t[k], f[k] + n >= 2
      PROVE  r[f[k] + n - 1] = EventObject(c, k, n)
  <2>1. CASE n \in 1 .. s[k]
    <3>1. f[k] + n - 1 \in 1 .. l
      BY <1>1, <1>6, <2>1, LiesPlaces, Zenon
    <3>2. q[f[k] + n - 1] = EventObject(c, k, n)
      BY <1>6, <2>1, Zenon DEF Lies
    <3> QED
      BY <1>2, <3>1, <3>2, Zenon
  <2>2. CASE n \notin 1 .. s[k]
    <3>1. k = z
      BY <1>0, <2>2, Zenon
    <3>2. PICK x \in Int, y \in Nat : x = f[z] /\ y = s[z]
      BY <1>3, Zenon
    <3>3. n \in 1 .. y + 1 /\ n \notin 1 .. y /\ x + y = l + 1
      BY <1>1, <2>2, <3>1, <3>2, Zenon DEF Lies
    <3>4. \A m \in 1 .. y + 1 : m \notin 1 .. y => m = y + 1
      OBVIOUS
    <3>5. x + (y + 1) - 1 = l + 1
      BY <3>3
    <3> QED
      BY <1>2, <3>1, <3>2, <3>3, <3>4, <3>5, Zenon DEF obj
  <2> QED
    BY <2>1, <2>2
<1>7. ASSUME NEW k \in a + 1 .. z PROVE IsCommit(r[f[k] - 1])
  <2>1. f[k] - 1 \in 1 .. l
    BY <1>1, LiesPlaces, Zenon
  <2> QED
    BY <1>2, <2>1, Zenon DEF Lies
<1> QED
  BY <1>4, <1>5, <1>6, <1>7, Zenon DEF Lies, r, obj

\* Ranges of instruction numbers.
LEMMA Indices ==
    ASSUME NEW a \in Nat \ {0}, NEW z \in Nat \ {0}, a <= z
    PROVE  /\ \A k \in a .. z : k \in 1 .. z /\ k \in a .. z + 1 /\ k # z + 1
           /\ \A k \in a .. z + 1 : k = z + 1 \/ k \in a .. z
           /\ \A k \in a .. (z + 1) - 1 : k \in a .. z /\ (k = z \/ (k \in a .. z - 1 /\ k + 1 \in a .. z))
           /\ \A k \in a + 1 .. z + 1 : k = z + 1 \/ k \in a + 1 .. z
           /\ \A k \in a + 1 .. z : k \in a .. z
           /\ \A j \in a .. z : j < z + 1 /\ ~(z + 1 < j)
           /\ z + 1 \in a .. z + 1 /\ a \in a .. z /\ z \in a .. z /\ z \in 1 .. z
           /\ ~(z + 1 < z + 1)
<1>1. \A k \in a .. z : k \in 1 .. z /\ k \in a .. z + 1 /\ k # z + 1
  OBVIOUS
<1>2. \A k \in a .. z + 1 : k = z + 1 \/ k \in a .. z
  OBVIOUS
<1>3. \A k \in a .. (z + 1) - 1 : k \in a .. z /\ (k = z \/ (k \in a .. z - 1 /\ k + 1 \in a .. z))
  OBVIOUS
<1>4. \A k \in a + 1 .. z + 1 : k = z + 1 \/ k \in a + 1 .. z
  OBVIOUS
<1>5. \A k \in a + 1 .. z : k \in a .. z
  OBVIOUS
<1>6. \A j \in a .. z : j < z + 1 /\ ~(z + 1 < j)
  OBVIOUS
<1>7. z + 1 \in a .. z + 1 /\ a \in a .. z /\ z \in a .. z /\ z \in 1 .. z
  OBVIOUS
<1>8. ~(z + 1 < z + 1)
  OBVIOUS
<1> QED
  BY <1>1, <1>2, <1>3, <1>4, <1>5, <1>6, <1>7, <1>8, Zenon

\* A commit ends the last instruction and begins an empty one.
LEMMA LiesCommit ==
    ASSUME NEW c, NEW a \in Nat \ {0}, NEW z \in Nat \ {0}, a <= z, NEW g \in Nat,
           NEW s \in [1 .. z -> Nat], NEW q \in Seq(Object),
           NEW f \in [a .. z -> Int], Lies(c, a, z, g, s, q, f),
           NEW t \in [1 .. z + 1 -> Nat], t[z + 1] = 0, \A k \in 1 .. z : t[k] = s[k],
           NEW obj \in Object, IsCommit(obj)
    PROVE  \E h \in [a .. z + 1 -> Int] : Lies(c, a, z + 1, g, t, Append(q, obj), h)
<1> DEFINE r == Append(q, obj)
<1>1. PICK l \in Nat : l = Len(q)
  OBVIOUS
<1>2. Len(r) = l + 1 /\ r[l + 1] = obj /\ \A i \in 1 .. l : r[i] = q[i]
  BY <1>1
<1> HIDE DEF r
<1> DEFINE h == [k \in a .. z + 1 |-> IF k = z + 1 THEN l + 2 ELSE f[k]]
<1>3. /\ \A k \in a .. z : k \in 1 .. z /\ k \in a .. z + 1 /\ k # z + 1
      /\ \A k \in a .. z + 1 : k = z + 1 \/ k \in a .. z
      /\ \A k \in a .. (z + 1) - 1 : k \in a .. z /\ (k = z \/ (k \in a .. z - 1 /\ k + 1 \in a .. z))
      /\ \A k \in a + 1 .. z + 1 : k = z + 1 \/ k \in a + 1 .. z
      /\ \A k \in a + 1 .. z : k \in a .. z
      /\ \A j \in a .. z : j < z + 1 /\ ~(z + 1 < j)
      /\ z + 1 \in a .. z + 1 /\ a \in a .. z /\ z \in a .. z /\ z \in 1 .. z
      /\ ~(z + 1 < z + 1)
  BY Indices, Zenon
<1>4. h \in [a .. z + 1 -> Int] /\ h[z + 1] = l + 2 /\ \A k \in a .. z : h[k] = f[k]
  <2>1. l + 2 \in Int
    OBVIOUS
  <2> QED
    BY <1>3, <2>1, Zenon
<1> HIDE DEF h
<1>5. \A k \in a .. z : f[k] < l + 2
  <2> SUFFICES ASSUME NEW k \in a .. z PROVE f[k] < l + 2
    OBVIOUS
  <2>1. PICK x \in Int, y \in Nat : x = f[k] /\ y = s[k]
    BY <1>3, Zenon
  <2>2. x + y <= l + 1
    BY <1>1, <2>1, LiesWithin, Zenon
  <2>3. x < l + 2
    BY <2>2
  <2> QED
    BY <2>1, <2>3, Zenon
<1>6. h[z + 1] + t[z + 1] = Len(r) + 1 /\ h[a] = 1 - g
  <2>1. (l + 2) + 0 = (l + 1) + 1
    OBVIOUS
  <2> QED
    BY <1>2, <1>3, <1>4, <2>1, Zenon DEF Lies
<1>7. ASSUME NEW k \in a .. (z + 1) - 1 PROVE h[k + 1] = h[k] + t[k] + 1
  <2>1. CASE k = z
    <3>1. PICK x \in Int, y \in Nat : x = f[z] /\ y = s[z]
      BY <1>3, Zenon
    <3>2. x + y = l + 1
      BY <1>1, <3>1, Zenon DEF Lies
    <3>3. l + 2 = x + y + 1
      BY <3>2
    <3> QED
      BY <1>3, <1>4, <2>1, <3>1, <3>3, Zenon
  <2>2. CASE k \in a .. z - 1 /\ k + 1 \in a .. z
    BY <1>3, <1>4, <2>2, Zenon DEF Lies
  <2> QED
    BY <1>3, <2>1, <2>2, Zenon
<1>8. \A k \in a + 1 .. z + 1 : h[k] >= 2
  <2>1. l + 2 >= 2
    OBVIOUS
  <2> QED
    BY <1>3, <1>4, <2>1, Zenon DEF Lies
<1>9. \A j, k \in a .. z + 1 : j < k => h[j] < h[k]
  <2> SUFFICES ASSUME NEW j \in a .. z + 1, NEW k \in a .. z + 1, j < k PROVE h[j] < h[k]
    BY Zenon
  <2>1. j \in a .. z
    OBVIOUS
  <2>2. CASE k = z + 1
    BY <1>4, <1>5, <2>1, <2>2, Zenon
  <2>3. CASE k \in a .. z
    BY <1>4, <2>1, <2>3, Zenon DEF Lies
  <2> QED
    BY <1>3, <2>2, <2>3, Zenon
<1>10. ASSUME NEW k \in a .. z + 1, NEW n \in 1 .. t[k], h[k] + n >= 2
       PROVE  r[h[k] + n - 1] = EventObject(c, k, n)
  <2>1. CASE k = z + 1
    <3>1. n \in 1 .. 0
      BY <1>10, <2>1, Zenon
    <3> QED
      BY <3>1
  <2>2. CASE k \in a .. z
    <3>1. n \in 1 .. s[k] /\ f[k] + n >= 2 /\ h[k] = f[k]
      BY <1>3, <1>4, <1>10, <2>2, Zenon
    <3>2. f[k] + n - 1 \in 1 .. l
      BY <1>1, <2>2, <3>1, LiesPlaces, Zenon
    <3>3. q[f[k] + n - 1] = EventObject(c, k, n)
      BY <2>2, <3>1, Zenon DEF Lies
    <3> QED
      BY <1>2, <3>1, <3>2, <3>3, Zenon
  <2> QED
    BY <1>3, <2>1, <2>2, Zenon
<1>11. ASSUME NEW k \in a + 1 .. z + 1 PROVE IsCommit(r[h[k] - 1])
  <2>1. CASE k = z + 1
    <3>1. (l + 2) - 1 = l + 1
      OBVIOUS
    <3> QED
      BY <1>2, <1>4, <2>1, <3>1, Zenon
  <2>2. CASE k \in a + 1 .. z
    <3>1. f[k] - 1 \in 1 .. l
      BY <1>1, <2>2, LiesPlaces, Zenon
    <3> QED
      BY <1>2, <1>3, <1>4, <2>2, <3>1, Zenon DEF Lies
  <2> QED
    BY <1>3, <2>1, <2>2, Zenon
<1>12. Lies(c, a, z + 1, g, t, r, h)
  BY <1>6, <1>7, <1>8, <1>9, <1>10, <1>11, Zenon DEF Lies
<1> QED
  BY <1>4, <1>12, Zenon DEF r

\* Taking the first instruction and its commit moves the others to the front.
LEMMA LiesTake ==
    ASSUME NEW c, NEW a \in Nat \ {0}, NEW z \in Nat \ {0}, a < z, NEW g \in Nat,
           NEW s \in [1 .. z -> Nat], NEW q \in Seq(Object),
           NEW f \in [a .. z -> Int], Lies(c, a, z, g, s, q, f)
    PROVE  \E h \in [a + 1 .. z -> Int] : Lies(c, a + 1, z, 0, s, Rest(q), h)
<1>0. a <= z
  OBVIOUS
<1>1. PICK l \in Nat : l = Len(q)
  OBVIOUS
<1>2. PICK n \in 1 .. l : n = FirstCommit(q) /\ n = f[a + 1] - 1
  <2>1. FirstCommit(q) = f[a + 1] - 1 /\ FirstCommit(q) \in 1 .. Len(q)
    <3>1. FirstOut(c, a, z, g, s, q, f)
      BY <1>0, LiesFirst, Zenon
    <3> QED
      BY <3>1, Zenon DEF FirstOut
  <2> QED
    BY <1>1, <2>1, Zenon
<1> DEFINE r == Rest(q)
           h == [k \in a + 1 .. z |-> f[k] - n]
<1>3. Len(r) = l - n /\ \A i \in 1 .. l - n : r[i] = q[i + n]
  <2>1. n # 0
    OBVIOUS
  <2>2. r = SubSeq(q, n + 1, l)
    BY <1>1, <1>2, <2>1, Zenon DEF Rest
  <2> QED
    BY <1>1, <2>2
<1> HIDE DEF r
<1>4. /\ \A k \in a + 1 .. z : k \in a .. z /\ k \in 1 .. z
      /\ \A k \in a + 1 .. z - 1 : k \in a .. z - 1 /\ k + 1 \in a + 1 .. z /\ k \in a + 1 .. z
      /\ \A k \in (a + 1) + 1 .. z : k \in a + 1 .. z /\ k \in a .. z /\ a + 1 < k
      /\ a + 1 \in a + 1 .. z /\ z \in a + 1 .. z /\ a + 1 \in a .. z
  OBVIOUS
<1>5. \A k \in a + 1 .. z : f[k] \in Int /\ h[k] = f[k] - n /\ h[k] \in Int
  BY <1>4
<1>6. h \in [a + 1 .. z -> Int]
  BY <1>5, Zenon
<1> HIDE DEF h
<1>7. h[a + 1] = 1 - 0
  <2>1. PICK x \in Int : x = f[a + 1]
    BY <1>4, Zenon
  <2>2. x - n = 1 - 0
    BY <1>2, <2>1
  <2> QED
    BY <1>4, <1>5, <2>1, <2>2, Zenon
<1>8. h[z] + s[z] = Len(r) + 1
  <2>1. PICK x \in Int, y \in Nat : x = f[z] /\ y = s[z] /\ h[z] = x - n
    BY <1>4, <1>5, Zenon
  <2>2. x + y = l + 1
    BY <1>1, <2>1, Zenon DEF Lies
  <2>3. (x - n) + y = (l - n) + 1
    BY <2>2
  <2> QED
    BY <1>3, <2>1, <2>3, Zenon
<1>9. ASSUME NEW k \in a + 1 .. z - 1 PROVE h[k + 1] = h[k] + s[k] + 1
  <2>1. PICK x \in Int, y \in Nat, u \in Int : x = f[k] /\ y = s[k] /\ u = f[k + 1]
    BY <1>4, Zenon
  <2>2. u = x + y + 1 /\ h[k] = x - n /\ h[k + 1] = u - n
    BY <1>4, <1>5, <2>1, Zenon DEF Lies
  <2>3. u - n = (x - n) + y + 1
    BY <2>2
  <2> QED
    BY <2>1, <2>2, <2>3, Zenon
<1>10. ASSUME NEW k \in (a + 1) + 1 .. z PROVE h[k] >= 2
  <2>1. PICK x \in Int, u \in Int : x = f[k] /\ u = f[a + 1]
    BY <1>4, Zenon
  <2>2. u < x /\ n = u - 1 /\ h[k] = x - n
    BY <1>2, <1>4, <1>5, <2>1, Zenon DEF Lies
  <2>3. x - n >= 2
    BY <2>2
  <2> QED
    BY <2>2, <2>3, Zenon
<1>11. ASSUME NEW j \in a + 1 .. z, NEW k \in a + 1 .. z, j < k PROVE h[j] < h[k]
  <2>1. PICK x \in Int, u \in Int : x = f[j] /\ u = f[k]
    BY <1>4, Zenon
  <2>2. x < u /\ h[j] = x - n /\ h[k] = u - n
    BY <1>4, <1>5, <1>11, <2>1, Zenon DEF Lies
  <2>3. x - n < u - n
    BY <2>2
  <2> QED
    BY <2>2, <2>3, Zenon
<1>12. ASSUME NEW k \in a + 1 .. z, NEW m \in 1 .. s[k], h[k] + m >= 2
       PROVE  r[h[k] + m - 1] = EventObject(c, k, m)
  <2>1. PICK x \in Int, y \in Nat : x = f[k] /\ y = s[k] /\ h[k] = x - n
    BY <1>4, <1>5, Zenon
  <2>2. m \in 1 .. y /\ (x - n) + m >= 2
    BY <1>12, <2>1, Zenon
  <2>3. x + m >= 2
    BY <2>2
  <2>4. x + m - 1 \in 1 .. l /\ q[x + m - 1] = EventObject(c, k, m)
    <3>1. k \in a .. z
      BY <1>4, Zenon
    <3>2. x + m - 1 \in 1 .. l
      BY <1>0, <1>1, <2>1, <2>2, <2>3, <3>1, LiesPlaces, Zenon
    <3>3. q[x + m - 1] = EventObject(c, k, m)
      BY <2>1, <2>2, <2>3, <3>1, Zenon DEF Lies
    <3> QED
      BY <3>2, <3>3, Zenon
  <2>5. (x - n) + m - 1 \in 1 .. l - n /\ ((x - n) + m - 1) + n = x + m - 1
    BY <2>2, <2>4
  <2> QED
    BY <1>3, <2>1, <2>4, <2>5, Zenon
<1>13. ASSUME NEW k \in (a + 1) + 1 .. z PROVE IsCommit(r[h[k] - 1])
  <2>1. PICK x \in Int : x = f[k] /\ h[k] = x - n
    BY <1>4, <1>5, Zenon
  <2>2. x - n >= 2
    BY <1>10, <2>1, Zenon
  <2>3. k \in a + 1 .. z
    BY <1>4, Zenon
  <2>4. x - 1 \in 1 .. l
    BY <1>0, <1>1, <2>1, <2>3, LiesPlaces, Zenon
  <2>5. IsCommit(q[x - 1])
    BY <2>1, <2>3, Zenon DEF Lies
  <2>6. (x - n) - 1 \in 1 .. l - n /\ ((x - n) - 1) + n = x - 1
    BY <2>2, <2>4
  <2> QED
    BY <1>3, <2>1, <2>5, <2>6, Zenon
<1>14. Lies(c, a + 1, z, 0, s, r, h)
  BY <1>7, <1>8, <1>9, <1>10, <1>11, <1>12, <1>13, Zenon DEF Lies
<1> QED
  BY <1>6, <1>14, Zenon DEF r

\* Without a commit the events of the executing instruction leave the queue empty.
LEMMA LiesTakeAll ==
    ASSUME NEW c, NEW z \in Nat \ {0}, NEW s \in [1 .. z -> Nat], NEW g \in Nat, s[z] = g
    PROVE  \E h \in [z .. z -> Int] : Lies(c, z, z, g, s, << >>, h)
<1> DEFINE h == [k \in z .. z |-> 1 - g]
<1>1. /\ \A k \in z .. z : k = z /\ h[k] = 1 - g
      /\ z \in z .. z /\ h \in [z .. z -> Int]
  OBVIOUS
<1>2. z .. z - 1 = {} /\ z + 1 .. z = {} /\ ~(z < z)
  OBVIOUS
<1> HIDE DEF h
<1>3. (1 - g) + g = Len(<< >>) + 1 /\ \A n \in 1 .. g : ~((1 - g) + n >= 2)
  OBVIOUS
<1>4. Lies(c, z, z, g, s, << >>, h)
  BY <1>1, <1>2, <1>3, Zenon DEF Lies
<1> QED
  BY <1>1, <1>4, Zenon

\* Instructions that lie in a queue, with the types of everything said about them.
Laid(c, a, z, g, s, q, f) ==
    /\ a \in Nat \ {0} /\ z \in Nat \ {0} /\ a <= z /\ g \in Nat
    /\ s \in [1 .. z -> Nat] /\ q \in Seq(Object) /\ f \in [a .. z -> Int]
    /\ Lies(c, a, z, g, s, q, f)

\* t is s with one more event in the last instruction, and with one more instruction.
Grown(s, t, z) == t \in [1 .. z -> Nat] /\ t[z] = s[z] + 1 /\ \A k \in 1 .. z - 1 : t[k] = s[k]
Begun(s, t, z) == t \in [1 .. z + 1 -> Nat] /\ t[z + 1] = 0 /\ \A k \in 1 .. z : t[k] = s[k]

LEMMA LaidPlaces ==
    ASSUME NEW c, NEW a, NEW z, NEW g, NEW s, NEW q, NEW f, Laid(c, a, z, g, s, q, f)
    PROVE  f \in [a .. z -> Places(g, q)]
BY LiesWithin, Zenon DEF Laid

LEMMA LaidFirst ==
    ASSUME NEW c, NEW a, NEW z, NEW g, NEW s, NEW q, NEW f, Laid(c, a, z, g, s, q, f)
    PROVE  FirstOut(c, a, z, g, s, q, f)
<1>1. /\ a \in Nat \ {0} /\ z \in Nat \ {0} /\ a <= z /\ g \in Nat
      /\ s \in [1 .. z -> Nat] /\ q \in Seq(Object) /\ f \in [a .. z -> Int]
      /\ Lies(c, a, z, g, s, q, f)
  BY Zenon DEF Laid
<1> QED
  BY <1>1, LiesFirst, Zenon

LEMMA LaidLog ==
    ASSUME NEW c, NEW a, NEW z, NEW g, NEW s, NEW q, NEW f, Laid(c, a, z, g, s, q, f),
           NEW t, Grown(s, t, z), EventObject(c, z, s[z] + 1) \in Object
    PROVE  Laid(c, a, z, g, t, Append(q, EventObject(c, z, s[z] + 1)), f)
<1> DEFINE obj == EventObject(c, z, s[z] + 1)
<1>1. /\ a \in Nat \ {0} /\ z \in Nat \ {0} /\ a <= z /\ g \in Nat
      /\ s \in [1 .. z -> Nat] /\ q \in Seq(Object) /\ f \in [a .. z -> Int]
      /\ Lies(c, a, z, g, s, q, f) /\ t \in [1 .. z -> Nat]
      /\ t[z] = s[z] + 1 /\ \A k \in 1 .. z - 1 : t[k] = s[k]
  BY Zenon DEF Laid, Grown
<1>2. Lies(c, a, z, g, t, Append(q, obj), f)
  BY <1>1, LiesLog, Zenon
<1> HIDE DEF obj
<1>3. obj \in Object
  BY DEF obj
<1>4. Append(q, obj) \in Seq(Object)
  BY <1>1, <1>3
<1>5. Laid(c, a, z, g, t, Append(q, obj), f)
  BY <1>1, <1>2, <1>4, Zenon DEF Laid
<1> QED
  BY <1>5 DEF obj

LEMMA LaidCommit ==
    ASSUME NEW c, NEW a, NEW z, NEW g, NEW s, NEW q, NEW f, Laid(c, a, z, g, s, q, f),
           NEW t, Begun(s, t, z), NEW obj \in Object, IsCommit(obj)
    PROVE  \E h : Laid(c, a, z + 1, g, t, Append(q, obj), h)
<1>1. /\ a \in Nat \ {0} /\ z \in Nat \ {0} /\ a <= z /\ g \in Nat
      /\ s \in [1 .. z -> Nat] /\ q \in Seq(Object) /\ f \in [a .. z -> Int]
      /\ Lies(c, a, z, g, s, q, f) /\ t \in [1 .. z + 1 -> Nat]
      /\ t[z + 1] = 0 /\ \A k \in 1 .. z : t[k] = s[k]
  BY Zenon DEF Laid, Begun
<1>2. PICK h \in [a .. z + 1 -> Int] : Lies(c, a, z + 1, g, t, Append(q, obj), h)
  BY <1>1, LiesCommit, Zenon
<1>3. Append(q, obj) \in Seq(Object)
  BY <1>1
<1>4. z + 1 \in Nat \ {0} /\ a <= z + 1
  BY <1>1
<1> QED
  BY <1>1, <1>2, <1>3, <1>4, Zenon DEF Laid

LEMMA LaidTake ==
    ASSUME NEW c, NEW a, NEW z, NEW g, NEW s, NEW q, NEW f, Laid(c, a, z, g, s, q, f), a < z
    PROVE  \E h : Laid(c, a + 1, z, 0, s, Rest(q), h)
<1>1. /\ a \in Nat \ {0} /\ z \in Nat \ {0} /\ a <= z /\ g \in Nat
      /\ s \in [1 .. z -> Nat] /\ q \in Seq(Object) /\ f \in [a .. z -> Int]
      /\ Lies(c, a, z, g, s, q, f)
  BY Zenon DEF Laid
<1>2. PICK h \in [a + 1 .. z -> Int] : Lies(c, a + 1, z, 0, s, Rest(q), h)
  BY <1>1, LiesTake, Zenon
<1>3. Rest(q) \in Seq(Object)
  BY <1>1, BeforeIs, Zenon
<1>4. a + 1 \in Nat \ {0} /\ a + 1 <= z /\ 0 \in Nat
  BY <1>1
<1> QED
  BY <1>1, <1>2, <1>3, <1>4, Zenon DEF Laid

LEMMA LaidTakeAll ==
    ASSUME NEW c, NEW z, NEW g, NEW s, NEW q, NEW f, Laid(c, z, z, g, s, q, f)
    PROVE  \E h : Laid(c, z, z, s[z], s, << >>, h)
<1>1. z \in Nat \ {0} /\ s \in [1 .. z -> Nat]
  BY Zenon DEF Laid
<1>2. s[z] \in Nat /\ z <= z
  BY <1>1
<1>3. PICK h \in [z .. z -> Int] : Lies(c, z, z, s[z], s, << >>, h)
  BY <1>1, <1>2, LiesTakeAll, Zenon
<1>4. << >> \in Seq(Object)
  OBVIOUS
<1> QED
  BY <1>1, <1>2, <1>3, <1>4, Zenon DEF Laid

-----------------------------------------------------------------------------
(* The queues                                                               *)

CoreInv(c) == LoggedInv(c) /\ PendingInv(c) /\ QueueInv(c)

\* What StreamInv says of a core depends on that core's queues only.
LEMMA OtherCore ==
    ASSUME NEW c, CoreInv(c),
           queue'[c] = queue[c], current'[c] = current[c], logged'[c] = logged[c],
           pending'[c] = pending[c], pending_ts'[c] = pending_ts[c], written'[c] = written[c]
    PROVE  CoreInv(c)'
<1>1. LoggedInv(c)' /\ PendingInv(c)'
  BY Zenon DEF CoreInv, LoggedInv, PendingInv
<1>2. Oldest(c)' = Oldest(c) /\ Gone(c)' = Gone(c) /\ Newest(c)' = Newest(c)
  BY Zenon DEF Oldest, Gone, Newest
<1>3. Sizes(c)' = Sizes(c)
  BY <1>2, Zenon DEF Sizes
<1>4. QueueInv(c)'
  BY <1>2, <1>3, Zenon DEF CoreInv, QueueInv
<1> QED
  BY <1>1, <1>4, Zenon DEF CoreInv

\* The types of one core's part of the state.
LEMMA CoreType ==
    ASSUME TypeOK, NEW c \in Core
    PROVE  /\ queue[c] \in Seq(Object) /\ current[c] \in Seq(Event)
           /\ logged[c] \in Seq(Seq(Event)) /\ pending[c] \in Seq(Event)
           /\ pending_ts[c] \in Nat /\ stamp[c] \in Nat
           /\ written[c] \in Nat /\ written[c] <= Len(logged[c])
           /\ Oldest(c) \in Nat \ {0} /\ Newest(c) \in Nat \ {0} /\ Gone(c) \in Nat
           /\ Sizes(c) \in [1 .. Newest(c) -> Nat]
<1>1. /\ queue[c] \in Seq(Object) /\ current[c] \in Seq(Event)
      /\ logged[c] \in Seq(Seq(Event)) /\ pending[c] \in Seq(Event)
      /\ pending_ts[c] \in Nat /\ stamp[c] \in Nat
      /\ written[c] \in Nat /\ written[c] <= Len(logged[c])
  BY Zenon DEF TypeOK
<1>2. Oldest(c) \in Nat \ {0}
  BY <1>1 DEF Oldest
<1>3. Newest(c) \in Nat \ {0}
  BY <1>1 DEF Newest
<1>4. Gone(c) \in Nat
  BY <1>1 DEF Gone
<1>5. Sizes(c) \in [1 .. Newest(c) -> Nat]
  <2>1. \A k \in 1 .. Newest(c) : k # Newest(c) => k \in 1 .. Len(logged[c])
    BY <1>1 DEF Newest
  <2>2. \A k \in 1 .. Len(logged[c]) : logged[c][k] \in Seq(Event)
    BY <1>1
  <2>3. \A q \in Seq(Event) : Len(q) \in Nat
    OBVIOUS
  <2> QED
    BY <1>1, <2>1, <2>2, <2>3, Zenon DEF Sizes
<1> QED
  BY <1>1, <1>2, <1>3, <1>4, <1>5, Zenon

LEMMA CoreQueue ==
    ASSUME TypeOK, NEW c \in Core, CoreInv(c)
    PROVE  \E f : Laid(c, Oldest(c), Newest(c), Gone(c), Sizes(c), queue[c], f)
<1>1. PICK f \in [Oldest(c) .. Newest(c) -> Places(Gone(c), queue[c])] :
          Lies(c, Oldest(c), Newest(c), Gone(c), Sizes(c), queue[c], f)
  BY Zenon DEF CoreInv, QueueInv
<1>2. Places(Gone(c), queue[c]) \subseteq Int
  BY CoreType DEF Places
<1>3. f \in [Oldest(c) .. Newest(c) -> Int]
  BY <1>1, <1>2, Zenon
<1> QED
  BY <1>1, <1>3, CoreType, Zenon DEF CoreInv, QueueInv, Laid

\* The k-th instruction of a core with one more event.
LEMMA InstrGrows ==
    ASSUME NEW c, NEW k, NEW s \in Seq(Event), s = Instr(c, k, Len(s)),
           NEW e \in Event, e = <<c, k, Len(s) + 1>>
    PROVE  Append(s, e) = Instr(c, k, Len(s) + 1)
<1>1. PICK m \in Nat : m = Len(s)
  OBVIOUS
<1>2. Append(s, e) = [j \in 1 .. m + 1 |-> IF j = m + 1 THEN e ELSE s[j]]
  BY <1>1
<1>3. \A j \in 1 .. m + 1 : j # m + 1 => j \in 1 .. m
  OBVIOUS
<1>4. \A j \in 1 .. m : s[j] = <<c, k, j>>
  BY <1>1, Zenon DEF Instr
<1>5. \A j \in 1 .. m + 1 : (IF j = m + 1 THEN e ELSE s[j]) = <<c, k, j>>
  BY <1>1, <1>3, <1>4, Zenon
<1> QED
  BY <1>1, <1>2, <1>5, Zenon DEF Instr

LEMMA SeqIsFcn ==
    ASSUME NEW S, NEW r \in Seq(S)
    PROVE  r = [j \in 1 .. Len(r) |-> r[j]]
<1>1. r \in [1 .. Len(r) -> S]
  OBVIOUS
<1> QED
  BY <1>1, Zenon

LEMMA ConcatIs ==
    ASSUME NEW S, NEW u \in Seq(S), NEW v \in Seq(S)
    PROVE  u \o v = [j \in 1 .. Len(u) + Len(v) |-> IF j <= Len(u) THEN u[j] ELSE v[j - Len(u)]]
<1>1. u \o v \in Seq(S) /\ Len(u \o v) = Len(u) + Len(v)
  OBVIOUS
<1>2. \A j \in 1 .. Len(u) + Len(v) : (u \o v)[j] = IF j <= Len(u) THEN u[j] ELSE v[j - Len(u)]
  OBVIOUS
<1>3. u \o v = [j \in 1 .. Len(u) + Len(v) |-> (u \o v)[j]]
  BY <1>1, SeqIsFcn, Zenon
<1> QED
  BY <1>2, <1>3, Zenon

\* The events that leave the queue continue the pending instruction.
IsInstr(s, c, k) == s = Instr(c, k, Len(s))
Joins(s, q, n, c, k) == s \o Events(SubSeq(q, 1, n)) = Instr(c, k, Len(s) + n)

LEMMA InstrJoins ==
    ASSUME NEW c, NEW k, NEW s \in Seq(Event), IsInstr(s, c, k),
           NEW q \in Seq(Object), NEW n \in 0 .. Len(q), \A i \in 1 .. n : ~IsCommit(q[i]),
           \A i \in 1 .. n : q[i] = EventObject(c, k, Len(s) + i)
    PROVE  Joins(s, q, n, c, k)
<1>1. PICK m \in Nat : m = Len(s)
  OBVIOUS
<1>2. PICK t \in Seq(Event) : t = Events(SubSeq(q, 1, n)) /\ Len(t) = n
                              /\ \A i \in 1 .. n : t[i] = q[i].event
  BY EventsBefore, Zenon
<1>3. \A i \in 1 .. n : t[i] = <<c, k, m + i>>
  <2>1. \A i \in 1 .. n : EventObject(c, k, m + i).event = <<c, k, m + i>>
    BY DEF EventObject
  <2> QED
    BY <1>1, <1>2, <2>1, Zenon
<1>4. s \o t = [j \in 1 .. m + n |-> IF j <= m THEN s[j] ELSE t[j - m]]
  <2>1. s \o t = [j \in 1 .. Len(s) + Len(t) |-> IF j <= Len(s) THEN s[j] ELSE t[j - Len(s)]]
    BY ConcatIs, Zenon
  <2> QED
    BY <1>1, <1>2, <2>1, Zenon
<1>5. \A j \in 1 .. m + n : /\ j <= m => j \in 1 .. m
                            /\ ~(j <= m) => j - m \in 1 .. n /\ m + (j - m) = j
  OBVIOUS
<1>6. \A j \in 1 .. m : s[j] = <<c, k, j>>
  BY <1>1, Zenon DEF Instr, IsInstr
<1>7. \A j \in 1 .. m + n : (IF j <= m THEN s[j] ELSE t[j - m]) = <<c, k, j>>
  BY <1>3, <1>5, <1>6, Zenon
<1> QED
  BY <1>1, <1>2, <1>4, <1>7, Zenon DEF Instr, Joins

LEMMA LogStep ==
    ASSUME TypeOK, NEW c \in Core, CoreInv(c), Log(c)
    PROVE  CoreInv(c)'
<1> DEFINE z == Newest(c)
           m == Len(current[c])
           e == <<c, z, m + 1>>
<1>1. /\ queue[c] \in Seq(Object) /\ current[c] \in Seq(Event) /\ logged[c] \in Seq(Seq(Event))
      /\ Oldest(c) \in Nat \ {0} /\ z \in Nat \ {0} /\ Gone(c) \in Nat
      /\ Sizes(c) \in [1 .. z -> Nat]
  BY CoreType, Zenon
<1>2. /\ queue'[c] = Append(queue[c], EventObject(c, z, m + 1))
      /\ current'[c] = Append(current[c], e)
      /\ UNCHANGED <<logged, pending, pending_ts, written>>
  BY Zenon DEF Log, thread, TypeOK, EventObject, Newest
<1>3. e \in Event /\ EventObject(c, z, m + 1) \in Object
  <2>1. z \in 1 .. Instrs /\ m + 1 \in 1 .. MaxEvents
    <3>1. Len(logged[c]) < Instrs /\ m < MaxEvents
      BY Zenon DEF Log
    <3> QED
      BY <1>1, <3>1, CoresAssumption DEF Newest
  <2>2. e \in Event
    BY <2>1, Zenon DEF Event
  <2> QED
    BY <2>2 DEF EventObject, Object
<1>4. Len(current'[c]) = m + 1
  BY <1>1, <1>2, <1>3
<1>5. LoggedInv(c)' /\ PendingInv(c)'
  <2>1. current[c] = Instr(c, z, m)
    BY Zenon DEF CoreInv, LoggedInv, Newest
  <2>2. current'[c] = Instr(c, z, m + 1)
    BY <1>1, <1>2, <1>3, <2>1, InstrGrows, Zenon
  <2> QED
    BY <1>2, <1>4, <2>2, Zenon DEF CoreInv, LoggedInv, PendingInv, Newest
<1>6. Oldest(c)' = Oldest(c) /\ Gone(c)' = Gone(c) /\ Newest(c)' = z
  BY <1>2, Zenon DEF Oldest, Gone, Newest
<1>7. /\ Sizes(c)[z] = m /\ Sizes(c)'[z] = m + 1
      /\ \A k \in 1 .. z - 1 : Sizes(c)'[k] = Sizes(c)[k]
      /\ Sizes(c)' \in [1 .. z -> Nat]
  <2>1. z \in 1 .. z /\ m + 1 \in Nat /\ \A k \in 1 .. z - 1 : k # z /\ k \in 1 .. z
    BY <1>1
  <2>2. Sizes(c)' = [k \in 1 .. z |-> IF k = z THEN m + 1 ELSE Len(logged[c][k])]
    BY <1>2, <1>4, <1>6, Zenon DEF Sizes
  <2>3. Sizes(c) = [k \in 1 .. z |-> IF k = z THEN m ELSE Len(logged[c][k])]
    BY Zenon DEF Sizes
  <2>4. \A k \in 1 .. z : k # z => Len(logged[c][k]) \in Nat
    BY <1>1, <2>3, Zenon
  <2> QED
    BY <2>1, <2>2, <2>3, <2>4, Zenon
<1>8. PICK f : Laid(c, Oldest(c), z, Gone(c), Sizes(c), queue[c], f)
  BY CoreQueue, Zenon
<1> HIDE DEF z, m, e
<1>9. /\ Grown(Sizes(c), Sizes(c)', z) /\ EventObject(c, z, Sizes(c)[z] + 1) \in Object
      /\ queue'[c] = Append(queue[c], EventObject(c, z, Sizes(c)[z] + 1))
  BY <1>2, <1>3, <1>7, Zenon DEF Grown
<1>10. Laid(c, Oldest(c), z, Gone(c), Sizes(c)', queue'[c], f)
  BY <1>8, <1>9, LaidLog, Zenon
<1>11. f \in [Oldest(c) .. z -> Places(Gone(c), queue'[c])]
  BY <1>10, LaidPlaces, Zenon
<1>12. QueueInv(c)'
  BY <1>6, <1>10, <1>11, Zenon DEF QueueInv, Laid
<1> QED
  BY <1>5, <1>12, Zenon DEF CoreInv

LEMMA LogCommitStep ==
    ASSUME TypeOK, NEW c \in Core, CoreInv(c), log_commit(c)
    PROVE  CoreInv(c)'
<1> DEFINE z == Newest(c)
           lg == logged[c]
           cur == current[c]
           obj == [ts |-> stamp[c]]
<1>1. /\ queue[c] \in Seq(Object) /\ cur \in Seq(Event) /\ lg \in Seq(Seq(Event))
      /\ Oldest(c) \in Nat \ {0} /\ z \in Nat \ {0} /\ Gone(c) \in Nat
      /\ Sizes(c) \in [1 .. z -> Nat] /\ stamp[c] \in Nat /\ written[c] \in Nat
      /\ written[c] <= Len(lg)
  BY CoreType, Zenon
<1>2. /\ queue'[c] = Append(queue[c], obj) /\ stamp[c] > 0
      /\ logged'[c] = Append(lg, cur) /\ current'[c] = << >>
      /\ UNCHANGED <<pending, pending_ts, written>>
  BY Zenon DEF log_commit, thread, TypeOK
<1>3. obj \in Object /\ IsCommit(obj)
  BY <1>1, <1>2 DEF Object, IsCommit
<1>4. /\ Len(logged'[c]) = z /\ logged'[c][z] = cur /\ Len(lg) + 1 = z
      /\ \A k \in 1 .. z - 1 : k \in 1 .. Len(lg) /\ logged'[c][k] = lg[k]
  BY <1>1, <1>2 DEF Newest
<1>5. \A k \in 1 .. z : (k = z \/ k \in 1 .. z - 1) /\ k # z + 1 /\ k \in 1 .. z + 1
  BY <1>1
<1>6. \A k \in 1 .. z - 1 : lg[k] = Instr(c, k, Len(lg[k]))
  BY <1>4, Zenon DEF CoreInv, LoggedInv
<1>7. cur = Instr(c, z, Len(cur))
  BY Zenon DEF CoreInv, LoggedInv, Newest
<1>8. LoggedInv(c)'
  <2>1. \A k \in 1 .. z : logged'[c][k] = Instr(c, k, Len(logged'[c][k]))
    BY <1>4, <1>5, <1>6, <1>7, Zenon
  <2>2. Len(<< >>) = 0 /\ 1 .. 0 = {}
    OBVIOUS
  <2>3. << >> = Instr(c, z + 1, 0)
    BY <2>2 DEF Instr
  <2> QED
    BY <1>2, <1>4, <2>1, <2>2, <2>3, Zenon DEF LoggedInv
<1>9. PendingInv(c)'
  <2>1. pending_ts[c] > 0 => written[c] + 1 \in 1 .. z - 1 /\ written[c] < z
    <3>1. PICK w \in Nat, l \in Nat : w = written[c] /\ l = Len(lg)
      BY <1>1
    <3>2. l + 1 = z /\ (pending_ts[c] > 0 => w < l)
      BY <1>4, <3>1, Zenon DEF CoreInv, PendingInv
    <3>3. PICK y \in Nat : y = z
      BY <1>1, Zenon
    <3>4. l + 1 = y
      BY <3>2, <3>3, Zenon
    <3>5. w < l => w + 1 \in 1 .. y - 1 /\ w < y
      BY <3>4
    <3> QED
      BY <3>1, <3>2, <3>3, <3>5, Zenon
  <2> QED
    BY <1>2, <1>4, <2>1, Zenon DEF CoreInv, PendingInv
<1>10. Oldest(c)' = Oldest(c) /\ Gone(c)' = Gone(c) /\ Newest(c)' = z + 1
  BY <1>2, <1>4, Zenon DEF Oldest, Gone, Newest
<1>11. Begun(Sizes(c), Sizes(c)', z)
  <2>0. \A n \in Nat \ {0} : /\ n + 1 \in 1 .. n + 1
                              /\ \A k \in 1 .. n + 1 : k = n + 1 \/ k \in 1 .. n
    OBVIOUS
  <2>1. /\ 0 \in Nat /\ z + 1 \in 1 .. z + 1
        /\ \A k \in 1 .. z + 1 : k = z + 1 \/ k \in 1 .. z
    BY <1>1, <2>0, Zenon
  <2>7. Len(current'[c]) = 0
    BY <1>2
  <2>2. Sizes(c)' = [k \in 1 .. z + 1 |-> IF k = z + 1 THEN 0 ELSE Len(logged'[c][k])]
    BY <1>10, <2>7, Zenon DEF Sizes
  <2>3. Sizes(c) = [k \in 1 .. z |-> IF k = z THEN Len(cur) ELSE Len(lg[k])]
    BY Zenon DEF Sizes
  <2>4. \A k \in 1 .. z : k # z \/ k \notin 1 .. z - 1
    BY <1>1
  <2>5. \A k \in 1 .. z : Len(logged'[c][k]) = Sizes(c)[k]
    BY <1>4, <1>5, <2>3, <2>4, Zenon
  <2>6. \A k \in 1 .. z : Sizes(c)[k] \in Nat
    BY <1>1, Zenon
  <2> QED
    BY <1>5, <2>1, <2>2, <2>5, <2>6, Zenon DEF Begun
<1>12. PICK f : Laid(c, Oldest(c), z, Gone(c), Sizes(c), queue[c], f)
  BY CoreQueue, Zenon
<1> HIDE DEF z, lg, cur, obj
<1>13. PICK h : Laid(c, Oldest(c), z + 1, Gone(c), Sizes(c)', queue'[c], h)
  <2>1. \E h : Laid(c, Oldest(c), z + 1, Gone(c), Sizes(c)', Append(queue[c], obj), h)
    BY <1>3, <1>11, <1>12, LaidCommit, Zenon
  <2> QED
    BY <1>2, <2>1, Zenon
<1>14. h \in [Oldest(c) .. z + 1 -> Places(Gone(c), queue'[c])]
  BY <1>13, LaidPlaces, Zenon
<1>15. QueueInv(c)'
  BY <1>10, <1>13, <1>14, Zenon DEF QueueInv, Laid
<1> QED
  BY <1>8, <1>9, <1>15, Zenon DEF CoreInv

\* commitMergedLogging of core c.
LEMMA WriteStep ==
    ASSUME TypeOK, NEW c \in Core, CoreInv(c), pending_ts[c] > 0,
           queue'[c] = queue[c], current'[c] = current[c], logged'[c] = logged[c],
           pending'[c] = << >>, pending_ts'[c] = 0, written'[c] = written[c] + 1
    PROVE  CoreInv(c)'
<1>1. written[c] \in Nat
  BY CoreType, Zenon
<1>2. ~(0 > 0) /\ (written[c] + 1) + 1 = written[c] + 2 /\ Len(<< >>) = 0 /\ 1 .. 0 = {}
  BY <1>1
<1>3. \A k : << >> = Instr(c, k, 0)
  BY <1>2 DEF Instr
<1>4. Oldest(c)' = Oldest(c) /\ Gone(c)' = Gone(c) /\ Newest(c)' = Newest(c)
  BY <1>2, Zenon DEF Oldest, Gone, Newest
<1>5. Sizes(c)' = Sizes(c)
  BY <1>4, Zenon DEF Sizes
<1>6. QueueInv(c)'
  BY <1>4, <1>5, Zenon DEF CoreInv, QueueInv
<1>7. LoggedInv(c)' /\ PendingInv(c)'
  BY <1>2, <1>3, Zenon DEF CoreInv, LoggedInv, PendingInv
<1> QED
  BY <1>6, <1>7, Zenon DEF CoreInv

\* handleMergedLogging of core c's logger.
LEMMA TakeStep ==
    ASSUME TypeOK, NEW c \in Core, CoreInv(c), TakeInstr(c), UNCHANGED <<current, logged, written>>
    PROVE  CoreInv(c)'
<1>1. CASE pending_ts[c] > 0
  BY <1>1, OtherCore, Zenon DEF TakeInstr
<1>2. CASE ~(pending_ts[c] > 0)
  <2> DEFINE q == queue[c]
             a == Oldest(c)
             z == Newest(c)
             g == Gone(c)
             p == pending[c]
             n == FirstCommit(q)
             b == Before(q)
  <2>1. /\ q \in Seq(Object) /\ p \in Seq(Event) /\ logged[c] \in Seq(Seq(Event))
        /\ pending_ts[c] \in Nat /\ written[c] \in Nat /\ written[c] <= Len(logged[c])
        /\ a \in Nat \ {0} /\ z \in Nat \ {0} /\ g \in Nat /\ Sizes(c) \in [1 .. z -> Nat]
    BY CoreType, Zenon
  <2>2. /\ pending_ts[c] = 0 /\ a = written[c] + 1 /\ g = Len(p) /\ z = Len(logged[c]) + 1
    BY <1>2, <2>1 DEF Oldest, Gone, Newest
  <2>3. /\ queue'[c] = Rest(q)
        /\ pending'[c] = p \o Events(SubSeq(q, 1, b))
        /\ pending_ts'[c] = IF n = 0 THEN 0 ELSE q[n].ts
    <3>1. c \in DOMAIN queue /\ c \in DOMAIN pending /\ c \in DOMAIN pending_ts
      BY DEF TypeOK
    <3>2. /\ queue' = [queue EXCEPT ![c] = Rest(q)]
          /\ pending' = [pending EXCEPT ![c] = p \o Events(SubSeq(q, 1, b))]
          /\ pending_ts' = [pending_ts EXCEPT ![c] = IF n = 0 THEN 0 ELSE q[n].ts]
      BY <2>2, TakenInstr, Zenon
    <3> QED
      BY <3>1, <3>2, Zenon
  <2>4. /\ b \in 0 .. Len(q) /\ \A i \in 1 .. b : ~IsCommit(q[i])
        /\ n # 0 => n \in 1 .. Len(q) /\ IsCommit(q[n])
        /\ n \in Nat
    BY <2>1, BeforeIs, Zenon
  <2>5. PICK f : Laid(c, a, z, g, Sizes(c), q, f)
    BY CoreQueue, Zenon
  <2>6. FirstOut(c, a, z, g, Sizes(c), q, f)
    BY <2>5, LaidFirst, Zenon
  <2>7. IsInstr(p, c, a)
    BY <2>2, Zenon DEF CoreInv, PendingInv, IsInstr
  <2> HIDE DEF q, a, z, g, p, n, b
  <2>8. pending'[c] = Instr(c, a, g + b)
    <3>1. \A i \in 1 .. b : q[i] = EventObject(c, a, Len(p) + i)
      BY <2>2, <2>6, Zenon DEF FirstOut, b
    <3>2. Joins(p, q, b, c, a)
      BY <2>1, <2>4, <2>7, <3>1, InstrJoins, Zenon
    <3> QED
      BY <2>2, <2>3, <3>2, Zenon DEF Joins
  <2>9. Len(pending'[c]) = g + b
    <3>1. PICK t \in Seq(Event) : t = Events(SubSeq(q, 1, b)) /\ Len(t) = b
      BY <2>1, <2>4, EventsBefore, Zenon
    <3>2. \A u, v \in Seq(Event) : Len(u \o v) = Len(u) + Len(v)
      OBVIOUS
    <3>3. Len(p \o t) = Len(p) + Len(t)
      BY <2>1, <3>1, <3>2, Zenon
    <3> QED
      BY <2>2, <2>3, <3>1, <3>3, Zenon
  <2>10. Newest(c)' = z /\ Sizes(c)' = Sizes(c) /\ LoggedInv(c)'
    BY Zenon DEF Newest, Sizes, CoreInv, LoggedInv, z
  <2>11. a < z \/ a = z
    <3>1. a <= z
      BY <2>5, Zenon DEF Laid
    <3> QED
      BY <2>1, <3>1
  <2>12. CASE a < z
    <3>1. n \in 1 .. Len(q) /\ n # 0 /\ b = n - 1 /\ Sizes(c)[a] = g + b
      <4>1. n \in 1 .. Len(q) /\ Sizes(c)[a] = g + (n - 1)
        BY <2>6, <2>12, Zenon DEF FirstOut, n
      <4>2. n # 0
        BY <4>1
      <4> QED
        BY <4>1, <4>2, Zenon DEF b, Before, n
    <3>2. pending_ts'[c] > 0
      BY <2>3, <2>4, <3>1, Zenon DEF IsCommit
    <3>3. written[c] < Len(logged[c]) /\ a # z /\ a \in 1 .. z /\ a \in 1 .. Len(logged[c])
      BY <2>1, <2>2, <2>12
    <3>4. logged[c][a] = Instr(c, a, Len(logged[c][a])) /\ Sizes(c)[a] = Len(logged[c][a])
      BY <3>3, Zenon DEF CoreInv, LoggedInv, Sizes, z
    <3>5. PendingInv(c)'
      BY <2>2, <2>8, <2>9, <3>1, <3>3, <3>4, Zenon DEF PendingInv
    <3>6. Oldest(c)' = a + 1 /\ Gone(c)' = 0
      <4>1. written[c] + 2 = a + 1
        BY <2>1, <2>2
      <4> QED
        BY <3>2, <4>1, Zenon DEF Oldest, Gone
    <3>7. PICK h : Laid(c, a + 1, z, 0, Sizes(c), queue'[c], h)
      BY <2>3, <2>5, <2>12, LaidTake, Zenon
    <3>8. h \in [a + 1 .. z -> Places(0, queue'[c])]
      BY <3>7, LaidPlaces, Zenon
    <3>9. QueueInv(c)'
      BY <2>10, <3>6, <3>7, <3>8, Zenon DEF QueueInv, Laid
    <3> QED
      BY <2>10, <3>5, <3>9, Zenon DEF CoreInv
  <2>13. CASE a = z
    <3>1. n = 0 /\ b = Len(q) /\ Sizes(c)[z] = g + b
      BY <2>6, <2>13, Zenon DEF FirstOut, n, b, Before
    <3>2. pending_ts'[c] = 0 /\ ~(pending_ts'[c] > 0)
      BY <2>3, <3>1
    <3>3. PendingInv(c)'
      BY <2>2, <2>8, <2>9, <3>2, Zenon DEF PendingInv
    <3>4. Oldest(c)' = z /\ Gone(c)' = Sizes(c)[z]
      BY <2>2, <2>9, <2>13, <3>1, <3>2, Zenon DEF Oldest, Gone
    <3>5. queue'[c] = << >>
      <4>1. Rest(q) = SubSeq(q, Len(q) + 1, Len(q))
        BY <3>1, Zenon DEF Rest, n
      <4> QED
        BY <2>1, <2>3, <4>1
    <3>6. PICK h : Laid(c, z, z, Sizes(c)[z], Sizes(c), queue'[c], h)
      <4>1. Laid(c, z, z, g, Sizes(c), q, f)
        BY <2>5, <2>13, Zenon
      <4>2. \E h : Laid(c, z, z, Sizes(c)[z], Sizes(c), << >>, h)
        BY <4>1, LaidTakeAll, Zenon
      <4> QED
        BY <3>5, <4>2, Zenon
    <3>7. h \in [z .. z -> Places(Sizes(c)[z], queue'[c])]
      BY <3>6, LaidPlaces, Zenon
    <3>8. QueueInv(c)'
      BY <2>10, <3>4, <3>6, <3>7, Zenon DEF QueueInv, Laid
    <3> QED
      BY <2>10, <3>3, <3>8, Zenon DEF CoreInv
  <2> QED
    BY <2>11, <2>12, <2>13, Zenon
<1> QED
  BY <1>1, <1>2

LEMMA StreamStep ==
    ASSUME Inv, [Next]_vars
    PROVE  StreamInv'
<1>0. TypeOK /\ \A d \in Core : CoreInv(d)
  BY Zenon DEF Inv, StreamInv, CoreInv
<1> SUFFICES ASSUME NEW d \in Core PROVE CoreInv(d)'
  BY Zenon DEF StreamInv, CoreInv
<1>1. ASSUME NEW c \in Core, Log(c) PROVE CoreInv(d)'
  <2>1. CASE d = c
    BY <1>0, <1>1, <2>1, LogStep, Zenon
  <2>2. CASE d # c
    <3>1. queue'[d] = queue[d] /\ current'[d] = current[d]
          /\ UNCHANGED <<logged, pending, pending_ts, written>>
      BY <1>0, <1>1, <2>2, Zenon DEF Log, thread, TypeOK
    <3> QED
      BY <1>0, <3>1, OtherCore, Zenon
  <2> QED
    BY <2>1, <2>2, Zenon
<1>2. ASSUME NEW c \in Core, Stamp(c) PROVE CoreInv(d)'
  <2>1. UNCHANGED <<queue, current, logged, pending, pending_ts, written>>
    BY <1>2, Zenon DEF Stamp, thread
  <2> QED
    BY <1>0, <2>1, OtherCore, Zenon
<1>3. ASSUME NEW c \in Core, log_commit(c) PROVE CoreInv(d)'
  <2>1. CASE d = c
    BY <1>0, <1>3, <2>1, LogCommitStep, Zenon
  <2>2. CASE d # c
    <3>1. queue'[d] = queue[d] /\ current'[d] = current[d] /\ logged'[d] = logged[d]
          /\ UNCHANGED <<pending, pending_ts, written>>
      BY <1>0, <1>3, <2>2, Zenon DEF log_commit, thread, TypeOK
    <3> QED
      BY <1>0, <3>1, OtherCore, Zenon
  <2> QED
    BY <2>1, <2>2, Zenon
<1>4. CASE doneLogging \/ runMergedStream \/ Joined \/ UNCHANGED vars
  <2>1. UNCHANGED <<queue, current, logged, pending, pending_ts, written>>
    BY <1>4, Zenon DEF doneLogging, runMergedStream, Joined, vars, cores, thread
  <2> QED
    BY <1>0, <2>1, OtherCore, Zenon
<1>5. CASE Scan
  <2>1. io.i \in Core
    BY <1>0, <1>5 DEF Scan, TypeOK, Position, Core
  <2>2. TakeInstr(io.i) /\ UNCHANGED <<current, logged, written>>
    BY <1>5, Zenon DEF Scan
  <2>3. CASE d = io.i
    BY <1>0, <2>2, <2>3, TakeStep, Zenon
  <2>4. CASE d # io.i
    <3>1. queue'[d] = queue[d] /\ pending'[d] = pending[d] /\ pending_ts'[d] = pending_ts[d]
      BY <1>0, <2>1, <2>2, <2>4, Zenon DEF TakeInstr, TypeOK
    <3> QED
      BY <1>0, <2>2, <3>1, OtherCore, Zenon
  <2> QED
    BY <2>3, <2>4, Zenon
<1>6. CASE commitMergedLogging
  <2> DEFINE c == io.min_index
  <2>1. c \in Core /\ pending_ts[c] > 0
    BY <1>6, WinnerHasOne, Zenon DEF commitMergedLogging
  <2>2. /\ UNCHANGED <<queue, current, logged>>
        /\ pending' = [pending EXCEPT ![c] = <<>>]
        /\ pending_ts' = [pending_ts EXCEPT ![c] = 0]
        /\ written' = [written EXCEPT ![c] = written[c] + 1]
    BY <1>6, Zenon DEF commitMergedLogging, cores
  <2> HIDE DEF c
  <2>3. CASE d = c
    <3>1. pending'[c] = << >> /\ pending_ts'[c] = 0 /\ written'[c] = written[c] + 1
      BY <1>0, <2>1, <2>2, Zenon DEF TypeOK
    <3> QED
      BY <1>0, <2>1, <2>2, <2>3, <3>1, WriteStep, Zenon
  <2>4. CASE d # c
    <3>1. pending'[d] = pending[d] /\ pending_ts'[d] = pending_ts[d] /\ written'[d] = written[d]
      BY <1>0, <2>1, <2>2, <2>4, Zenon DEF TypeOK
    <3> QED
      BY <1>0, <2>2, <3>1, OtherCore, Zenon
  <2> QED
    BY <2>3, <2>4, Zenon
<1> QED
  BY <1>1, <1>2, <1>3, <1>4, <1>5, <1>6, Zenon DEF Next

-----------------------------------------------------------------------------
(* The scan and the drain                                                   *)

\* A logger that is asked hands out what it had available, or its queue is empty.
LEMMA TakeGives ==
    ASSUME TypeOK, NEW c \in Core, TakeInstr(c)
    PROVE  /\ pending_ts'[c] = Available(c)
           /\ pending_ts'[c] = 0 => queue'[c] = << >>
           /\ \A d \in Core : d # c => pending_ts'[d] = pending_ts[d] /\ queue'[d] = queue[d]
<1>1. queue[c] \in Seq(Object) /\ pending_ts[c] \in Nat
  BY CoreType, Zenon
<1>2. \A d \in Core : d # c => pending_ts'[d] = pending_ts[d] /\ queue'[d] = queue[d]
  BY Zenon DEF TakeInstr, TypeOK
<1>3. CASE pending_ts[c] > 0
  <2>1. pending_ts[c] # 0
    BY <1>3
  <2> QED
    BY <1>2, <1>3, <2>1, Zenon DEF TakeInstr, Available
<1>4. CASE ~(pending_ts[c] > 0)
  <2> DEFINE n == FirstCommit(queue[c])
  <2>1. pending_ts[c] = 0
    BY <1>1, <1>4
  <2>2. pending_ts'[c] = (IF n = 0 THEN 0 ELSE queue[c][n].ts) /\ queue'[c] = Rest(queue[c])
    <3>1. c \in DOMAIN queue /\ c \in DOMAIN pending_ts
      BY DEF TypeOK
    <3>2. /\ pending_ts' = [pending_ts EXCEPT ![c] = IF n = 0 THEN 0 ELSE queue[c][n].ts]
          /\ queue' = [queue EXCEPT ![c] = Rest(queue[c])]
      BY <2>1, TakenInstr, Zenon
    <3> QED
      BY <3>1, <3>2, Zenon
  <2>3. pending_ts'[c] = Available(c)
    BY <1>4, <2>2, Zenon DEF Available
  <2>4. n # 0 => queue[c][n].ts > 0
    BY <1>1, BeforeIs, Zenon DEF IsCommit
  <2>5. \A x : x > 0 => x # 0
    OBVIOUS
  <2>6. SubSeq(queue[c], Len(queue[c]) + 1, Len(queue[c])) = << >>
    BY <1>1
  <2>7. pending_ts'[c] = 0 => queue'[c] = << >>
    BY <2>2, <2>4, <2>5, <2>6, Zenon DEF Rest
  <2> QED
    BY <1>2, <2>3, <2>7, Zenon
<1> QED
  BY <1>3, <1>4

\* What a logger has available stays available while its core pushes.
LEMMA StaysAvailable ==
    ASSUME TypeOK, NEW c \in Core, pending_ts'[c] = pending_ts[c], Available(c) > 0,
           \/ queue'[c] = queue[c]
           \/ \E obj \in Object : queue'[c] = Append(queue[c], obj)
    PROVE  Available(c)' = Available(c)
<1>1. queue[c] \in Seq(Object)
  BY CoreType, Zenon
<1>2. CASE queue'[c] = queue[c]
  BY <1>2, Zenon DEF Available
<1>3. ASSUME NEW obj \in Object, queue'[c] = Append(queue[c], obj)
      PROVE  Available(c)' = Available(c)
  <2>1. CASE pending_ts[c] > 0
    BY <2>1, Zenon DEF Available
  <2>2. CASE ~(pending_ts[c] > 0)
    <3>1. FirstCommit(queue[c]) # 0
      <4>1. ~(0 > 0)
        OBVIOUS
      <4> QED
        BY <2>2, <4>1, Zenon DEF Available
    <3>2. /\ FirstCommit(queue'[c]) = FirstCommit(queue[c])
          /\ queue'[c][FirstCommit(queue[c])] = queue[c][FirstCommit(queue[c])]
      BY <1>1, <1>3, <3>1, FirstCommitStays, Zenon
    <3> QED
      BY <2>2, <3>1, <3>2, Zenon DEF Available
  <2> QED
    BY <2>1, <2>2, Zenon
<1> QED
  BY <1>2, <1>3, Zenon

\* A step of a core leaves the I/O thread alone and only adds to its queue.
LEMMA CoreStep ==
    ASSUME Inv, NEW c \in Core, Log(c) \/ Stamp(c) \/ log_commit(c)
    PROVE  /\ ~done /\ UNCHANGED <<io, pending_ts, ready, done>>
           /\ \A d \in Core : \/ queue'[d] = queue[d]
                              \/ \E obj \in Object : queue'[d] = Append(queue[d], obj)
<1>1. TypeOK /\ DrainInv
  BY Zenon DEF Inv
<1>2. CASE Log(c)
  <2> DEFINE obj == [ts |-> 0, event |-> <<c, Len(logged[c]) + 1, Len(current[c]) + 1>>]
  <2>1. queue' = [queue EXCEPT ![c] = Append(queue[c], obj)] /\ UNCHANGED <<io, pending_ts, ready, done>>
        /\ ~done
    BY <1>2, Zenon DEF Log, thread
  <2>2. obj \in Object
    <3>1. Len(logged[c]) < Instrs /\ Len(current[c]) < MaxEvents
      BY <1>2, Zenon DEF Log
    <3>2. current[c] \in Seq(Event) /\ logged[c] \in Seq(Seq(Event))
      BY <1>1, CoreType, Zenon
    <3>3. Len(logged[c]) + 1 \in 1 .. Instrs /\ Len(current[c]) + 1 \in 1 .. MaxEvents
      BY <3>1, <3>2, CoresAssumption
    <3>4. <<c, Len(logged[c]) + 1, Len(current[c]) + 1>> \in Event
      BY <3>3, Zenon DEF Event
    <3> QED
      BY <3>4 DEF Object
  <2> HIDE DEF obj
  <2> QED
    BY <1>1, <2>1, <2>2, Zenon DEF TypeOK
<1>3. CASE Stamp(c)
  BY <1>3, Zenon DEF Stamp, thread
<1>4. CASE log_commit(c)
  <2>1. /\ queue' = [queue EXCEPT ![c] = Append(queue[c], [ts |-> stamp[c]])]
        /\ UNCHANGED <<io, pending_ts, ready, done>> /\ stamp[c] > 0
    BY <1>4, Zenon DEF log_commit, thread
  <2>2. stamp[c] \in Nat
    BY <1>1, CoreType, Zenon
  <2>3. [ts |-> stamp[c]] \in Object /\ stamp[c] # 0
    BY <2>1, <2>2 DEF Object
  <2>4. ~done
    BY <1>1, <2>3, Zenon DEF DrainInv
  <2> QED
    BY <1>1, <2>1, <2>3, <2>4, Zenon DEF TypeOK
<1> QED
  BY <1>2, <1>3, <1>4, Zenon

\* The four parts of ScanInv.
NoneYet == io.min_index = 0 => io.min_ts = 0 /\ \A c \in Core : c < io.i => pending_ts[c] = 0
BestKept == io.min_index > 0 => /\ io.min_index < io.i
                                /\ io.min_ts > 0
                                /\ pending_ts[io.min_index] = io.min_ts
Least_ts == \A c \in Core : c < io.i /\ pending_ts[c] > 0 => io.min_ts <= pending_ts[c]
StillReady == io.i > 1 => \A c \in Core :
    ready[c] > 0 => IF c < io.i THEN pending_ts[c] = ready[c] ELSE Available(c) = ready[c]

LEMMA ScanParts == ScanInv <=> NoneYet /\ BestKept /\ Least_ts /\ StillReady
BY Zenon DEF ScanInv, NoneYet, BestKept, Least_ts, StillReady

LEMMA ScanPartsNext == ScanInv' <=> NoneYet' /\ BestKept' /\ Least_ts' /\ StillReady'
BY Zenon DEF ScanInv, NoneYet, BestKept, Least_ts, StillReady

\* One logger is asked.
LEMMA AskStep ==
    ASSUME TypeOK, ScanInv, Scan
    PROVE  ScanInv'
<1> DEFINE j == io.i
           t == pending_ts'[j]
<1>1. j \in Core /\ io \in Position
  BY DEF Scan, TypeOK, Position, Core
<1>2. TakeInstr(j)
  BY Zenon DEF Scan
<1>3. /\ t = Available(j)
      /\ \A d \in Core : d # j => pending_ts'[d] = pending_ts[d] /\ queue'[d] = queue[d]
  BY <1>1, <1>2, TakeGives, Zenon
<1>4. t \in Nat /\ \A c \in Core : pending_ts[c] \in Nat
  BY <1>1, <1>2, TakeInstrType DEF TypeOK
<1>5. \/ Better(t, io.min_ts) /\ io'.i = j + 1 /\ io'.min_ts = t /\ io'.min_index = j
      \/ ~Better(t, io.min_ts) /\ io'.i = j + 1 /\ io'.min_ts = io.min_ts
                               /\ io'.min_index = io.min_index
  BY <1>1 DEF Scan, Position
<1>6. ready' = IF j = 1 THEN [c \in Core |-> Available(c)] ELSE ready
  BY Zenon DEF Scan
<1>7. NoneYet /\ BestKept /\ Least_ts /\ StillReady
  BY ScanParts, Zenon
<1>8. j \in Nat /\ j >= 1 /\ io.min_ts \in Nat /\ io.min_index \in Nat
      /\ \A c \in Core : c \in Nat /\ c >= 1
  BY <1>1, CoresAssumption DEF Position, Core
<1>9. \A c \in Core : (c < j + 1 <=> c < j \/ c = j) /\ (c < j => c # j)
  BY <1>8
<1> HIDE DEF j, t
<1>10. NoneYet'
  <2>1. SUFFICES ASSUME io'.min_index = 0
                 PROVE  io'.min_ts = 0 /\ \A c \in Core : c < io'.i => pending_ts'[c] = 0
    BY Zenon DEF NoneYet
  <2>2. ~Better(t, io.min_ts) /\ io'.min_ts = io.min_ts /\ io.min_index = 0 /\ io'.i = j + 1
    <3>1. j # 0
      BY <1>8
    <3> QED
      BY <1>5, <2>1, <3>1, Zenon
  <2>3. io.min_ts = 0 /\ \A c \in Core : c < j => pending_ts[c] = 0
    BY <1>7, <2>2, Zenon DEF NoneYet, j
  <2>4. t = 0
    BY <1>4, <2>2, <2>3 DEF Better
  <2> QED
    BY <1>3, <1>9, <2>2, <2>3, <2>4, Zenon DEF t
<1>11. BestKept'
  <2>1. CASE Better(t, io.min_ts) /\ io'.i = j + 1 /\ io'.min_ts = t /\ io'.min_index = j
    <3>1. t > 0 /\ j < j + 1
      BY <1>8, <2>1 DEF Better
    <3> QED
      BY <2>1, <3>1, Zenon DEF BestKept, t
  <2>2. CASE io'.i = j + 1 /\ io'.min_ts = io.min_ts /\ io'.min_index = io.min_index
    <3>1. SUFFICES ASSUME io'.min_index > 0
                   PROVE  /\ io'.min_index < io'.i /\ io'.min_ts > 0
                          /\ pending_ts'[io'.min_index] = io'.min_ts
      BY Zenon DEF BestKept
    <3>2. io.min_index < j /\ io.min_ts > 0 /\ pending_ts[io.min_index] = io.min_ts
      BY <1>7, <2>2, <3>1, Zenon DEF BestKept, j
    <3>3. io.min_index < j + 1 /\ io.min_index # j /\ io.min_index \in Core
      <4>1. io.min_index \in 0 .. Cores /\ io.min_index > 0
        BY <1>1, <2>2, <3>1, Zenon DEF Position
      <4>2. \A x \in 0 .. Cores : x > 0 => x \in Core
        BY CoresAssumption DEF Core
      <4>3. \A x \in Nat : x < j => x < j + 1 /\ x # j
        BY <1>8
      <4> QED
        BY <1>8, <3>2, <4>1, <4>2, <4>3, Zenon
    <3> QED
      BY <1>3, <2>2, <3>2, <3>3, Zenon
  <2> QED
    BY <1>5, <2>1, <2>2, Zenon
<1>12. Least_ts'
  <2>1. SUFFICES ASSUME NEW c \in Core, c < io'.i, pending_ts'[c] > 0
                 PROVE  io'.min_ts <= pending_ts'[c]
    BY Zenon DEF Least_ts
  <2>2. io'.i = j + 1
    BY <1>5, Zenon
  <2>3. CASE c = j
    <3>1. t > 0 /\ pending_ts'[c] = t
      BY <2>1, <2>3, Zenon DEF t
    <3>2. io'.min_ts <= t
      BY <1>4, <1>5, <1>8, <3>1 DEF Better
    <3> QED
      BY <3>1, <3>2, Zenon
  <2>4. CASE c < j /\ c # j
    <3>1. PICK x \in Nat : x = pending_ts[c] /\ x = pending_ts'[c]
      BY <1>3, <1>4, <2>4, Zenon
    <3>2. x > 0 /\ io.min_ts <= x
      BY <1>7, <2>1, <2>4, <3>1, Zenon DEF Least_ts, j
    <3>3. io'.min_ts <= x
      <4>1. CASE io'.min_ts = io.min_ts
        BY <3>2, <4>1, Zenon
      <4>2. CASE Better(t, io.min_ts) /\ io'.min_ts = t
        <5>1. io.min_ts # 0
          <6>0. x # 0
            BY <3>2
          <6>1. io.min_index # 0
            BY <1>7, <2>4, <3>1, <6>0, Zenon DEF NoneYet, j
          <6>2. io.min_index > 0
            BY <1>8, <6>1
          <6>3. io.min_ts > 0
            BY <1>7, <6>2, Zenon DEF BestKept
          <6> QED
            BY <1>8, <6>3
        <5> QED
          BY <1>4, <1>8, <3>2, <4>2, <5>1 DEF Better
      <4> QED
        BY <1>5, <4>1, <4>2, Zenon
    <3> QED
      BY <3>1, <3>3, Zenon
  <2> QED
    BY <1>9, <2>1, <2>2, <2>3, <2>4, Zenon
<1>13. StillReady'
  <2>1. SUFFICES ASSUME NEW c \in Core, ready'[c] > 0
                 PROVE  IF c < io'.i THEN pending_ts'[c] = ready'[c] ELSE Available(c)' = ready'[c]
    BY Zenon DEF StillReady
  <2>2. io'.i = j + 1
    BY <1>5, Zenon
  <2>3. c # j => Available(c)' = Available(c)
    BY <1>3, Zenon DEF Available
  <2>4. CASE j = 1
    <3>1. ready'[c] = Available(c) /\ ~(c < j)
      BY <1>6, <1>8, <2>4
    <3> QED
      BY <1>3, <1>9, <2>2, <2>3, <3>1, Zenon DEF t
  <2>5. CASE j # 1
    <3>1. io.i > 1
      BY <1>8, <2>5 DEF j
    <3>2. ready'[c] = ready[c]
      BY <1>6, <2>5, Zenon
    <3>3. IF c < j THEN pending_ts[c] = ready[c] ELSE Available(c) = ready[c]
      BY <1>7, <2>1, <3>1, <3>2, Zenon DEF StillReady, j
    <3>4. ~(j < j)
      BY <1>8
    <3> QED
      BY <1>3, <1>9, <2>2, <2>3, <3>2, <3>3, <3>4, Zenon DEF t
  <2> QED
    BY <2>4, <2>5, Zenon
<1> QED
  BY <1>10, <1>11, <1>12, <1>13, ScanPartsNext, Zenon

LEMMA ScanStep ==
    ASSUME Inv, [Next]_vars
    PROVE  ScanInv'
<1>0. TypeOK /\ ScanInv /\ NoneYet /\ BestKept /\ Least_ts /\ StillReady
  BY ScanParts, Zenon DEF Inv
<1>1. ASSUME UNCHANGED <<io, pending_ts, ready>>,
             \A d \in Core : \/ queue'[d] = queue[d]
                             \/ \E obj \in Object : queue'[d] = Append(queue[d], obj)
      PROVE  ScanInv'
  <2>1. NoneYet' /\ BestKept' /\ Least_ts'
    BY <1>0, <1>1, Zenon DEF NoneYet, BestKept, Least_ts
  <2>2. StillReady'
    <3>1. SUFFICES ASSUME io.i > 1, NEW c \in Core, ready[c] > 0
                   PROVE  IF c < io.i THEN pending_ts[c] = ready[c] ELSE Available(c)' = ready[c]
      BY <1>1, Zenon DEF StillReady
    <3>2. IF c < io.i THEN pending_ts[c] = ready[c] ELSE Available(c) = ready[c]
      BY <1>0, <3>1, Zenon DEF StillReady
    <3>3. Available(c) > 0 => Available(c)' = Available(c)
      BY <1>0, <1>1, StaysAvailable, Zenon
    <3> QED
      BY <3>1, <3>2, <3>3, Zenon
  <2> QED
    BY <2>1, <2>2, ScanPartsNext, Zenon
<1>2. ASSUME io'.i = 1, io'.min_ts = 0, io'.min_index = 0 PROVE ScanInv'
  <2>1. ~(0 > 0) /\ ~(1 > 1) /\ \A c \in Core : ~(c < 1)
    BY DEF Core
  <2>2. NoneYet' /\ BestKept' /\ Least_ts' /\ StillReady'
    BY <1>2, <2>1, Zenon DEF NoneYet, BestKept, Least_ts, StillReady
  <2> QED
    BY <2>2, ScanPartsNext, Zenon
<1>3. ASSUME NEW c \in Core, Log(c) \/ Stamp(c) \/ log_commit(c) PROVE ScanInv'
  BY <1>1, <1>3, CoreStep, Zenon
<1>4. CASE doneLogging \/ Joined \/ UNCHANGED vars
  <2>1. UNCHANGED <<io, pending_ts, ready, queue>>
    BY <1>4, Zenon DEF doneLogging, Joined, vars, cores, thread
  <2> QED
    BY <1>1, <2>1, Zenon
<1>5. CASE Scan
  BY <1>0, <1>5, AskStep, Zenon
<1>6. CASE commitMergedLogging
  <2>1. io'.i = 1 /\ io'.min_ts = 0 /\ io'.min_index = 0
    BY <1>6 DEF commitMergedLogging, Restart
  <2> QED
    BY <1>2, <2>1, Zenon
<1>7. CASE runMergedStream
  <2>1. io'.i = 1 /\ io'.min_ts = 0 /\ io'.min_index = 0
    BY <1>7 DEF runMergedStream, Restart
  <2> QED
    BY <1>2, <2>1, Zenon
<1> QED
  BY <1>3, <1>4, <1>5, <1>6, <1>7, Zenon DEF Next

\* The four parts of DrainInv.
CoresStopped == done => \A c \in Core : stamp[c] = 0
LastIsDone == io.last => done
Emptied == io.last => \A c \in Core : c < io.i /\ pending_ts[c] = 0 => queue[c] = << >>
AllEmpty == io.pc = "stopped" => done /\ \A c \in Core : pending_ts[c] = 0 /\ queue[c] = << >>

LEMMA DrainParts == DrainInv <=> CoresStopped /\ LastIsDone /\ Emptied /\ AllEmpty
BY Zenon DEF DrainInv, CoresStopped, LastIsDone, Emptied, AllEmpty

LEMMA DrainPartsNext == DrainInv' <=> CoresStopped' /\ LastIsDone' /\ Emptied' /\ AllEmpty'
BY Zenon DEF DrainInv, CoresStopped, LastIsDone, Emptied, AllEmpty

LEMMA DrainStep ==
    ASSUME Inv, [Next]_vars
    PROVE  DrainInv'
<1>0. TypeOK /\ ScanInv /\ CoresStopped /\ LastIsDone /\ Emptied /\ AllEmpty
  BY DrainParts, Zenon DEF Inv
<1>1. ASSUME NEW c \in Core, Log(c) \/ Stamp(c) \/ log_commit(c) PROVE DrainInv'
  <2>1. ~done /\ UNCHANGED <<io, done>>
    BY <1>1, CoreStep, Zenon
  <2>2. CoresStopped' /\ LastIsDone' /\ Emptied' /\ AllEmpty'
    BY <1>0, <2>1, Zenon DEF CoresStopped, LastIsDone, Emptied, AllEmpty
  <2> QED
    BY <2>2, DrainPartsNext, Zenon
<1>2. CASE doneLogging
  <2>1. /\ \A c \in Core : stamp[c] = 0
        /\ done' /\ UNCHANGED <<stamp, io, pending_ts, queue>>
    BY <1>2, Zenon DEF doneLogging, cores, thread
  <2>2. CoresStopped' /\ LastIsDone' /\ Emptied' /\ AllEmpty'
    BY <1>0, <2>1, Zenon DEF CoresStopped, LastIsDone, Emptied, AllEmpty
  <2> QED
    BY <2>2, DrainPartsNext, Zenon
<1>3. CASE Joined \/ UNCHANGED vars
  <2>1. UNCHANGED <<stamp, done, io, pending_ts, queue>>
    BY <1>3, Zenon DEF Joined, vars, cores, thread
  <2>2. CoresStopped' /\ LastIsDone' /\ Emptied' /\ AllEmpty'
    BY <1>0, <2>1, Zenon DEF CoresStopped, LastIsDone, Emptied, AllEmpty
  <2> QED
    BY <2>2, DrainPartsNext, Zenon
<1>4. CASE Scan
  <2> DEFINE j == io.i
  <2>1. j \in Core /\ io \in Position
    BY <1>0, <1>4 DEF Scan, TypeOK, Position, Core
  <2>2. /\ io'.i = j + 1 /\ io'.last = io.last /\ io'.pc = "scan"
        /\ UNCHANGED <<stamp, done>>
    BY <1>4, <2>1 DEF Scan, Position
  <2>3. /\ pending_ts'[j] = 0 => queue'[j] = << >>
        /\ \A d \in Core : d # j => pending_ts'[d] = pending_ts[d] /\ queue'[d] = queue[d]
    BY <1>0, <1>4, <2>1, TakeGives, Zenon DEF Scan
  <2>4. \A c \in Core : c < j + 1 => c < j \/ c = j
    BY <2>1, CoresAssumption DEF Core
  <2>5. Emptied'
    BY <1>0, <2>2, <2>3, <2>4, Zenon DEF Emptied
  <2>6. CoresStopped' /\ LastIsDone'
    BY <1>0, <2>2, Zenon DEF CoresStopped, LastIsDone
  <2>7. "scan" # "stopped"
    OBVIOUS
  <2>8. AllEmpty'
    BY <2>2, <2>7, Zenon DEF AllEmpty
  <2> QED
    BY <2>5, <2>6, <2>8, DrainPartsNext, Zenon
<1>5. ASSUME UNCHANGED <<stamp, done>>, io'.i = 1, io'.last = done, io'.pc = "scan" PROVE DrainInv'
  <2>1. "scan" # "stopped" /\ \A c \in Core : ~(c < 1)
    BY DEF Core
  <2>2. CoresStopped' /\ LastIsDone' /\ Emptied' /\ AllEmpty'
    BY <1>0, <1>5, <2>1, Zenon DEF CoresStopped, LastIsDone, Emptied, AllEmpty
  <2> QED
    BY <2>2, DrainPartsNext, Zenon
<1>6. CASE commitMergedLogging
  <2>1. UNCHANGED <<stamp, done>> /\ io'.i = 1 /\ io'.last = done /\ io'.pc = "scan"
    BY <1>6 DEF commitMergedLogging, Restart, cores
  <2> QED
    BY <1>5, <2>1, Zenon
<1>7. CASE runMergedStream
  <2>1. UNCHANGED <<stamp, done, pending_ts, queue>> /\ io'.i = 1 /\ io'.last = done
    BY <1>7 DEF runMergedStream, Restart, cores
  <2>2. CASE ~io.last
    <3>1. io'.pc = "scan"
      BY <1>7, <2>2 DEF runMergedStream, Restart
    <3> QED
      BY <1>5, <2>1, <3>1, Zenon
  <2>3. CASE io.last
    <3>1. io.i > Cores /\ io.min_index = 0 /\ done
      BY <1>0, <1>7, <2>3, Zenon DEF runMergedStream, LastIsDone
    <3>2. \A c \in Core : c < io.i
      BY <1>0, <3>1, CoresAssumption DEF TypeOK, Position, Core
    <3>3. \A c \in Core : pending_ts[c] = 0
      BY <1>0, <3>1, <3>2, Zenon DEF ScanInv
    <3>4. \A c \in Core : queue[c] = << >>
      BY <1>0, <2>3, <3>2, <3>3, Zenon DEF Emptied
    <3>5. \A c \in Core : ~(c < 1)
      BY DEF Core
    <3>6. CoresStopped' /\ LastIsDone' /\ Emptied' /\ AllEmpty'
      BY <1>0, <2>1, <3>1, <3>3, <3>4, <3>5, Zenon DEF CoresStopped, LastIsDone, Emptied, AllEmpty
    <3> QED
      BY <3>6, DrainPartsNext, Zenon
  <2> QED
    BY <2>2, <2>3, Zenon
<1> QED
  BY <1>1, <1>2, <1>3, <1>4, <1>6, <1>7, Zenon DEF Next

-----------------------------------------------------------------------------
(* The theorems                                                             *)

LEMMA InvInit == Init => Inv
<1> SUFFICES ASSUME Init PROVE Inv
  OBVIOUS
<1>1. TypeOK
  <2>1. Restart \in Position
    <3>1. 1 \in 1 .. Cores + 1 /\ 0 \in 0 .. Cores /\ 0 \in Nat
      BY CoresAssumption
    <3>2. done \in BOOLEAN
      BY Zenon DEF Init
    <3> QED
      BY <3>1, <3>2 DEF Restart, Position
  <2>2. /\ \A S : << >> \in Seq(S)
        /\ 0 \in Nat /\ 1 \in Nat \ {0} /\ FALSE \in BOOLEAN /\ Len(<< >>) = 0 /\ 0 <= 0
    OBVIOUS
  <2> QED
    BY <2>1, <2>2, Zenon DEF Init, TypeOK
<1>2. ASSUME NEW c \in Core PROVE CoreInv(c)
  <2>1. /\ queue[c] = << >> /\ current[c] = << >> /\ logged[c] = << >> /\ pending[c] = << >>
        /\ pending_ts[c] = 0 /\ written[c] = 0
    BY Zenon DEF Init
  <2>2. Len(<< >>) = 0 /\ ~(0 > 0) /\ 0 + 1 = 1 /\ 1 .. 0 = {} /\ 1 .. 1 = {1} /\ 1 <= 1
    OBVIOUS
  <2>3. \A k : << >> = Instr(c, k, 0)
    BY <2>2 DEF Instr
  <2>4. LoggedInv(c) /\ PendingInv(c)
    BY <2>1, <2>2, <2>3, Zenon DEF LoggedInv, PendingInv
  <2>5. Oldest(c) = 1 /\ Newest(c) = 1 /\ Gone(c) = 0
    BY <2>1, <2>2, Zenon DEF Oldest, Newest, Gone
  <2>6. Sizes(c)[1] = 0
    BY <2>1, <2>2, <2>5, Zenon DEF Sizes
  <2>7. 1 \in Nat \ {0} /\ 0 \in Nat
    OBVIOUS
  <2>8. Sizes(c) \in [1 .. 1 -> Nat]
    BY <1>1, <2>5, CoreType, Zenon
  <2>9. PICK h \in [1 .. 1 -> Int] : Lies(c, 1, 1, 0, Sizes(c), << >>, h)
    BY <2>6, <2>7, <2>8, LiesTakeAll, Zenon
  <2>10. << >> \in Seq(Object)
    OBVIOUS
  <2>11. Laid(c, 1, 1, 0, Sizes(c), << >>, h)
    BY <2>2, <2>7, <2>8, <2>9, <2>10, Zenon DEF Laid
  <2>12. h \in [1 .. 1 -> Places(0, << >>)]
    BY <2>11, LaidPlaces, Zenon
  <2>13. QueueInv(c)
    BY <2>1, <2>2, <2>5, <2>9, <2>12, Zenon DEF QueueInv
  <2> QED
    BY <2>4, <2>13, Zenon DEF CoreInv
<1>3. StreamInv
  BY <1>2, Zenon DEF StreamInv, CoreInv
<1>4. io.i = 1 /\ io.min_ts = 0 /\ io.min_index = 0 /\ io.last = done /\ io.pc = "scan" /\ ~done
  BY DEF Init, Restart
<1>5. ~(0 > 0) /\ ~(1 > 1) /\ \A c \in Core : ~(c < 1)
  BY DEF Core
<1>6. ScanInv
  BY <1>4, <1>5, Zenon DEF ScanInv
<1>7. "scan" # "stopped"
  OBVIOUS
<1>8. DrainInv
  BY <1>4, <1>7, Zenon DEF DrainInv
<1> QED
  BY <1>1, <1>3, <1>6, <1>8, Zenon DEF Inv

LEMMA InvStep == Inv /\ [Next]_vars => Inv'
BY TypeStep, StreamStep, ScanStep, DrainStep, Zenon DEF Inv

LEMMA InvAlways == Spec => []Inv
BY InvInit, InvStep, PTL DEF Spec

\* Every variable keeps its type, and no more is written than was logged: for any number of
\* cores, instructions and events.
THEOREM TypeCorrect == Spec => []TypeOK
<1>1. Inv => TypeOK
  BY Zenon DEF Inv
<1> QED
  BY <1>1, InvAlways, PTL

\* The loop of handleMergedLogging over the loggers hands the oldest of the instructions that
\* were ready to commitMergedLogging.
THEOREM OldestReadyFirstCorrect == Spec => []OldestReadyFirst
<1>1. Inv => OldestReadyFirst
  <2> SUFFICES ASSUME Inv, io.i > Cores, io.min_index > 0, NEW c \in Core, ready[c] > 0
               PROVE  io.min_ts <= ready[c]
    BY Zenon DEF OldestReadyFirst
  <2>0. io.i \in 1 .. Cores + 1
    BY Zenon DEF Inv, TypeOK, Position
  <2>1. c < io.i /\ io.i > 1
    BY <2>0, CoresAssumption DEF Core
  <2>2. pending_ts[c] = ready[c]
    BY <2>1, Zenon DEF Inv, ScanInv
  <2>3. io.min_ts <= pending_ts[c]
    BY <2>1, <2>2, Zenon DEF Inv, ScanInv
  <2> QED
    BY <2>2, <2>3, Zenon
<1> QED
  BY <1>1, InvAlways, PTL

\* When the thread has ended, the drain loop of runMergedStream has left nothing behind.
THEOREM DrainedAtEndCorrect == Spec => []DrainedAtEnd
<1>1. Inv => DrainedAtEnd
  <2> SUFFICES ASSUME Inv, io.pc = "stopped", NEW c \in Core
               PROVE  written[c] = Len(logged[c])
    BY Zenon DEF DrainedAtEnd
  <2>1. pending_ts[c] = 0 /\ queue[c] = << >>
    BY Zenon DEF Inv, DrainInv
  <2>2. TypeOK /\ CoreInv(c)
    BY Zenon DEF Inv, StreamInv, CoreInv
  <2>3. PICK f : Laid(c, Oldest(c), Newest(c), Gone(c), Sizes(c), queue[c], f)
    BY <2>2, CoreQueue, Zenon
  <2>4. FirstOut(c, Oldest(c), Newest(c), Gone(c), Sizes(c), queue[c], f)
    BY <2>3, LaidFirst, Zenon
  <2>5. 1 .. Len(<< >>) = {}
    OBVIOUS
  <2>6. ~(Oldest(c) < Newest(c))
    BY <2>1, <2>4, <2>5, Zenon DEF FirstOut
  <2>7. Oldest(c) <= Newest(c)
    BY <2>3, Zenon DEF Laid
  <2>8. written[c] \in Nat /\ logged[c] \in Seq(Seq(Event))
    BY <2>2, CoreType, Zenon
  <2> QED
    BY <2>1, <2>6, <2>7, <2>8 DEF Oldest, Newest
<1> QED
  BY <1>1, InvAlways, PTL

\* The threads implement the stream of whole instructions TraceStream promises: a pushed commit
\* finishes an instruction, commitMergedLogging writes one, nothing else is visible.
THEOREM WritesWhole == Spec => WritesWholeInstructions
<1>1. Init => Stream!TInit
  BY Zenon DEF Init, Stream!TInit
<1>2. Inv /\ [Next]_vars => [Stream!TNext]_(Stream!tvars)
  <2> SUFFICES ASSUME Inv, [Next]_vars PROVE [Stream!TNext]_(Stream!tvars)
    OBVIOUS
  <2>1. ASSUME UNCHANGED <<logged, written, trace>> PROVE [Stream!TNext]_(Stream!tvars)
    BY <2>1, Zenon DEF Stream!tvars
  <2>2. ASSUME NEW c \in Core, Log(c) \/ Stamp(c) PROVE UNCHANGED <<logged, written, trace>>
    BY <2>2, Zenon DEF Log, Stamp, thread
  <2>3. ASSUME NEW c \in Core, log_commit(c) PROVE Stream!TNext
    <3>1. logged' = [logged EXCEPT ![c] = Append(logged[c], current[c])]
          /\ UNCHANGED <<written, trace>>
      BY <2>3, Zenon DEF log_commit, thread
    <3>2. current[c] \in Seq(Event) /\ logged[c] \in Seq(Seq(Event)) /\ c \in DOMAIN logged
      BY Zenon DEF Inv, TypeOK
    <3>3. logged'[c] = Append(logged[c], current[c])
      BY <3>1, <3>2, Zenon
    <3>4. Len(logged'[c]) = Len(logged[c]) + 1 /\ logged'[c][Len(logged[c]) + 1] = current[c]
      BY <3>2, <3>3
    <3>5. logged' = [logged EXCEPT ![c] = Append(logged[c], logged'[c][Len(logged[c]) + 1])]
      BY <3>1, <3>4, Zenon
    <3> QED
      BY <3>1, <3>4, <3>5, Zenon DEF Stream!TNext, Stream!Finish
  <2>4. CASE doneLogging \/ Scan \/ runMergedStream \/ Joined \/ UNCHANGED vars
    <3>1. UNCHANGED <<logged, written, trace>>
      BY <2>4, Zenon DEF doneLogging, Scan, runMergedStream, Joined, vars, cores, thread
    <3> QED
      BY <2>1, <3>1, Zenon
  <2>5. CASE commitMergedLogging
    <3> DEFINE c == io.min_index
    <3>1. c \in Core /\ written[c] < Len(logged[c]) /\ pending[c] = logged[c][written[c] + 1]
      BY <2>5, WinnerHasOne, Zenon DEF commitMergedLogging
    <3>2. /\ trace' = trace \o pending[c] /\ UNCHANGED logged
          /\ written' = [written EXCEPT ![c] = written[c] + 1]
      BY <2>5, Zenon DEF commitMergedLogging, cores
    <3> HIDE DEF c
    <3> QED
      BY <3>1, <3>2, Zenon DEF Stream!TNext, Stream!Write
  <2> QED
    BY <2>1, <2>2, <2>3, <2>4, <2>5, Zenon DEF Next
<1> QED
  BY <1>1, <1>2, InvAlways, PTL DEF Spec, WritesWholeInstructions, Stream!TSpec

=============================================================================
