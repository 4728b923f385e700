--------------------------- MODULE PipelineProofs ---------------------------
(***************************************************************************)
(* Proofs about Pipeline, for any capacity of the stages, any space in the *)
(* fetch buffer and any programs of the instruction classes: the stages    *)
(* stay consistent, instructions stay in order, and the fetch buffer gets  *)
(* back what it lent.                                                      *)
(***************************************************************************)
EXTENDS Pipeline, FiniteSetTheorems, TLAPS

-----------------------------------------------------------------------------
(* The ring of a stage                                                     *)

Ring(X) == [instrs : [Index -> X \cup {NoInstr}], count : Int, head : Index, tail : Index]

\* The instructions in a ring.
Held(s) == {s.instrs[q] : q \in Index} \ {NoInstr}

\* An index that has run over the end once begins anew.
Wrap(x) == x % Capacity

LEMMA WrapIs ==
  ASSUME NEW x \in Nat, x < Capacity + Capacity
  PROVE  /\ x < Capacity => Wrap(x) = x
         /\ ~(x < Capacity) => Wrap(x) = x - Capacity
BY CapacityAssumption DEF Wrap

LEMMA WrapType ==
  ASSUME NEW h \in Index, NEW j \in 0 .. Capacity
  PROVE  /\ Wrap(h + j) \in Index
         /\ (h + j < Capacity => Wrap(h + j) = h + j) /\ (~(h + j < Capacity) => Wrap(h + j) = h + j - Capacity)
<1>1. h + j \in Nat /\ h + j < Capacity + Capacity
  BY CapacityAssumption DEF Index
<1>2. (h + j < Capacity => Wrap(h + j) = h + j) /\ (~(h + j < Capacity) => Wrap(h + j) = h + j - Capacity)
  BY <1>1, WrapIs, CapacityAssumption DEF Index
<1> QED
  BY <1>1, <1>2, CapacityAssumption DEF Index

LEMMA WrapAdd ==
  ASSUME NEW h \in Index, NEW a \in 0 .. Capacity, NEW b \in 0 .. Capacity, a + b <= Capacity
  PROVE  Wrap(Wrap(h + a) + b) = Wrap(h + (a + b))
<1> DEFINE w == Wrap(h + a)
<1>1. /\ h \in Int /\ a \in Int /\ b \in Int /\ Capacity \in Int /\ h >= 0 /\ h < Capacity
      /\ a >= 0 /\ b >= 0 /\ a + b <= Capacity
  BY CapacityAssumption DEF Index
<1>2. w \in Index /\ (h + a < Capacity => w = h + a) /\ (~(h + a < Capacity) => w = h + a - Capacity)
  BY WrapType, Zenon
<1>3. (w + b < Capacity => Wrap(w + b) = w + b) /\ (~(w + b < Capacity) => Wrap(w + b) = w + b - Capacity)
  BY <1>2, WrapType, Zenon
<1>4. a + b \in 0 .. Capacity
  BY <1>1
<1>5. /\ h + (a + b) < Capacity => Wrap(h + (a + b)) = h + (a + b)
      /\ ~(h + (a + b) < Capacity) => Wrap(h + (a + b)) = h + (a + b) - Capacity
  BY <1>4, WrapType, Zenon
<1>6. w \in Int
  BY <1>1, <1>2 DEF Index
<1> HIDE DEF w
<1>7. CASE h + a < Capacity
  <2>1. w + b = h + (a + b)
    BY <1>1, <1>2, <1>6, <1>7
  <2> QED
    BY <2>1, Zenon DEF w
<1>8. CASE ~(h + a < Capacity)
  <2>1. w + b = h + (a + b) - Capacity /\ w + b < Capacity /\ ~(h + (a + b) < Capacity)
    BY <1>1, <1>2, <1>6, <1>8
  <2> QED
    BY <1>3, <1>5, <2>1, Zenon DEF w
<1> QED
  BY <1>7, <1>8, Zenon

\* Positions are slots, each of them one.
LEMMA PosType ==
  ASSUME NEW s, s.head \in Index, NEW j \in Index
  PROVE  pos(s, j) \in Index /\ pos(s, j) = Wrap(s.head + j)
<1>1. j \in 0 .. Capacity
  BY CapacityAssumption DEF Index
<1> QED
  BY <1>1, WrapType, Zenon DEF pos, Wrap

LEMMA PosOne ==
  ASSUME NEW h \in Index, NEW i \in Index, NEW j \in Index, i # j
  PROVE  Wrap(h + i) # Wrap(h + j)
<1>1. /\ (h + i < Capacity => Wrap(h + i) = h + i) /\ (~(h + i < Capacity) => Wrap(h + i) = h + i - Capacity)
      /\ (h + j < Capacity => Wrap(h + j) = h + j) /\ (~(h + j < Capacity) => Wrap(h + j) = h + j - Capacity)
  BY WrapType, CapacityAssumption DEF Index
<1> QED
  BY <1>1, CapacityAssumption DEF Index

LEMMA PosOnto ==
  ASSUME NEW h \in Index, NEW q \in Index
  PROVE  \E j \in Index : Wrap(h + j) = q
<1>1. CASE q >= h
  <2>1. q - h \in Index /\ h + (q - h) = q
    BY <1>1, CapacityAssumption DEF Index
  <2>2. Wrap(q) = q
    BY WrapIs, CapacityAssumption DEF Index
  <2> QED
    BY <2>1, <2>2, Zenon
<1>2. CASE q < h
  <2>1. q + Capacity - h \in Index /\ h + (q + Capacity - h) = q + Capacity
    BY <1>2, CapacityAssumption DEF Index
  <2>2. Wrap(q + Capacity) = q
    BY WrapIs, CapacityAssumption DEF Index
  <2> QED
    BY <2>1, <2>2, Zenon
<1> QED
  BY <1>1, <1>2, CapacityAssumption DEF Index

\* What is in a ring is at one of its first positions.
LEMMA HeldAt ==
  ASSUME NEW s, Consistent(s)
  PROVE  /\ \A j \in 0 .. s.count - 1 : j \in Index /\ At(s, j) \in Held(s)
         /\ \A x \in Held(s) : \E j \in 0 .. s.count - 1 : At(s, j) = x
<1>1. \A j \in 0 .. s.count - 1 : j \in Index /\ At(s, j) # NoInstr
  BY CapacityAssumption DEF Consistent, Index
<1>2. s.head \in Index /\ \A j \in Index : pos(s, j) \in Index /\ pos(s, j) = Wrap(s.head + j)
  BY PosType, Zenon DEF Consistent
<1>3. ASSUME NEW x \in Held(s) PROVE \E j \in 0 .. s.count - 1 : At(s, j) = x
  <2>1. PICK q \in Index : s.instrs[q] = x /\ x # NoInstr
    BY <1>3, Zenon DEF Held
  <2>2. PICK j \in Index : Wrap(s.head + j) = q
    BY <1>2, PosOnto, Zenon
  <2>3. At(s, j) # NoInstr /\ At(s, j) = x
    BY <1>2, <2>1, <2>2, Zenon DEF At
  <2>4. j < s.count
    BY <2>3, Zenon DEF Consistent
  <2> QED
    BY <2>3, <2>4, CapacityAssumption DEF Consistent, Index
<1> QED
  BY <1>1, <1>2, <1>3, Zenon DEF Held, At

\* What a consistent ring of instructions consists of, and the converse.
LEMMA RingParts ==
  ASSUME NEW X, NEW s \in Ring(X), Consistent(s)
  PROVE  /\ s.instrs \in [Index -> X \cup {NoInstr}]
         /\ s.count \in 0 .. Capacity /\ s.head \in Index /\ s.tail \in Index
         /\ s.tail = Wrap(s.head + s.count)
         /\ \A j \in Index : At(s, j) = s.instrs[Wrap(s.head + j)] /\ Wrap(s.head + j) \in Index
         /\ \A j \in Index : At(s, j) # NoInstr <=> j < s.count
<1>1. /\ s.instrs \in [Index -> X \cup {NoInstr}]
      /\ s.count \in 0 .. Capacity /\ s.head \in Index /\ s.tail \in Index
  BY DEF Ring, Consistent
<1>2. s.tail = Wrap(s.head + s.count) /\ \A j \in Index : At(s, j) # NoInstr <=> j < s.count
  BY Zenon DEF Consistent, Wrap
<1>3. \A j \in Index : At(s, j) = s.instrs[Wrap(s.head + j)] /\ Wrap(s.head + j) \in Index
  BY <1>1, PosType, Zenon DEF At
<1> QED
  BY <1>1, <1>2, <1>3, Zenon

LEMMA RingMade ==
  ASSUME NEW X, NEW f \in [Index -> X \cup {NoInstr}], NEW c \in 0 .. Capacity, NEW h \in Index,
         \A j \in Index : f[Wrap(h + j)] # NoInstr <=> j < c,
         NEW s, s = [instrs |-> f, count |-> c, head |-> h, tail |-> Wrap(h + c)]
  PROVE  /\ s \in Ring(X) /\ Consistent(s)
         /\ \A j \in Index : At(s, j) = f[Wrap(h + j)]
<1>1. Wrap(h + c) \in Index
  BY WrapType
<1>2. s.instrs = f /\ s.count = c /\ s.head = h /\ s.tail = Wrap(h + c)
  OBVIOUS
<1>3. s \in Ring(X)
  BY <1>1, CapacityAssumption DEF Ring
<1>4. \A j \in Index : At(s, j) = f[Wrap(h + j)]
  BY <1>2, PosType, Zenon DEF At
<1> QED
  BY <1>2, <1>3, <1>4, Zenon DEF Consistent, Wrap

\* add_instr() appends.
LEMMA AddInstr ==
  ASSUME NEW X, NoInstr \notin X, NEW s \in Ring(X), Consistent(s), s.count < Capacity, NEW x \in X
  PROVE  /\ add_instr(s, x) \in Ring(X) /\ Consistent(add_instr(s, x))
         /\ add_instr(s, x).count = s.count + 1
         /\ \A j \in Index : At(add_instr(s, x), j) = IF j = s.count THEN x ELSE At(s, j)
<1> DEFINE f == [s.instrs EXCEPT ![s.tail] = x]
           c == s.count + 1
           h == s.head
<1>1. /\ s.instrs \in [Index -> X \cup {NoInstr}]
      /\ s.count \in Index /\ s.count \in 0 .. Capacity /\ c \in 0 .. Capacity /\ h \in Index /\ s.tail \in Index
      /\ s.tail = Wrap(h + s.count)
  <2>1. /\ s.instrs \in [Index -> X \cup {NoInstr}]
        /\ s.count \in 0 .. Capacity /\ h \in Index /\ s.tail \in Index
        /\ s.tail = Wrap(h + s.count)
    BY RingParts, Zenon
  <2>2. s.count \in Index /\ c \in 0 .. Capacity
    BY <2>1, CapacityAssumption DEF Index
  <2> QED
    BY <2>1, <2>2, Zenon
<1>2. \A j \in Index : f[Wrap(h + j)] = IF j = s.count THEN x ELSE At(s, j)
  <2> SUFFICES ASSUME NEW j \in Index PROVE f[Wrap(h + j)] = IF j = s.count THEN x ELSE At(s, j)
    BY Zenon
  <2>1. At(s, j) = s.instrs[Wrap(s.head + j)] /\ Wrap(s.head + j) \in Index
    BY RingParts, Zenon
  <2>2. CASE j = s.count
    <3>1. Wrap(h + j) = s.tail
      BY <1>1, <2>2, Zenon
    <3> QED
      BY <1>1, <2>2, <3>1, Zenon
  <2>3. CASE j # s.count
    <3>1. Wrap(h + j) # s.tail
      BY <1>1, <2>3, PosOne, Zenon
    <3> QED
      BY <1>1, <2>1, <2>3, <3>1, Zenon
  <2> QED
    BY <2>2, <2>3, Zenon
<1>3. \A j \in Index : f[Wrap(h + j)] # NoInstr <=> j < c
  <2>1. \A j \in Index : At(s, j) # NoInstr <=> j < s.count
    BY RingParts, Zenon
  <2>2. \A j \in Index : j < c <=> j < s.count \/ j = s.count
    BY <1>1 DEF Index
  <2>3. ~(s.count < s.count)
    BY <1>1 DEF Index
  <2> QED
    BY <1>2, <2>1, <2>2, <2>3, Zenon
<1>4. f \in [Index -> X \cup {NoInstr}]
  BY <1>1
<1>5. (s.tail + 1) % Capacity = Wrap(h + c)
  <2>1. Wrap(Wrap(h + s.count) + 1) = Wrap(h + c)
    BY <1>1, WrapAdd, CapacityAssumption DEF Index
  <2> QED
    BY <1>1, <2>1, Zenon DEF Wrap
<1>6. add_instr(s, x) = [instrs |-> f, count |-> c, head |-> h, tail |-> Wrap(h + c)]
  BY <1>5, Zenon DEF add_instr
<1> HIDE DEF f, c, h
<1>7. /\ add_instr(s, x) \in Ring(X) /\ Consistent(add_instr(s, x))
      /\ \A j \in Index : At(add_instr(s, x), j) = f[Wrap(h + j)]
  BY <1>1, <1>3, <1>4, <1>6, RingMade
<1>8. add_instr(s, x).count = c
  BY <1>6
<1> QED
  BY <1>2, <1>7, <1>8, Zenon DEF c

\* remove_instr() takes the oldest.
LEMMA RemoveInstr ==
  ASSUME NEW X, NEW s \in Ring(X), Consistent(s), s.count > 0
  PROVE  /\ remove_instr(s) \in Ring(X) /\ Consistent(remove_instr(s))
         /\ remove_instr(s).count = s.count - 1
         /\ \A j \in 0 .. s.count - 2 : At(remove_instr(s), j) = At(s, j + 1)
<1> DEFINE f == [s.instrs EXCEPT ![s.head] = NoInstr]
           c == s.count - 1
           h == Wrap(s.head + 1)
<1>1. /\ s.instrs \in [Index -> X \cup {NoInstr}]
      /\ s.count \in 0 .. Capacity /\ s.head \in Index /\ s.tail = Wrap(s.head + s.count)
  BY RingParts, Zenon
<1>2. c \in 0 .. Capacity /\ 1 \in 0 .. Capacity /\ 0 \in Index /\ 1 + c = s.count
  BY <1>1, CapacityAssumption DEF Index
<1>3. h \in Index
  BY <1>1, <1>2, WrapType, Zenon
<1>15. \A b \in 0 .. Capacity : 1 + b <= Capacity => Wrap(h + b) = Wrap(s.head + (1 + b))
  BY <1>1, <1>2, WrapAdd, Zenon
<1> HIDE DEF h
<1>4. Wrap(s.head + 0) = s.head
  BY <1>1, WrapIs, CapacityAssumption DEF Index
<1>5. \A j \in Index : j + 1 \in Index =>
        f[Wrap(h + j)] = At(s, j + 1) /\ (f[Wrap(h + j)] # NoInstr <=> j < c)
  <2> SUFFICES ASSUME NEW j \in Index, j + 1 \in Index
               PROVE  f[Wrap(h + j)] = At(s, j + 1) /\ (f[Wrap(h + j)] # NoInstr <=> j < c)
    BY Zenon
  <2>1. j \in 0 .. Capacity /\ 1 + j <= Capacity /\ 1 + j = j + 1 /\ j + 1 # 0
    BY CapacityAssumption DEF Index
  <2>2. Wrap(h + j) = Wrap(s.head + (j + 1))
    BY <1>2, <1>15, <2>1, Zenon
  <2>3. /\ At(s, j + 1) = s.instrs[Wrap(s.head + (j + 1))] /\ Wrap(s.head + (j + 1)) \in Index
        /\ At(s, j + 1) # NoInstr <=> j + 1 < s.count
    BY RingParts, Zenon
  <2>4. Wrap(s.head + (j + 1)) # s.head
    BY <1>1, <1>2, <1>4, <2>1, PosOne, Zenon
  <2>5. j + 1 < s.count <=> j < c
    BY <1>1 DEF Index
  <2>6. f[Wrap(h + j)] = At(s, j + 1)
    BY <1>1, <2>2, <2>3, <2>4, Zenon
  <2> QED
    BY <2>3, <2>5, <2>6, Zenon
<1>6. \A j \in Index : j + 1 \notin Index => f[Wrap(h + j)] = NoInstr /\ ~(j < c)
  <2> SUFFICES ASSUME NEW j \in Index, j + 1 \notin Index
               PROVE  f[Wrap(h + j)] = NoInstr /\ ~(j < c)
    BY Zenon
  <2>1. j \in 0 .. Capacity /\ 1 + j = Capacity /\ 1 + j <= Capacity /\ ~(j < c)
    BY <1>1, CapacityAssumption DEF Index
  <2>2. Wrap(h + j) = Wrap(s.head + Capacity)
    BY <1>2, <1>15, <2>1, Zenon
  <2>3. Wrap(s.head + Capacity) = s.head
    BY <1>1, WrapIs, CapacityAssumption DEF Index
  <2> QED
    BY <1>1, <2>1, <2>2, <2>3, Zenon
<1>7. \A j \in Index : f[Wrap(h + j)] # NoInstr <=> j < c
  BY <1>5, <1>6, Zenon
<1>8. f \in [Index -> X \cup {NoInstr}]
  BY <1>1
<1>9. s.tail = Wrap(h + c)
  <2>1. 1 + c <= Capacity
    BY <1>1
  <2> QED
    BY <1>1, <1>2, <1>15, <2>1, Zenon
<1>10. remove_instr(s) = [instrs |-> f, count |-> c, head |-> h, tail |-> Wrap(h + c)]
  BY <1>9, Zenon DEF remove_instr, Wrap, h
<1>11. \A j \in 0 .. s.count - 2 : j \in Index /\ j + 1 \in Index
  BY <1>1, CapacityAssumption DEF Index
<1>12. s.count - 1 = c
  OBVIOUS
<1> HIDE DEF f, c
<1>13. /\ remove_instr(s) \in Ring(X) /\ Consistent(remove_instr(s))
       /\ \A j \in Index : At(remove_instr(s), j) = f[Wrap(h + j)]
  BY <1>2, <1>3, <1>7, <1>8, <1>10, RingMade
<1>14. remove_instr(s).count = c
  BY <1>10
<1> QED
  BY <1>5, <1>11, <1>12, <1>13, <1>14, Zenon

\* A slot is overwritten.
LEMMA SetInstr ==
  ASSUME NEW X, NoInstr \notin X, NEW s \in Ring(X), Consistent(s),
         NEW p \in Index, p < s.count, NEW x \in X
  PROVE  /\ SetAt(s, p, x) \in Ring(X) /\ Consistent(SetAt(s, p, x))
         /\ SetAt(s, p, x).count = s.count
         /\ \A j \in Index : At(SetAt(s, p, x), j) = IF j = p THEN x ELSE At(s, j)
<1> DEFINE f == [s.instrs EXCEPT ![pos(s, p)] = x]
           h == s.head
<1>1. /\ s.instrs \in [Index -> X \cup {NoInstr}]
      /\ s.count \in 0 .. Capacity /\ h \in Index /\ s.tail = Wrap(h + s.count)
  BY RingParts, Zenon
<1>2. pos(s, p) = Wrap(h + p) /\ pos(s, p) \in Index
  BY <1>1, PosType, Zenon
<1>3. \A j \in Index : f[Wrap(h + j)] = IF j = p THEN x ELSE At(s, j)
  <2> SUFFICES ASSUME NEW j \in Index PROVE f[Wrap(h + j)] = IF j = p THEN x ELSE At(s, j)
    BY Zenon
  <2>1. At(s, j) = s.instrs[Wrap(h + j)] /\ Wrap(h + j) \in Index
    BY RingParts, Zenon
  <2>2. CASE j = p
    BY <1>1, <1>2, <2>1, <2>2, Zenon
  <2>3. CASE j # p
    <3>1. Wrap(h + j) # pos(s, p)
      BY <1>1, <1>2, <2>3, PosOne, Zenon
    <3> QED
      BY <1>1, <1>2, <2>1, <2>3, <3>1, Zenon
  <2> QED
    BY <2>2, <2>3, Zenon
<1>4. \A j \in Index : f[Wrap(h + j)] # NoInstr <=> j < s.count
  <2>1. \A j \in Index : At(s, j) # NoInstr <=> j < s.count
    BY RingParts, Zenon
  <2> QED
    BY <1>3, <2>1, Zenon
<1>5. f \in [Index -> X \cup {NoInstr}]
  BY <1>1, <1>2
<1>6. SetAt(s, p, x) = [instrs |-> f, count |-> s.count, head |-> h, tail |-> Wrap(h + s.count)]
  BY <1>1 DEF SetAt, Ring
<1> HIDE DEF f, h
<1>7. /\ SetAt(s, p, x) \in Ring(X) /\ Consistent(SetAt(s, p, x))
      /\ \A j \in Index : At(SetAt(s, p, x), j) = f[Wrap(h + j)]
  BY <1>1, <1>4, <1>5, <1>6, RingMade
<1>8. SetAt(s, p, x).count = s.count
  BY <1>6
<1> QED
  BY <1>3, <1>7, <1>8, Zenon

LEMMA EmptyRing ==
  ASSUME NEW X
  PROVE  EmptyStage \in Ring(X) /\ Consistent(EmptyStage) /\ EmptyStage.count = 0
<1> DEFINE f == [i \in Index |-> NoInstr]
<1>1. 0 \in Index /\ 0 \in 0 .. Capacity /\ Wrap(0 + 0) = 0
  BY CapacityAssumption, WrapIs DEF Index
<1>2. \A j \in Index : Wrap(0 + j) \in Index /\ ~(j < 0)
  BY <1>1, WrapType, CapacityAssumption DEF Index
<1>3. f \in [Index -> X \cup {NoInstr}] /\ \A j \in Index : f[Wrap(0 + j)] # NoInstr <=> j < 0
  BY <1>2, Zenon
<1>4. EmptyStage = [instrs |-> f, count |-> 0, head |-> 0, tail |-> Wrap(0 + 0)]
  BY <1>1, Zenon DEF EmptyStage
<1> HIDE DEF f
<1>5. EmptyStage \in Ring(X) /\ Consistent(EmptyStage)
  BY <1>1, <1>3, <1>4, RingMade
<1> QED
  BY <1>4, <1>5

LEMMA RemoveAll ==
  ASSUME NEW X, NEW s \in Ring(X), Consistent(s)
  PROVE  remove_all(s) \in Ring(X) /\ Consistent(remove_all(s)) /\ remove_all(s).count = 0
<1> DEFINE f == [i \in Index |-> NoInstr]
           h == Wrap(s.head + s.count)
<1>1. s.count \in 0 .. Capacity /\ s.head \in Index /\ s.tail = h
  BY RingParts, Zenon
<1>2. h \in Index
  BY <1>1, WrapType, Zenon
<1> HIDE DEF h
<1>3. Wrap(h + 0) = h /\ 0 \in 0 .. Capacity
  BY <1>2, WrapIs, CapacityAssumption DEF Index
<1>4. \A j \in Index : Wrap(h + j) \in Index /\ ~(j < 0)
  BY <1>2, WrapType, CapacityAssumption DEF Index
<1>5. f \in [Index -> X \cup {NoInstr}] /\ \A j \in Index : f[Wrap(h + j)] # NoInstr <=> j < 0
  BY <1>4, Zenon
<1>6. remove_all(s) = [instrs |-> f, count |-> 0, head |-> h, tail |-> Wrap(h + 0)]
  BY <1>1, <1>3, Zenon DEF remove_all, Wrap, h
<1> HIDE DEF f
<1>7. remove_all(s) \in Ring(X) /\ Consistent(remove_all(s))
  BY <1>2, <1>3, <1>5, <1>6, RingMade
<1> QED
  BY <1>6, <1>7

\* Nothing is added to a ring, and a sequence to an empty one.
LEMMA AddNone ==
  ASSUME NEW X, NEW s \in Ring(X), Consistent(s)
  PROVE  add_all(s, <<>>) = s
<1>1. /\ s.instrs \in [Index -> X \cup {NoInstr}] /\ s.count \in 0 .. Capacity /\ s.tail \in Index
  BY RingParts, Zenon
<1>2. Wrap(s.tail) = s.tail
  BY <1>1, WrapIs, CapacityAssumption DEF Index
<1>3. s.tail + 0 = s.tail /\ s.count + 0 = s.count
  BY <1>1, CapacityAssumption DEF Index
<1>4. Len(<<>>) = 0
  OBVIOUS
<1>5. \A i \in Index : ~((i + Capacity - s.tail) % Capacity < 0)
  <2> SUFFICES ASSUME NEW i \in Index PROVE ~((i + Capacity - s.tail) % Capacity < 0)
    BY Zenon
  <2> DEFINE x == i + Capacity - s.tail
  <2>1. x \in Nat /\ x < Capacity + Capacity /\ Capacity \in Nat
    BY <1>1, CapacityAssumption DEF Index
  <2> HIDE DEF x
  <2>2. ~(Wrap(x) < 0)
    BY <2>1, WrapIs
  <2> QED
    BY <2>2, Zenon DEF Wrap, x
<1>6. [i \in Index |-> LET j == (i + Capacity - s.tail) % Capacity
                       IN  IF j < 0 THEN <<>>[j + 1] ELSE s.instrs[i]] = s.instrs
  BY <1>1, <1>5, Zenon
<1>7. add_all(s, <<>>) = [instrs |-> s.instrs, count |-> s.count, head |-> s.head, tail |-> s.tail]
  BY <1>2, <1>3, <1>4, <1>6, Zenon DEF add_all, Wrap
<1> QED
  BY <1>7 DEF Ring

LEMMA AddAll ==
  ASSUME NEW X, NoInstr \notin X, NEW s \in Ring(X), Consistent(s), s.count = 0,
         NEW seq \in Seq(X), Len(seq) <= Capacity
  PROVE  /\ add_all(s, seq) \in Ring(X) /\ Consistent(add_all(s, seq))
         /\ add_all(s, seq).count = Len(seq)
         /\ \A j \in 0 .. Len(seq) - 1 : At(add_all(s, seq), j) = seq[j + 1]
<1> DEFINE h == s.head
           c == Len(seq)
           g(i) == Wrap(i + Capacity - h)
           f == [i \in Index |-> IF g(i) < c THEN seq[g(i) + 1] ELSE s.instrs[i]]
<1>1. /\ s.instrs \in [Index -> X \cup {NoInstr}]
      /\ h \in Index /\ s.tail = Wrap(h + 0)
  BY RingParts, Zenon
<1>2. c \in 0 .. Capacity /\ 0 + c = c
  BY CapacityAssumption
<1>3. Wrap(h + 0) = h
  BY <1>1, WrapIs, CapacityAssumption DEF Index
<1> HIDE DEF h, c
<1>4. \A j \in Index : Wrap(h + j) \in Index /\ g(Wrap(h + j)) = j
  <2> SUFFICES ASSUME NEW j \in Index PROVE Wrap(h + j) \in Index /\ g(Wrap(h + j)) = j
    BY Zenon
  <2> DEFINE w == Wrap(h + j)
             x == w + Capacity - h
  <2>1. /\ Capacity \in Int /\ h \in Int /\ j \in Int /\ 0 <= h /\ 0 <= j /\ h < Capacity /\ j < Capacity
        /\ j \in 0 .. Capacity
    BY <1>1, CapacityAssumption DEF Index
  <2>2. w \in Index /\ (h + j < Capacity => w = h + j) /\ (~(h + j < Capacity) => w = h + j - Capacity)
    BY <1>1, <2>1, WrapType, Zenon
  <2>3. w \in Int
    BY <2>2, CapacityAssumption DEF Index
  <2> HIDE DEF w
  <2>4. CASE h + j < Capacity
    <3>1. x \in Nat /\ x = j + Capacity /\ x < Capacity + Capacity /\ ~(x < Capacity) /\ x - Capacity = j
      BY <2>1, <2>2, <2>3, <2>4
    <3> HIDE DEF x
    <3>2. Wrap(x) = j
      BY <2>1, <3>1, WrapIs
    <3> QED
      BY <2>2, <3>2, Zenon DEF w, x
  <2>5. CASE ~(h + j < Capacity)
    <3>1. x \in Nat /\ x = j /\ x < Capacity + Capacity /\ x < Capacity
      BY <2>1, <2>2, <2>3, <2>5
    <3> HIDE DEF x
    <3>2. Wrap(x) = j
      BY <2>1, <3>1, WrapIs
    <3> QED
      BY <2>2, <3>2, Zenon DEF w, x
  <2> QED
    BY <2>4, <2>5, Zenon
<1>5. \A i \in Index : g(i) < c => g(i) + 1 \in 1 .. c
  <2> SUFFICES ASSUME NEW i \in Index, g(i) < c PROVE g(i) + 1 \in 1 .. c
    BY Zenon
  <2>1. PICK j \in Index : Wrap(h + j) = i
    BY <1>1, PosOnto, Zenon
  <2>2. g(i) = j
    BY <1>4, <2>1, Zenon
  <2> HIDE DEF g
  <2> QED
    BY <1>2, <2>2, CapacityAssumption DEF Index
<1>6. \A n \in 1 .. c : seq[n] \in X
  BY DEF c
<1> HIDE DEF g
<1>7. f \in [Index -> X \cup {NoInstr}]
  BY <1>1, <1>5, <1>6, Zenon
<1>8. \A j \in Index : f[Wrap(h + j)] = IF j < c THEN seq[j + 1] ELSE At(s, j)
  <2> SUFFICES ASSUME NEW j \in Index
               PROVE  f[Wrap(h + j)] = IF j < c THEN seq[j + 1] ELSE At(s, j)
    BY Zenon
  <2>1. At(s, j) = s.instrs[Wrap(h + j)]
    BY RingParts, Zenon DEF h
  <2> QED
    BY <1>4, <2>1, Zenon
<1>9. \A j \in Index : f[Wrap(h + j)] # NoInstr <=> j < c
  <2>1. \A j \in Index : At(s, j) = NoInstr
    <3>1. \A j \in Index : ~(j < 0)
      BY CapacityAssumption DEF Index
    <3> QED
      BY <3>1, RingParts, Zenon
  <2>2. \A j \in Index : j < c => j + 1 \in 1 .. c
    BY <1>2, CapacityAssumption DEF Index
  <2> QED
    BY <1>6, <1>8, <2>1, <2>2, Zenon
<1>10. add_all(s, seq) = [instrs |-> f, count |-> c, head |-> h, tail |-> Wrap(h + c)]
  BY <1>1, <1>2, <1>3, Zenon DEF add_all, Wrap, g, c, h
<1>11. \A j \in 0 .. c - 1 : j \in Index /\ j < c
  BY <1>2, CapacityAssumption DEF Index
<1> HIDE DEF f
<1>12. /\ add_all(s, seq) \in Ring(X) /\ Consistent(add_all(s, seq))
       /\ \A j \in Index : At(add_all(s, seq), j) = f[Wrap(h + j)]
  BY <1>1, <1>2, <1>7, <1>9, <1>10, RingMade
<1>13. add_all(s, seq).count = c
  BY <1>10
<1> QED
  BY <1>8, <1>11, <1>12, <1>13, Zenon DEF c

\* The loop of taken_flush_<stage>() leaves the positions up to p.
LEMMA FlushBehind ==
  ASSUME NEW X, NEW s \in Ring(X), Consistent(s), NEW p \in Index, p < s.count
  PROVE  /\ flush_behind(s, p) \in Ring(X) /\ Consistent(flush_behind(s, p))
         /\ flush_behind(s, p).count = p + 1
         /\ \A j \in 0 .. p : At(flush_behind(s, p), j) = At(s, j)
<1> DEFINE gone == {i \in p + 1 .. Capacity - 1 : At(s, i) # NoInstr}
           f == [i \in Index |-> IF \E j \in gone : i = pos(s, j) THEN NoInstr ELSE s.instrs[i]]
           h == s.head
           c == p + 1
<1>1. /\ s.instrs \in [Index -> X \cup {NoInstr}]
      /\ s.count \in 0 .. Capacity /\ h \in Index
  BY RingParts, Zenon
<1>2. \A j \in Index : /\ At(s, j) = s.instrs[Wrap(h + j)] /\ Wrap(h + j) \in Index
                       /\ pos(s, j) = Wrap(h + j)
                       /\ At(s, j) # NoInstr <=> j < s.count
  BY <1>1, RingParts, PosType, Zenon
<1>3. c \in 0 .. Capacity /\ p + 1 .. Capacity - 1 \subseteq Index
  BY <1>1, CapacityAssumption DEF Index
<1>4. gone = p + 1 .. s.count - 1
  <2>1. \A i \in p + 1 .. Capacity - 1 : At(s, i) # NoInstr <=> i < s.count
    BY <1>2, <1>3, Zenon
  <2>2. \A i : i \in p + 1 .. s.count - 1 <=> i \in p + 1 .. Capacity - 1 /\ i < s.count
    BY <1>1, CapacityAssumption DEF Index
  <2> QED
    BY <2>1, <2>2, Zenon
<1>5. s.count - Cardinality(gone) = c
  <2>1. p + 1 \in Int /\ s.count - 1 \in Int
    BY <1>1 DEF Index
  <2>2. Cardinality(gone) = IF p + 1 > s.count - 1 THEN 0 ELSE (s.count - 1) - (p + 1) + 1
    BY <1>4, <2>1, FS_Interval, Zenon
  <2> HIDE DEF gone
  <2> QED
    BY <1>1, <2>2, CapacityAssumption DEF Index
<1>6. f \in [Index -> X \cup {NoInstr}]
  BY <1>1, Zenon
<1>7. \A j \in Index : j \in gone <=> c <= j /\ j < s.count
  BY <1>1, <1>4, CapacityAssumption DEF Index
<1> HIDE DEF gone
<1>8. \A j \in Index : f[Wrap(h + j)] = IF j \in gone THEN NoInstr ELSE At(s, j)
  <2> SUFFICES ASSUME NEW j \in Index
               PROVE  f[Wrap(h + j)] = IF j \in gone THEN NoInstr ELSE At(s, j)
    BY Zenon
  <2>1. gone \subseteq Index
    BY <1>3, Zenon DEF gone
  <2>2. (\E i \in gone : Wrap(h + j) = pos(s, i)) <=> j \in gone
    <3>1. \A i \in gone : Wrap(h + j) = pos(s, i) => i = j
      BY <1>1, <1>2, <2>1, PosOne, Zenon
    <3>2. j \in gone => Wrap(h + j) = pos(s, j)
      BY <1>2, Zenon
    <3> QED
      BY <3>1, <3>2, Zenon
  <2>3. f[Wrap(h + j)] = IF \E i \in gone : Wrap(h + j) = pos(s, i) THEN NoInstr ELSE s.instrs[Wrap(h + j)]
    BY <1>2, Zenon
  <2> QED
    BY <1>2, <2>2, <2>3, Zenon
<1>9. \A j \in Index : (j < c <=> ~(c <= j)) /\ (j < c => j < s.count)
  BY <1>1, CapacityAssumption DEF Index
<1>10. \A j \in Index : f[Wrap(h + j)] # NoInstr <=> j < c
  BY <1>2, <1>7, <1>8, <1>9, Zenon
<1>11. flush_behind(s, p) = [instrs |-> f, count |-> c, head |-> h, tail |-> Wrap(h + c)]
  <2> DEFINE u == [instrs |-> f, count |-> c, head |-> h, tail |-> s.tail]
  <2>1. flush_behind(s, p) = [u EXCEPT !.tail = Wrap(u.head + u.count)]
    BY <1>5, Zenon DEF flush_behind, update_tail, gone, Wrap
  <2> HIDE DEF f, c
  <2> QED
    BY <2>1
<1>12. \A j \in 0 .. p : j \in Index /\ j < c
  BY CapacityAssumption DEF Index
<1> HIDE DEF f, c, h
<1>13. /\ flush_behind(s, p) \in Ring(X) /\ Consistent(flush_behind(s, p))
       /\ \A j \in Index : At(flush_behind(s, p), j) = f[Wrap(h + j)]
  BY <1>1, <1>3, <1>6, <1>10, <1>11, RingMade
<1>14. flush_behind(s, p).count = p + 1
  BY <1>11 DEF c
<1> QED
  BY <1>7, <1>8, <1>9, <1>12, <1>13, <1>14, Zenon

-----------------------------------------------------------------------------
(* The order of the instructions in a ring                                 *)

Ids(s) == {x.iid : x \in Held(s)}

Ascends(s) == \A a, b \in Index : a < b /\ b < s.count => At(s, a).iid < At(s, b).iid

LEMMA HeldIn ==
  ASSUME NEW s, Consistent(s), NEW S, \A j \in Index : j < s.count => At(s, j) \in S
  PROVE  Held(s) \subseteq S
<1>1. \A j \in 0 .. s.count - 1 : j \in Index /\ j < s.count
  BY CapacityAssumption DEF Consistent, Index
<1> QED
  BY <1>1, HeldAt, Zenon

LEMMA AtHeld ==
  ASSUME NEW s, Consistent(s), NEW j \in Index, j < s.count
  PROVE  At(s, j) \in Held(s)
<1>1. j \in 0 .. s.count - 1
  BY CapacityAssumption DEF Consistent, Index
<1> QED
  BY <1>1, HeldAt, Zenon

LEMMA HeldType ==
  ASSUME NEW X, NEW s \in Ring(X)
  PROVE  Held(s) \subseteq X
<1>1. s.instrs \in [Index -> X \cup {NoInstr}]
  BY DEF Ring
<1> QED
  BY <1>1, Zenon DEF Held

LEMMA EmptyOrder ==
  ASSUME NEW s, Consistent(s), s.count = 0
  PROVE  Held(s) = {} /\ Ascends(s)
<1>1. \A j \in Index : ~(j < 0)
  BY CapacityAssumption DEF Index
<1>2. \A j \in 0 .. s.count - 1 : FALSE
  OBVIOUS
<1>3. Held(s) = {}
  BY <1>2, HeldAt, Zenon
<1> QED
  BY <1>1, <1>3, Zenon DEF Ascends

LEMMA AddOrder ==
  ASSUME NEW X, NoInstr \notin X, NEW s \in Ring(X), Consistent(s), s.count < Capacity, NEW x \in X,
         Ascends(s), \A y \in Held(s) : y.iid < x.iid
  PROVE  Ascends(add_instr(s, x)) /\ Held(add_instr(s, x)) \subseteq Held(s) \cup {x}
<1> DEFINE t == add_instr(s, x)
<1>1. /\ Consistent(t) /\ t.count = s.count + 1
      /\ \A j \in Index : At(t, j) = IF j = s.count THEN x ELSE At(s, j)
  BY AddInstr
<1>2. s.count \in Int
  BY CapacityAssumption DEF Consistent
<1> HIDE DEF t
<1>3. \A j \in Index : (j < t.count <=> j < s.count \/ j = s.count) /\ (j = s.count => ~(j < s.count))
  BY <1>1, <1>2, CapacityAssumption DEF Index
<1>4. \A j \in Index : j < s.count => At(s, j) \in Held(s)
  BY AtHeld, Zenon
<1>5. \A j \in Index : j < t.count => At(t, j) \in Held(s) \cup {x}
  BY <1>1, <1>3, <1>4, Zenon
<1>6. ASSUME NEW a \in Index, NEW b \in Index, a < b, b < t.count PROVE At(t, a).iid < At(t, b).iid
  <2>1. a < s.count /\ a # s.count
    BY <1>1, <1>2, <1>6, CapacityAssumption DEF Index
  <2>2. At(t, a) = At(s, a)
    BY <1>1, <2>1, Zenon
  <2>3. CASE b = s.count
    BY <1>1, <1>4, <2>1, <2>2, <2>3, Zenon
  <2>4. CASE b # s.count
    BY <1>1, <1>3, <1>6, <2>2, <2>4, Zenon DEF Ascends
  <2> QED
    BY <2>3, <2>4, Zenon
<1> QED
  BY <1>1, <1>5, <1>6, HeldIn, Zenon DEF t, Ascends

LEMMA RemoveOrder ==
  ASSUME NEW X, NEW s \in Ring(X), Consistent(s), s.count > 0, Ascends(s)
  PROVE  /\ Ascends(remove_instr(s))
         /\ Held(remove_instr(s)) \subseteq {y \in Held(s) : At(s, 0).iid < y.iid}
<1> DEFINE t == remove_instr(s)
<1>1. /\ Consistent(t) /\ t.count = s.count - 1
      /\ \A j \in 0 .. s.count - 2 : At(t, j) = At(s, j + 1)
  BY RemoveInstr, Zenon
<1>2. s.count \in 0 .. Capacity
  BY CapacityAssumption DEF Consistent
<1> HIDE DEF t
<1>3. \A j \in Index : j < t.count =>
        /\ j \in 0 .. s.count - 2 /\ j + 1 \in Index /\ 0 \in Index /\ 0 < j + 1 /\ j + 1 < s.count
  BY <1>1, <1>2, CapacityAssumption DEF Index
<1>4. \A j \in Index : j < t.count => At(t, j) \in {y \in Held(s) : At(s, 0).iid < y.iid}
  <2> SUFFICES ASSUME NEW j \in Index, j < t.count
               PROVE  At(t, j) \in {y \in Held(s) : At(s, 0).iid < y.iid}
    BY Zenon
  <2>1. At(t, j) = At(s, j + 1)
    BY <1>1, <1>3, Zenon
  <2>2. At(s, j + 1) \in Held(s)
    BY <1>3, AtHeld, Zenon
  <2>3. At(s, 0).iid < At(s, j + 1).iid
    BY <1>3, Zenon DEF Ascends
  <2> QED
    BY <2>1, <2>2, <2>3, Zenon
<1>5. ASSUME NEW a \in Index, NEW b \in Index, a < b, b < t.count PROVE At(t, a).iid < At(t, b).iid
  <2>1. a < t.count /\ a + 1 < b + 1
    BY <1>1, <1>2, <1>5, CapacityAssumption DEF Index
  <2>2. At(t, a) = At(s, a + 1) /\ At(t, b) = At(s, b + 1)
    BY <1>1, <1>3, <1>5, <2>1, Zenon
  <2>3. a + 1 \in Index /\ b + 1 \in Index /\ b + 1 < s.count
    BY <1>3, <1>5, <2>1, Zenon
  <2> QED
    BY <2>1, <2>2, <2>3, Zenon DEF Ascends
<1> QED
  BY <1>1, <1>4, <1>5, HeldIn, Zenon DEF t, Ascends

LEMMA SetOrder ==
  ASSUME NEW X, NoInstr \notin X, NEW s \in Ring(X), Consistent(s),
         NEW p \in Index, p < s.count, NEW x \in X, x.iid = At(s, p).iid, Ascends(s)
  PROVE  /\ Ascends(SetAt(s, p, x))
         /\ Held(SetAt(s, p, x)) \subseteq Held(s) \cup {x}
<1> DEFINE t == SetAt(s, p, x)
<1>1. /\ Consistent(t) /\ t.count = s.count
      /\ \A j \in Index : At(t, j) = IF j = p THEN x ELSE At(s, j)
  BY SetInstr
<1> HIDE DEF t
<1>2. \A j \in Index : j < t.count => At(t, j) \in Held(s) \cup {x}
  BY <1>1, AtHeld, Zenon
<1>3. \A j \in Index : At(t, j).iid = At(s, j).iid
  BY <1>1, Zenon
<1> QED
  BY <1>1, <1>2, <1>3, HeldIn, Zenon DEF t, Ascends

LEMMA FlushOrder ==
  ASSUME NEW X, NEW s \in Ring(X), Consistent(s), NEW p \in Index, p < s.count, Ascends(s)
  PROVE  Ascends(flush_behind(s, p)) /\ Held(flush_behind(s, p)) \subseteq Held(s)
<1> DEFINE t == flush_behind(s, p)
<1>1. /\ Consistent(t) /\ t.count = p + 1
      /\ \A j \in 0 .. p : At(t, j) = At(s, j)
  BY FlushBehind, Zenon
<1>2. s.count \in 0 .. Capacity
  BY CapacityAssumption DEF Consistent
<1> HIDE DEF t
<1>3. \A j \in Index : j < t.count => j \in 0 .. p /\ j < s.count
  BY <1>1, <1>2, CapacityAssumption DEF Index
<1>4. \A j \in Index : j < t.count => At(t, j) \in Held(s)
  BY <1>1, <1>3, AtHeld, Zenon
<1>5. ASSUME NEW a \in Index, NEW b \in Index, a < b, b < t.count PROVE At(t, a).iid < At(t, b).iid
  <2>1. a < t.count
    BY <1>1, <1>5, CapacityAssumption DEF Index
  <2> QED
    BY <1>1, <1>3, <1>5, <2>1, Zenon DEF Ascends
<1> QED
  BY <1>1, <1>4, <1>5, HeldIn, Zenon DEF t, Ascends

\* What f makes of the instructions of a ring, in their order.
Image(seq, f, u) == seq = [j \in 1 .. u.count |-> f[At(u, j - 1)]]

\* A stage's instructions enter the next one, which is empty, in their order.
LEMMA MoveOrder ==
  ASSUME NEW X, NoInstr \notin X, NEW s \in Ring(X), Consistent(s), s.count = 0,
         NEW u, Consistent(u), Ascends(u),
         NEW f, \A y \in Held(u) : f[y] \in X /\ f[y].iid = y.iid,
         NEW seq, Image(seq, f, u)
  PROVE  /\ add_all(s, seq) \in Ring(X) /\ Consistent(add_all(s, seq)) /\ Ascends(add_all(s, seq))
         /\ Held(add_all(s, seq)) \subseteq {f[y] : y \in Held(u)}
<1> DEFINE t == add_all(s, seq)
<1>1. u.count \in 0 .. Capacity
  BY DEF Consistent
<1>2. \A j \in 1 .. u.count : j - 1 \in Index /\ j - 1 < u.count
  BY <1>1, CapacityAssumption DEF Index
<1>3. \A j \in 1 .. u.count : At(u, j - 1) \in Held(u)
  BY <1>2, AtHeld, Zenon
<1>4. \A j \in 1 .. u.count : f[At(u, j - 1)] \in X
  BY <1>3, Zenon
<1>5. seq \in Seq(X) /\ Len(seq) = u.count
  BY <1>1, <1>4 DEF Image
<1>6. Len(seq) <= Capacity
  BY <1>1, <1>5, CapacityAssumption
<1>7. /\ t \in Ring(X) /\ Consistent(t) /\ t.count = u.count
      /\ \A j \in 0 .. u.count - 1 : At(t, j) = seq[j + 1]
  <2>1. /\ t \in Ring(X) /\ Consistent(t) /\ t.count = Len(seq)
        /\ \A j \in 0 .. Len(seq) - 1 : At(t, j) = seq[j + 1]
    BY <1>5, <1>6, AddAll
  <2> QED
    BY <1>5, <2>1, Zenon
<1> HIDE DEF t
<1>8. \A j \in Index : j < u.count => j \in 0 .. u.count - 1 /\ j + 1 \in 1 .. u.count /\ (j + 1) - 1 = j
  BY <1>1, CapacityAssumption DEF Index
<1>9. \A j \in Index : j < u.count => At(t, j) = f[At(u, j)]
  <2> SUFFICES ASSUME NEW j \in Index, j < u.count PROVE At(t, j) = f[At(u, j)]
    BY Zenon
  <2>1. seq[j + 1] = f[At(u, (j + 1) - 1)]
    BY <1>8, Zenon DEF Image
  <2> QED
    BY <1>7, <1>8, <2>1, Zenon
<1>10. \A j \in Index : j < u.count => At(u, j) \in Held(u)
  BY AtHeld, Zenon
<1>11. \A j \in Index : j < t.count => At(t, j) \in {f[y] : y \in Held(u)}
  BY <1>7, <1>9, <1>10, Zenon
<1>12. ASSUME NEW a \in Index, NEW b \in Index, a < b, b < t.count PROVE At(t, a).iid < At(t, b).iid
  <2>1. a < u.count /\ b < u.count
    BY <1>1, <1>7, <1>12, CapacityAssumption DEF Index
  <2>2. At(u, a).iid < At(u, b).iid
    BY <1>12, <2>1, Zenon DEF Ascends
  <2>3. At(t, a).iid = At(u, a).iid /\ At(t, b).iid = At(u, b).iid
    BY <1>9, <1>10, <2>1, Zenon
  <2> QED
    BY <2>2, <2>3, Zenon
<1> QED
  BY <1>7, <1>11, <1>12, HeldIn, Zenon DEF t, Ascends

-----------------------------------------------------------------------------
(* The stages                                                              *)

\* The instructions that may be in a stage.
Placed(s) == {i \in Instr : i.st \in Mapping[s] /\ (s = "mID" => ~i.done)}

RingsInv ==
  /\ stage \in [Stages -> Ring(Instr)]
  /\ \A s \in Stages : stage[s] \in Ring(Placed(s)) /\ Consistent(stage[s])

Ahead(s, t) ==
  \/ s = "mWB" /\ t \in {"mMM", "mEX", "mID"}
  \/ s = "mMM" /\ t \in {"mEX", "mID"}
  \/ s = "mEX" /\ t = "mID"

\* What is in a stage further on is older, and the issue slot holds the youngest.
OrderInv ==
  /\ \A s \in Stages : Ascends(stage[s])
  /\ \A s, t \in Stages : Ahead(s, t) => \A m \in Ids(stage[s]), n \in Ids(stage[t]) : m < n
  /\ \A s \in Stages : \A n \in Ids(stage[s]) : n < issueId /\ (issue # NoInstr => n < issue.iid)
  /\ issue # NoInstr => issue.iid < issueId

\* Where an instruction is done with its stage, there is room for the whole
\* stage in the next one.
DoneInv ==
  /\ (\E x \in Held(stage["mMM"]) : x.done) => stage["mWB"].count = 0
  /\ (\E x \in Held(stage["mEX"]) : x.done) => stage["mMM"].count = 0

StageInv == RingsInv /\ OrderInv /\ DoneInv

LEMMA PlacedType == \A s : Placed(s) \subseteq Instr /\ NoInstr \notin Placed(s)
BY ProgramAssumption, Zenon DEF Placed

LEMMA RingPlaced == \A s : Ring(Placed(s)) \subseteq Ring(Instr)
<1> SUFFICES ASSUME NEW X, X \subseteq Instr PROVE Ring(X) \subseteq Ring(Instr)
  BY PlacedType, Zenon
<1>1. ASSUME NEW g \in [Index -> X \cup {NoInstr}] PROVE g \in [Index -> Instr \cup {NoInstr}]
  BY <1>1, Zenon
<1> QED
  BY <1>1 DEF Ring

LEMMA StageNames == /\ "mWB" \in Stages /\ "mMM" \in Stages /\ "mEX" \in Stages /\ "mID" \in Stages
                    /\ \A s \in Stages : s \in {"mWB", "mMM", "mEX", "mID"}
BY Zenon DEF Stages

LEMMA OrderMade ==
  ASSUME \A s \in Stages : Ascends(stage'[s]),
         \A s, t \in Stages : Ahead(s, t) => \A m \in Ids(stage'[s]), n \in Ids(stage'[t]) : m < n,
         \A s \in Stages : \A n \in Ids(stage'[s]) : n < issueId' /\ (issue' # NoInstr => n < issue'.iid),
         issue' # NoInstr => issue'.iid < issueId'
  PROVE  OrderInv'
<1>1. \A s \in Stages : Ascends(stage[s])'
  BY Zenon DEF Ascends, At, pos
<1>2. \A s \in Stages : Ids(stage[s])' = Ids(stage'[s])
  BY Zenon DEF Ids, Held
<1> QED
  BY <1>1, <1>2, Zenon DEF OrderInv, Ahead

\* No instruction comes in or moves ahead: the order is kept.
LEMMA OrderShrinks ==
  ASSUME OrderInv, \A s \in Stages : Ascends(stage'[s]) /\ Ids(stage'[s]) \subseteq Ids(stage[s]),
         issueId' = issueId, issue' = issue \/ issue' = NoInstr
  PROVE  OrderInv'
<1>1. \A s, t \in Stages : Ahead(s, t) => \A m \in Ids(stage'[s]), n \in Ids(stage'[t]) : m < n
  BY Zenon DEF OrderInv
<1>2. \A s \in Stages : \A n \in Ids(stage'[s]) : n < issueId' /\ (issue' # NoInstr => n < issue'.iid)
  BY Zenon DEF OrderInv
<1>3. issue' # NoInstr => issue'.iid < issueId'
  BY Zenon DEF OrderInv
<1> QED
  BY <1>1, <1>2, <1>3, OrderMade, Zenon

LEMMA StayKeeps ==
  ASSUME StageInv, stage' = stage, issueId' = issueId, issue' = issue \/ issue' = NoInstr
  PROVE  StageInv'
<1>1. OrderInv'
  BY OrderShrinks, Zenon DEF StageInv, OrderInv
<1>2. RingsInv'
  BY Zenon DEF StageInv, RingsInv, Ring, Placed, Instr, Consistent, At, pos
<1>3. DoneInv'
  BY Zenon DEF StageInv, DoneInv, Held
<1> QED
  BY <1>1, <1>2, <1>3, Zenon DEF StageInv

\* An action leaves its instruction in the stage, which stays what it is.
LEMMA PutKeeps ==
  ASSUME StageInv, NEW s \in Stages, NEW p \in Index, p < stage[s].count,
         NEW x \in Placed(s), x.iid = At(stage[s], p).iid,
         x.done /\ s = "mMM" => stage["mWB"].count = 0,
         x.done /\ s = "mEX" => stage["mMM"].count = 0,
         stage' = [stage EXCEPT ![s] = SetAt(@, p, x)], UNCHANGED <<issue, issueId>>
  PROVE  StageInv' /\ \A j \in Index : At(stage'[s], j) = IF j = p THEN x ELSE At(stage[s], j)
<1>1. /\ stage \in [Stages -> Ring(Instr)]
      /\ \A t \in Stages : stage[t] \in Ring(Placed(t)) /\ Consistent(stage[t]) /\ Ascends(stage[t])
  BY Zenon DEF StageInv, RingsInv, OrderInv
<1>2. stage'[s] = SetAt(stage[s], p, x) /\ \A t \in Stages \ {s} : stage'[t] = stage[t]
  BY <1>1, Zenon
<1>3. /\ stage'[s] \in Ring(Placed(s)) /\ Consistent(stage'[s]) /\ stage'[s].count = stage[s].count
      /\ \A j \in Index : At(stage'[s], j) = IF j = p THEN x ELSE At(stage[s], j)
  BY <1>1, <1>2, PlacedType, SetInstr
<1>4. Ascends(stage'[s]) /\ Held(stage'[s]) \subseteq Held(stage[s]) \cup {x}
  BY <1>1, <1>2, PlacedType, SetOrder
<1>5. At(stage[s], p) \in Held(stage[s])
  BY <1>1, AtHeld, Zenon
<1>6. \A t \in Stages : Ascends(stage'[t]) /\ Ids(stage'[t]) \subseteq Ids(stage[t])
  BY <1>1, <1>2, <1>4, <1>5, Zenon DEF Ids
<1>7. OrderInv'
  BY <1>6, OrderShrinks, Zenon DEF StageInv
<1>8. RingsInv'
  <2>1. stage' \in [Stages -> Ring(Instr)]
    BY <1>1, <1>2, <1>3, RingPlaced, Zenon
  <2>2. \A t \in Stages : stage'[t] \in Ring(Placed(t)) /\ Consistent(stage'[t])
    BY <1>1, <1>2, <1>3, Zenon
  <2> QED
    BY <2>1, <2>2, Zenon DEF RingsInv, Ring, Placed, Instr, Consistent, At, pos
<1>9. DoneInv'
  <2>1. \A t \in Stages : stage'[t].count = stage[t].count
    BY <1>2, <1>3, Zenon
  <2>2. (\E y \in Held(stage'["mMM"]) : y.done) => stage'["mWB"].count = 0
    <3>1. CASE s = "mMM"
      BY <1>4, <2>1, <3>1, StageNames, Zenon DEF StageInv, DoneInv
    <3>2. CASE s # "mMM"
      BY <1>2, <2>1, <3>2, StageNames, Zenon DEF StageInv, DoneInv
    <3> QED
      BY <3>1, <3>2, Zenon
  <2>3. (\E y \in Held(stage'["mEX"]) : y.done) => stage'["mMM"].count = 0
    <3>1. CASE s = "mEX"
      BY <1>4, <2>1, <3>1, StageNames, Zenon DEF StageInv, DoneInv
    <3>2. CASE s # "mEX"
      BY <1>2, <2>1, <3>2, StageNames, Zenon DEF StageInv, DoneInv
    <3> QED
      BY <3>1, <3>2, Zenon
  <2> QED
    BY <2>2, <2>3, Zenon DEF DoneInv, Held
<1> QED
  BY <1>3, <1>7, <1>8, <1>9, Zenon DEF StageInv

\* An exception flushes what is behind its instruction.
LEMMA FlushKeeps ==
  ASSUME StageInv, NEW p \in Index, p < stage["mEX"].count,
         NEW x \in Placed("mEX"), x.iid = At(stage["mEX"], p).iid, stage["mMM"].count = 0,
         stage' = [stage EXCEPT !["mEX"] = flush_behind(SetAt(@, p, x), p), !["mID"] = EmptyStage],
         issue' = NoInstr, issueId' = issueId
  PROVE  /\ StageInv' /\ stage'["mID"].count = 0
         /\ \A j \in 0 .. p : At(stage'["mEX"], j) = IF j = p THEN x ELSE At(stage["mEX"], j)
<1> DEFINE u == SetAt(stage["mEX"], p, x)
<1>1. /\ stage \in [Stages -> Ring(Instr)]
      /\ \A t \in Stages : stage[t] \in Ring(Placed(t)) /\ Consistent(stage[t]) /\ Ascends(stage[t])
  BY Zenon DEF StageInv, RingsInv, OrderInv
<1>2. /\ stage'["mEX"] = flush_behind(u, p) /\ stage'["mID"] = EmptyStage
      /\ \A t \in Stages \ {"mEX", "mID"} : stage'[t] = stage[t]
  BY <1>1, StageNames
<1>3. /\ u \in Ring(Placed("mEX")) /\ Consistent(u) /\ u.count = stage["mEX"].count
      /\ \A j \in Index : At(u, j) = IF j = p THEN x ELSE At(stage["mEX"], j)
  BY <1>1, StageNames, PlacedType, SetInstr
<1>4. Ascends(u) /\ Held(u) \subseteq Held(stage["mEX"]) \cup {x}
  BY <1>1, StageNames, PlacedType, SetOrder
<1> HIDE DEF u
<1>5. /\ stage'["mEX"] \in Ring(Placed("mEX")) /\ Consistent(stage'["mEX"])
      /\ \A j \in 0 .. p : At(stage'["mEX"], j) = At(u, j)
  <2>1. p < u.count
    BY <1>3, Zenon
  <2>2. u \in Ring(Placed("mEX")) /\ Consistent(u)
    BY <1>3, Zenon
  <2>3. /\ flush_behind(u, p) \in Ring(Placed("mEX")) /\ Consistent(flush_behind(u, p))
        /\ \A j \in 0 .. p : At(flush_behind(u, p), j) = At(u, j)
    BY <2>1, <2>2, FlushBehind, Zenon
  <2> QED
    BY <1>2, <2>3, Zenon
<1>6. Ascends(stage'["mEX"]) /\ Held(stage'["mEX"]) \subseteq Held(stage["mEX"]) \cup {x}
  BY <1>2, <1>3, <1>4, FlushOrder, Zenon
<1>7. /\ stage'["mID"] \in Ring(Placed("mID")) /\ Consistent(stage'["mID"]) /\ stage'["mID"].count = 0
  BY <1>2, EmptyRing, Zenon
<1>8. Held(stage'["mID"]) = {} /\ Ascends(stage'["mID"])
  BY <1>7, EmptyOrder, Zenon
<1>9. At(stage["mEX"], p) \in Held(stage["mEX"])
  BY <1>1, StageNames, AtHeld, Zenon
<1>10. \A t \in Stages : Ascends(stage'[t]) /\ Ids(stage'[t]) \subseteq Ids(stage[t])
  <2>1. Ids(stage'["mEX"]) \subseteq Ids(stage["mEX"]) /\ Ids(stage'["mID"]) \subseteq Ids(stage["mID"])
    BY <1>6, <1>8, <1>9, Zenon DEF Ids
  <2> QED
    BY <1>1, <1>2, <1>6, <1>8, <2>1, Zenon
<1>11. OrderInv'
  BY <1>10, OrderShrinks, Zenon DEF StageInv
<1>12. RingsInv'
  <2>1. \A t \in Stages : stage'[t] \in Ring(Placed(t)) /\ Consistent(stage'[t])
    BY <1>1, <1>2, <1>5, <1>7, Zenon
  <2>2. stage' \in [Stages -> Ring(Instr)]
    BY <1>1, <2>1, RingPlaced, Zenon
  <2> QED
    BY <2>1, <2>2, Zenon DEF RingsInv, Ring, Placed, Instr, Consistent, At, pos
<1>13. DoneInv'
  <2>1. stage'["mMM"] = stage["mMM"] /\ stage'["mWB"] = stage["mWB"]
    BY <1>2, StageNames, Zenon
  <2> QED
    BY <2>1, Zenon DEF StageInv, DoneInv, Held
<1>14. \A j \in 0 .. p : j \in Index
  BY CapacityAssumption DEF Index
<1> QED
  BY <1>3, <1>5, <1>7, <1>11, <1>12, <1>13, <1>14, Zenon DEF StageInv

\* An instruction goes from decode to execution.
LEMMA EnterKeeps ==
  ASSUME StageInv, stage["mEX"].count < Capacity,
         NEW id \in Ring(Placed("mID")), Consistent(id), Ascends(id), id.count > 0,
         Held(id) \subseteq Held(stage["mID"]),
         NEW x \in Placed("mEX"), x.iid = At(id, 0).iid, ~x.done,
         stage' = [stage EXCEPT !["mID"] = remove_instr(id), !["mEX"] = add_instr(@, x)],
         issue' = issue \/ issue' = NoInstr, issueId' = issueId
  PROVE  StageInv' /\ stage'["mID"].count = id.count - 1
<1>1. /\ stage \in [Stages -> Ring(Instr)]
      /\ \A t \in Stages : stage[t] \in Ring(Placed(t)) /\ Consistent(stage[t]) /\ Ascends(stage[t])
  BY Zenon DEF StageInv, RingsInv, OrderInv
<1>2. /\ stage'["mEX"] = add_instr(stage["mEX"], x) /\ stage'["mID"] = remove_instr(id)
      /\ \A t \in Stages \ {"mEX", "mID"} : stage'[t] = stage[t]
  BY <1>1, StageNames
<1>3. \A m \in Ids(stage["mEX"]), n \in Ids(stage["mID"]) : m < n
  BY StageNames, Zenon DEF StageInv, OrderInv, Ahead
<1>4. x.iid \in Ids(stage["mID"])
  <2>1. 0 \in Index /\ 0 < id.count
    BY CapacityAssumption DEF Index, Consistent
  <2>2. At(id, 0) \in Held(stage["mID"])
    BY <2>1, AtHeld, Zenon
  <2> QED
    BY <2>2, Zenon DEF Ids
<1>5. \A y \in Held(stage["mEX"]) : y.iid < x.iid
  BY <1>3, <1>4, Zenon DEF Ids
<1>6. stage'["mEX"] \in Ring(Placed("mEX")) /\ Consistent(stage'["mEX"])
  BY <1>1, <1>2, StageNames, PlacedType, AddInstr
<1>7. Ascends(stage'["mEX"]) /\ Held(stage'["mEX"]) \subseteq Held(stage["mEX"]) \cup {x}
  BY <1>1, <1>2, <1>5, StageNames, PlacedType, AddOrder
<1>8. /\ stage'["mID"] \in Ring(Placed("mID")) /\ Consistent(stage'["mID"])
      /\ stage'["mID"].count = id.count - 1
  BY <1>2, RemoveInstr, Zenon
<1>9. Ascends(stage'["mID"]) /\ Held(stage'["mID"]) \subseteq {y \in Held(id) : x.iid < y.iid}
  BY <1>2, RemoveOrder, Zenon
<1>10. /\ Ids(stage'["mEX"]) \subseteq Ids(stage["mEX"]) \cup {x.iid}
       /\ Ids(stage'["mID"]) \subseteq {n \in Ids(stage["mID"]) : x.iid < n}
  BY <1>7, <1>9, Zenon DEF Ids
<1>11. OrderInv'
  <2>1. \A t \in Stages : Ascends(stage'[t])
    BY <1>1, <1>2, <1>7, <1>9, Zenon
  <2>2. ASSUME NEW s \in Stages, NEW t \in Stages, Ahead(s, t), NEW m \in Ids(stage'[s]), NEW n \in Ids(stage'[t])
        PROVE  m < n
    <3>1. CASE t = "mID" /\ s = "mEX"
      BY <1>3, <1>10, <2>2, <3>1, Zenon
    <3>2. CASE t = "mID" /\ s # "mEX"
      <4>1. m \in Ids(stage[s]) /\ n \in Ids(stage[t]) /\ s # "mID"
        BY <1>2, <1>10, <2>2, <3>2, Zenon DEF Ahead
      <4> QED
        BY <2>2, <4>1, Zenon DEF StageInv, OrderInv
    <3>3. CASE t = "mEX"
      <4>1. s \in {"mWB", "mMM"} /\ m \in Ids(stage[s])
        BY <1>2, <2>2, <3>3, Zenon DEF Ahead
      <4>2. Ahead(s, "mEX") /\ Ahead(s, "mID")
        BY <4>1, Zenon DEF Ahead
      <4> QED
        BY <1>4, <1>10, <2>2, <3>3, <4>1, <4>2, StageNames, Zenon DEF StageInv, OrderInv
    <3>4. CASE t \notin {"mID", "mEX"}
      <4>1. s \notin {"mID", "mEX"}
        BY <2>2, <3>4, StageNames, Zenon DEF Ahead
      <4> QED
        BY <1>2, <2>2, <3>4, <4>1, Zenon DEF StageInv, OrderInv
    <3> QED
      BY <3>1, <3>2, <3>3, <3>4, Zenon
  <2>3. ASSUME NEW s \in Stages, NEW n \in Ids(stage'[s])
        PROVE  \E t \in Stages : n \in Ids(stage[t])
    BY <1>2, <1>4, <1>10, <2>3, StageNames, Zenon
  <2>4. \A s \in Stages : \A n \in Ids(stage'[s]) : n < issueId' /\ (issue' # NoInstr => n < issue'.iid)
    BY <2>3, Zenon DEF StageInv, OrderInv
  <2>5. issue' # NoInstr => issue'.iid < issueId'
    BY Zenon DEF StageInv, OrderInv
  <2> QED
    BY <2>1, <2>2, <2>4, <2>5, OrderMade, Zenon
<1>12. RingsInv'
  <2>1. \A t \in Stages : stage'[t] \in Ring(Placed(t)) /\ Consistent(stage'[t])
    BY <1>1, <1>2, <1>6, <1>8, Zenon
  <2>2. stage' \in [Stages -> Ring(Instr)]
    BY <1>1, <2>1, RingPlaced, Zenon
  <2> QED
    BY <2>1, <2>2, Zenon DEF RingsInv, Ring, Placed, Instr, Consistent, At, pos
<1>13. DoneInv'
  <2>1. stage'["mMM"] = stage["mMM"] /\ stage'["mWB"] = stage["mWB"]
    BY <1>2, StageNames, Zenon
  <2> QED
    BY <1>7, <2>1, Zenon DEF StageInv, DoneInv, Held
<1> QED
  BY <1>8, <1>11, <1>12, <1>13, Zenon DEF StageInv

\* An instruction comes into decode, younger than all others.
LEMMA DecodeKeeps ==
  ASSUME StageInv, stage["mID"].count < Capacity, NEW x \in Placed("mID"),
         \A s \in Stages : \A n \in Ids(stage[s]) : n < x.iid /\ n < issueId',
         x.iid < issueId', issue' = NoInstr,
         stage' = [stage EXCEPT !["mID"] = add_instr(@, x)]
  PROVE  StageInv' /\ stage'["mID"].count = stage["mID"].count + 1
<1>1. /\ stage \in [Stages -> Ring(Instr)]
      /\ \A t \in Stages : stage[t] \in Ring(Placed(t)) /\ Consistent(stage[t]) /\ Ascends(stage[t])
  BY Zenon DEF StageInv, RingsInv, OrderInv
<1>2. /\ stage'["mID"] = add_instr(stage["mID"], x)
      /\ \A t \in Stages \ {"mID"} : stage'[t] = stage[t]
  BY <1>1, StageNames, Zenon
<1>3. \A y \in Held(stage["mID"]) : y.iid < x.iid
  BY StageNames, Zenon DEF Ids
<1>4. /\ stage'["mID"] \in Ring(Placed("mID")) /\ Consistent(stage'["mID"])
      /\ stage'["mID"].count = stage["mID"].count + 1
  BY <1>1, <1>2, StageNames, PlacedType, AddInstr
<1>5. Ascends(stage'["mID"]) /\ Held(stage'["mID"]) \subseteq Held(stage["mID"]) \cup {x}
  BY <1>1, <1>2, <1>3, StageNames, PlacedType, AddOrder
<1>6. Ids(stage'["mID"]) \subseteq Ids(stage["mID"]) \cup {x.iid}
  BY <1>5, Zenon DEF Ids
<1>7. OrderInv'
  <2>1. \A t \in Stages : Ascends(stage'[t])
    BY <1>1, <1>2, <1>5, Zenon
  <2>2. ASSUME NEW s \in Stages, NEW t \in Stages, Ahead(s, t), NEW m \in Ids(stage'[s]), NEW n \in Ids(stage'[t])
        PROVE  m < n
    <3>1. s # "mID"
      BY <2>2 DEF Ahead
    <3>2. m \in Ids(stage[s])
      BY <1>2, <2>2, <3>1, Zenon
    <3>3. CASE t = "mID" /\ n = x.iid
      BY <3>2, <3>3, Zenon
    <3>4. CASE n \in Ids(stage[t])
      BY <2>2, <3>2, <3>4, Zenon DEF StageInv, OrderInv
    <3> QED
      BY <1>2, <1>6, <2>2, <3>3, <3>4, Zenon
  <2>3. \A s \in Stages : \A n \in Ids(stage'[s]) : n < issueId' /\ (issue' # NoInstr => n < issue'.iid)
    BY <1>2, <1>6, Zenon
  <2>4. \A s, t \in Stages : Ahead(s, t) => \A m \in Ids(stage'[s]), n \in Ids(stage'[t]) : m < n
    BY <2>2, Zenon
  <2> QED
    BY <2>1, <2>3, <2>4, OrderMade, Zenon
<1>8. RingsInv'
  <2>1. \A t \in Stages : stage'[t] \in Ring(Placed(t)) /\ Consistent(stage'[t])
    BY <1>1, <1>2, <1>4, Zenon
  <2>2. stage' \in [Stages -> Ring(Instr)]
    BY <1>1, <2>1, RingPlaced, Zenon
  <2> QED
    BY <2>1, <2>2, Zenon DEF RingsInv, Ring, Placed, Instr, Consistent, At, pos
<1>9. DoneInv'
  <2>1. stage'["mMM"] = stage["mMM"] /\ stage'["mWB"] = stage["mWB"] /\ stage'["mEX"] = stage["mEX"]
    BY <1>2, StageNames
  <2> QED
    BY <2>1, Zenon DEF StageInv, DoneInv, Held
<1> QED
  BY <1>4, <1>7, <1>8, <1>9, Zenon DEF StageInv

\* What an instruction is when it comes to the next stage.
Onwards(i) == [i EXCEPT !.st = Onward[@], !.done = FALSE]

LEMMA OnwardsType ==
  ASSUME NEW s \in {"mMM", "mEX"}, NEW i \in Placed(s)
  PROVE  Onwards(i) \in Placed(NextStage[s]) /\ Onwards(i).iid = i.iid /\ ~Onwards(i).done
<1>1. i \in Instr /\ i.st \in Mapping[s]
  BY Zenon DEF Placed
<1>2. /\ NextStage["mMM"] = "mWB" /\ NextStage["mEX"] = "mMM"
      /\ Mapping["mMM"] = {"S_MM", "S_MMe"} /\ Mapping["mWB"] = {"S_WB", "S_WBe"}
      /\ Mapping["mEX"] = {"S_EX", "S_EXe"}
  BY DEF NextStage, Mapping
<1>3. /\ Onward["S_EX"] = "S_MM" /\ Onward["S_EXe"] = "S_MMe"
      /\ Onward["S_MM"] = "S_WB" /\ Onward["S_MMe"] = "S_WBe"
  BY DEF Onward
<1>4. {"S_MM", "S_MMe", "S_WB", "S_WBe"} \subseteq DOMAIN From
  BY DEF From
<1>5. Onward[i.st] \in Mapping[NextStage[s]] /\ Onward[i.st] \in DOMAIN From
  BY <1>1, <1>2, <1>3, <1>4
<1>6. Onwards(i) \in Instr /\ Onwards(i).st = Onward[i.st] /\ Onwards(i).iid = i.iid /\ ~Onwards(i).done
  <2> HIDE DEF From, Onward
  <2> QED
    BY <1>1, <1>5, Zenon DEF Instr, Onwards
<1>7. NextStage[s] # "mID"
  BY <1>2
<1> QED
  BY <1>5, <1>6, <1>7, Zenon DEF Placed

\* The last stage lets go of its instructions.
LEMMA RetireKeeps ==
  ASSUME StageInv, at = "mWB", Moved(Contents(stage[at])), UNCHANGED <<issue, issueId>>
  PROVE  StageInv' /\ stage'["mID"] = stage["mID"]
<1>1. /\ stage \in [Stages -> Ring(Instr)]
      /\ \A t \in Stages : stage[t] \in Ring(Placed(t)) /\ Consistent(stage[t]) /\ Ascends(stage[t])
  BY Zenon DEF StageInv, RingsInv, OrderInv
<1>2. /\ stage'["mWB"] = remove_all(stage["mWB"]) /\ \A t \in Stages \ {"mWB"} : stage'[t] = stage[t]
      /\ stage' = [s \in Stages |-> stage'[s]]
  BY StageNames, Zenon DEF Moved
<1>3. /\ stage'["mWB"] \in Ring(Placed("mWB")) /\ Consistent(stage'["mWB"]) /\ stage'["mWB"].count = 0
  BY <1>1, <1>2, StageNames, RemoveAll
<1>4. Held(stage'["mWB"]) = {} /\ Ascends(stage'["mWB"])
  BY <1>3, EmptyOrder, Zenon
<1>5. \A t \in Stages : Ascends(stage'[t]) /\ Ids(stage'[t]) \subseteq Ids(stage[t])
  BY <1>1, <1>2, <1>4, Zenon DEF Ids
<1>6. OrderInv'
  BY <1>5, OrderShrinks, Zenon DEF StageInv
<1>7. RingsInv'
  <2>1. \A t \in Stages : stage'[t] \in Ring(Placed(t)) /\ Consistent(stage'[t])
    BY <1>1, <1>2, <1>3, Zenon
  <2>2. stage' \in [Stages -> Ring(Instr)]
    BY <1>2, <2>1, RingPlaced, Zenon
  <2> QED
    BY <2>1, <2>2, Zenon DEF RingsInv, Ring, Placed, Instr, Consistent, At, pos
<1>8. stage'["mMM"] = stage["mMM"] /\ stage'["mEX"] = stage["mEX"] /\ stage'["mID"] = stage["mID"]
  BY <1>2, StageNames
<1>9. DoneInv'
  BY <1>3, <1>8, Zenon DEF StageInv, DoneInv, Held
<1> QED
  BY <1>6, <1>7, <1>8, <1>9, Zenon DEF StageInv

\* What Moved() does to the two stages.
LEMMA MovedStages ==
  ASSUME RingsInv, at \in {"mMM", "mEX"}, Moved(Contents(stage[at]))
  PROVE  /\ stage'[at] = remove_all(stage[at])
         /\ stage'[NextStage[at]]
              = add_all(stage[NextStage[at]], [j \in 1 .. stage[at].count |-> Onwards(At(stage[at], j - 1))])
         /\ \A t \in Stages \ {at, NextStage[at]} : stage'[t] = stage[t]
         /\ stage' = [s \in Stages |-> stage'[s]]
         /\ at \in Stages /\ NextStage[at] \in Stages /\ NextStage[at] # at
<1>1. at \in Stages /\ NextStage[at] \in Stages /\ NextStage[at] # at /\ at # "mWB"
  BY StageNames DEF NextStage
<1> DEFINE go == Contents(stage[at])
           seq == [j \in DOMAIN go |-> [go[j] EXCEPT !.st = Onward[@], !.done = FALSE]]
<1>2. seq = [j \in 1 .. stage[at].count |-> Onwards(At(stage[at], j - 1))]
  <2>1. DOMAIN go = 1 .. stage[at].count /\ \A j \in 1 .. stage[at].count : go[j] = At(stage[at], j - 1)
    BY Zenon DEF Contents
  <2> QED
    BY <2>1, Zenon DEF Onwards
<1>3. /\ stage'[at] = remove_all(stage[at])
      /\ stage'[NextStage[at]] = add_all(stage[NextStage[at]], seq)
      /\ \A t \in Stages \ {at, NextStage[at]} : stage'[t] = stage[t]
      /\ stage' = [s \in Stages |-> stage'[s]]
  BY <1>1, Zenon DEF Moved
<1> QED
  BY <1>1, <1>2, <1>3, Zenon

LEMMA MoveKeeps ==
  ASSUME StageInv, at \in {"mMM", "mEX"}, Moved(Contents(stage[at])), UNCHANGED <<issue, issueId>>,
         stage[at].count = 0 \/ stage[NextStage[at]].count = 0
  PROVE  StageInv' /\ stage'["mID"] = stage["mID"]
<1> DEFINE n == NextStage[at]
           u == stage[at]
           seq == [j \in 1 .. u.count |-> Onwards(At(u, j - 1))]
<1>1. /\ stage \in [Stages -> Ring(Instr)]
      /\ \A t \in Stages : stage[t] \in Ring(Placed(t)) /\ Consistent(stage[t]) /\ Ascends(stage[t])
  BY Zenon DEF StageInv, RingsInv, OrderInv
<1>2. /\ stage'[at] = remove_all(u) /\ stage'[n] = add_all(stage[n], seq)
      /\ \A t \in Stages \ {at, n} : stage'[t] = stage[t]
      /\ stage' = [s \in Stages |-> stage'[s]]
      /\ at \in Stages /\ n \in Stages /\ n # at
  BY MovedStages, Zenon DEF StageInv
<1>3. (at = "mMM" /\ n = "mWB") \/ (at = "mEX" /\ n = "mMM")
  BY DEF NextStage
<1> HIDE DEF n
<1>4. stage'[at] \in Ring(Placed(at)) /\ Consistent(stage'[at]) /\ stage'[at].count = 0
  BY <1>1, <1>2, RemoveAll
<1>5. Held(stage'[at]) = {} /\ Ascends(stage'[at])
  BY <1>4, EmptyOrder, Zenon
<1>6. /\ stage'[n] \in Ring(Placed(n)) /\ Consistent(stage'[n]) /\ Ascends(stage'[n])
      /\ \/ stage'[n] = stage[n]
         \/ /\ Held(stage[n]) = {} /\ Ids(stage'[n]) \subseteq Ids(u)
            /\ \A x \in Held(stage'[n]) : ~x.done
  <2>1. CASE u.count = 0
    <3>1. seq = <<>>
      BY <2>1
    <3>2. stage'[n] = stage[n]
      BY <1>1, <1>2, <3>1, AddNone, Zenon
    <3> QED
      BY <1>1, <1>2, <3>2, Zenon
  <2>2. CASE u.count # 0
    <3> DEFINE f == [y \in Held(u) |-> Onwards(y)]
    <3>1. stage[n].count = 0 /\ Held(stage[n]) = {}
      BY <1>1, <1>2, <2>2, EmptyOrder, Zenon DEF n
    <3>2. \A y \in Held(u) : y \in Placed(at)
      BY <1>1, <1>2, HeldType, Zenon
    <3>3. \A y \in Held(u) : f[y] \in Placed(n) /\ f[y].iid = y.iid /\ ~f[y].done
      BY <3>2, OnwardsType, Zenon DEF n
    <3>4. Image(seq, f, u)
      <4>1. \A j \in 1 .. u.count : j - 1 \in Index /\ j - 1 < u.count
        <5>1. u.count \in 0 .. Capacity
          BY <1>1, <1>2, Zenon DEF Consistent
        <5> QED
          BY <5>1, CapacityAssumption DEF Index
      <4>2. \A j \in 1 .. u.count : At(u, j - 1) \in Held(u)
        BY <1>1, <1>2, <4>1, AtHeld, Zenon
      <4> QED
        BY <4>2, Zenon DEF Image
    <3> HIDE DEF f, seq
    <3>5. /\ add_all(stage[n], seq) \in Ring(Placed(n)) /\ Consistent(add_all(stage[n], seq))
          /\ Ascends(add_all(stage[n], seq))
          /\ Held(add_all(stage[n], seq)) \subseteq {f[y] : y \in Held(u)}
      BY <1>1, <1>2, <3>1, <3>3, <3>4, PlacedType, MoveOrder
    <3>6. Held(stage'[n]) \subseteq {f[y] : y \in Held(u)}
      BY <1>2, <3>5, Zenon
    <3>7. \A x \in Held(stage'[n]) : ~x.done /\ \E y \in Held(u) : x.iid = y.iid
      BY <3>3, <3>6, Zenon
    <3>8. Ids(stage'[n]) \subseteq Ids(u)
      BY <3>7, Zenon DEF Ids
    <3> QED
      BY <1>2, <3>1, <3>5, <3>7, <3>8, Zenon
  <2> QED
    BY <2>1, <2>2, Zenon
<1> HIDE DEF seq
<1>7. OrderInv'
  <2>1. \A t \in Stages : Ascends(stage'[t])
    BY <1>1, <1>2, <1>5, <1>6, Zenon
  <2>2. CASE stage'[n] = stage[n]
    <3>1. \A t \in Stages : Ids(stage'[t]) \subseteq Ids(stage[t])
      BY <1>2, <1>5, <2>2, Zenon DEF Ids
    <3> QED
      BY <2>1, <3>1, OrderShrinks, Zenon DEF StageInv
  <2>3. CASE Ids(stage'[n]) \subseteq Ids(u)
    <3>1. \A s \in Stages : s # n => Ids(stage'[s]) \subseteq Ids(stage[s])
      BY <1>2, <1>5, Zenon DEF Ids
    <3>2. Ids(stage'[at]) = {}
      BY <1>5, Zenon DEF Ids
    <3>3. ASSUME NEW s \in Stages, NEW t \in Stages, Ahead(s, t), NEW a \in Ids(stage'[s]), NEW b \in Ids(stage'[t])
          PROVE  a < b
      <4>1. s # at /\ t # at
        BY <3>2, <3>3, Zenon
      <4>2. CASE s = n
        <5>1. Ahead(at, t) /\ t # n
          BY <1>3, <3>3, <4>1, <4>2 DEF Ahead
        <5> QED
          BY <1>2, <2>3, <3>1, <3>3, <4>2, <5>1, Zenon DEF StageInv, OrderInv
      <4>3. CASE t = n
        <5>1. Ahead(s, at) /\ s # n
          BY <1>3, <3>3, <4>1, <4>3 DEF Ahead
        <5> QED
          BY <1>2, <2>3, <3>1, <3>3, <4>3, <5>1, Zenon DEF StageInv, OrderInv
      <4>4. CASE s # n /\ t # n
        BY <3>1, <3>3, <4>4, Zenon DEF StageInv, OrderInv
      <4> QED
        BY <4>2, <4>3, <4>4, Zenon
    <3>4. \A s \in Stages : \A m \in Ids(stage'[s]) : m < issueId' /\ (issue' # NoInstr => m < issue'.iid)
      BY <1>2, <2>3, <3>1, Zenon DEF StageInv, OrderInv
    <3>5. issue' # NoInstr => issue'.iid < issueId'
      BY Zenon DEF StageInv, OrderInv
    <3>6. \A s, t \in Stages : Ahead(s, t) => \A a \in Ids(stage'[s]), b \in Ids(stage'[t]) : a < b
      BY <3>3, Zenon
    <3> QED
      BY <2>1, <3>4, <3>5, <3>6, OrderMade, Zenon
  <2> QED
    BY <1>6, <2>2, <2>3, Zenon
<1>8. RingsInv'
  <2>1. \A t \in Stages : stage'[t] \in Ring(Placed(t)) /\ Consistent(stage'[t])
    BY <1>1, <1>2, <1>4, <1>6, Zenon
  <2>2. stage' \in [Stages -> Ring(Instr)]
    BY <1>2, <2>1, RingPlaced, Zenon
  <2> QED
    BY <2>1, <2>2, Zenon DEF RingsInv, Ring, Placed, Instr, Consistent, At, pos
<1>9. DoneInv'
  <2>1. CASE at = "mMM" /\ n = "mWB"
    <3>1. Held(stage'["mMM"]) = {} /\ stage'["mMM"].count = 0
      BY <1>4, <1>5, <2>1, Zenon
    <3> QED
      BY <3>1, Zenon DEF DoneInv, Held
  <2>2. CASE at = "mEX" /\ n = "mMM"
    <3>1. Held(stage'["mEX"]) = {} /\ stage'["mWB"] = stage["mWB"]
      BY <1>2, <1>5, <2>2, StageNames, Zenon
    <3>2. (\E x \in Held(stage'["mMM"]) : x.done) => stage'["mWB"].count = 0
      BY <1>6, <2>2, <3>1, Zenon DEF StageInv, DoneInv
    <3> QED
      BY <3>1, <3>2, Zenon DEF DoneInv, Held
  <2> QED
    BY <1>3, <2>1, <2>2, Zenon
<1>10. stage'["mID"] = stage["mID"]
  <2>1. "mID" \in Stages \ {at, n}
    BY <1>3, StageNames
  <2> QED
    BY <1>2, <2>1, Zenon
<1> QED
  BY <1>7, <1>8, <1>9, <1>10, Zenon DEF StageInv

-----------------------------------------------------------------------------
(* Least and greatest elements, operands and forwarding                     *)

LEMMA Least ==
  ASSUME NEW S \in SUBSET Nat, S # {}
  PROVE  \E x \in S : \A y \in S : x <= y
<1>1. PICK x \in S : \A y \in S : <<y, x>> \notin OpToRel(<, Nat)
  BY NatLessThanWellFounded, WFMin, Zenon
<1>2. \A y \in S : ~(y < x)
  BY <1>1, Zenon DEF OpToRel
<1> QED
  BY <1>2

LEMMA MinIs ==
  ASSUME NEW S \in SUBSET Nat, S # {}
  PROVE  Min(S) \in S /\ \A y \in S : Min(S) <= y
BY Least, Zenon DEF Min

LEMMA MaxIs ==
  ASSUME NEW n \in Nat, NEW S \in SUBSET (1 .. n), S # {}
  PROVE  Max(S) \in S
<1> DEFINE B == {x \in Nat : \A y \in S : y <= x}
<1>1. B \in SUBSET Nat /\ n \in B
  OBVIOUS
<1>2. PICK x \in B : \A y \in B : x <= y
  BY <1>1, Least, Zenon
<1>3. x \in Nat /\ \A y \in S : y <= x
  BY Zenon
<1>4. x \in S
  <2> SUFFICES ASSUME x \notin S PROVE FALSE
    OBVIOUS
  <2>1. PICK y \in S : TRUE
    BY Zenon
  <2>2. x # 0 /\ x - 1 \in Nat /\ ~(x <= x - 1)
    BY <1>3, <2>1
  <2>3. \A z \in S : z <= x - 1
    BY <1>3
  <2>4. x - 1 \in B
    BY <2>2, <2>3, Zenon
  <2> QED
    BY <1>2, <2>2, <2>4, Zenon
<1>5. \A y \in S : x >= y
  BY <1>3
<1> QED
  BY <1>4, <1>5, Zenon DEF Max

Data == UNION {[F -> 0 .. N] : F \in SUBSET Fields}

Writes == {e \in [tag : Nat, mask : SUBSET Fields, data : Data] : e.data \in [e.mask -> 0 .. N]}

LEMMA DataIs == ASSUME NEW F \in SUBSET Fields, NEW d \in [F -> 0 .. N] PROVE d \in Data
BY Zenon DEF Data

LEMMA OperandType == \A c : Sources(c) \subseteq Fields /\ Allocates(c) \subseteq Fields
<1> TAKE c
<1>1. "lo" \in Fields
  BY ProgramAssumption, Zenon
<1>2. Sources(c) \in {Fields, {"lo"}, {}}
  BY DEF Sources
<1>3. Allocates(c) \in {Fields, {"lo"}, {}}
  BY DEF Allocates
<1> QED
  BY <1>1, <1>2, <1>3, Zenon

LEMMA ForwardType ==
  ASSUME NEW path \in Seq(Writes), NEW i \in Instr
  PROVE  Forward(path, i) \in Seq(Writes)
<1> DEFINE A == Allocates(kind(i))
           d == [f \in A |-> i.addr]
<1>1. A \in SUBSET Fields
  BY OperandType, Zenon
<1>2. i.iid \in Nat /\ i.addr \in 0 .. N
  <2>1. i.iid \in Nat \ {0} /\ i.addr \in 0 .. N - 1
    BY DEF Instr
  <2> QED
    BY <2>1, ProgramAssumption
<1>3. d \in [A -> 0 .. N]
  BY <1>2, Zenon
<1> HIDE DEF A, d
<1>4. d \in Data
  BY <1>1, <1>3, DataIs, Zenon
<1>5. Entry(i.iid, A, d) \in Writes
  BY <1>1, <1>2, <1>3, <1>4 DEF Entry, Writes
<1>6. Append(path, Entry(i.iid, A, d)) \in Seq(Writes)
  BY <1>5
<1> QED
  BY <1>6, Zenon DEF Forward, write, A, d

LEMMA FullType ==
  ASSUME NEW path \in Seq(Writes), NEW id, can_read(path, id)
  PROVE  read(path) \in [Fields -> 0 .. N]
<1>1. find(path) \in 1 .. Len(path)
  BY DEF can_read, find
<1>2. path[find(path)] \in Writes
  BY <1>1
<1> QED
  BY <1>2, Zenon DEF can_read, read, Writes

LEMMA LaidOver ==
  ASSUME NEW path \in Seq(Writes), NEW v \in [Fields -> 0 .. N], NEW f \in Fields, f \in PathMask(path)
  PROVE  read_partial(path, v)[f] \in 0 .. N
<1> DEFINE has == {i \in DOMAIN path : f \in path[i].mask}
           i0 == CHOOSE i \in has : \A j \in has : i <= j
<1>1. has # {} /\ has \in SUBSET Nat /\ has \subseteq 1 .. Len(path)
  <2>1. DOMAIN path = 1 .. Len(path) /\ 1 .. Len(path) \subseteq Nat
    OBVIOUS
  <2> QED
    BY <2>1, Zenon DEF PathMask
<1>2. i0 \in has
  <2> HIDE DEF has
  <2> QED
    BY <1>1, Least, Zenon
<1>3. read_partial(path, v)[f] = path[i0].data[f]
  BY <1>1, Zenon DEF read_partial
<1>4. path[i0] \in Writes /\ f \in path[i0].mask
  <2>1. i0 \in 1 .. Len(path)
    BY <1>1, <1>2, Zenon
  <2>2. path[i0] \in Writes
    BY <2>1
  <2> QED
    BY <1>2, <2>2, Zenon
<1> QED
  BY <1>3, <1>4, Zenon DEF Writes

LEMMA ReadType ==
  ASSUME reg \in [Fields -> 0 .. N], fwd \in [Paths -> Seq(Writes)], NEW i
  PROVE  Read(i) \in Data
<1> DEFINE m == Sources(kind(i))
<1>1. m \in SUBSET Fields /\ Fields \in SUBSET Fields /\ {} \in SUBSET Fields
  BY OperandType, Zenon
<1>2. NoSource \in [{} -> 0 .. N]
  BY DEF NoSource
<1>3. ReadFull \in [Fields -> 0 .. N]
  <2>1. fwd["FwdEX"] \in Seq(Writes) /\ fwd["FwdMM"] \in Seq(Writes)
    BY Zenon DEF Paths
  <2> QED
    BY <2>1, FullType, Zenon DEF ReadFull
<1>4. ReadPartial(m) \in [m -> 0 .. N]
  <2> DEFINE over(f) == {j \in DOMAIN PartialPaths : f \in PathMask(fwd[PartialPaths[j]])}
             val(f) == IF over(f) = {} THEN reg[f]
                       ELSE read_partial(fwd[PartialPaths[Max(over(f))]], reg)[f]
  <2>1. ASSUME NEW f \in m PROVE val(f) \in 0 .. N
    <3>1. f \in Fields
      BY <1>1, Zenon
    <3>2. CASE over(f) = {}
      BY <3>1, <3>2, Zenon
    <3>3. CASE over(f) # {}
      <4>1. PartialPaths \in Seq(Paths)
        BY ProgramAssumption, Zenon
      <4>2. Len(PartialPaths) \in Nat /\ DOMAIN PartialPaths = 1 .. Len(PartialPaths)
            /\ \A j \in 1 .. Len(PartialPaths) : PartialPaths[j] \in Paths
        BY <4>1
      <4>3. over(f) \in SUBSET (1 .. Len(PartialPaths))
        BY <4>2, Zenon
      <4> DEFINE j == Max(over(f))
      <4>4. j \in over(f)
        <5> HIDE DEF over
        <5> QED
          BY <3>3, <4>2, <4>3, MaxIs, Zenon
      <4>5. fwd[PartialPaths[j]] \in Seq(Writes) /\ f \in PathMask(fwd[PartialPaths[j]])
        BY <4>2, <4>3, <4>4, Zenon
      <4> QED
        BY <3>1, <3>3, <4>5, LaidOver, Zenon
    <3> QED
      BY <3>2, <3>3, Zenon
  <2>2. ReadPartial(m) = [f \in m |-> val(f)]
    BY Zenon DEF ReadPartial
  <2> HIDE DEF val
  <2> QED
    BY <2>1, <2>2, Zenon
<1>5. NoSource \in Data /\ ReadFull \in Data /\ ReadPartial(m) \in Data
  BY <1>1, <1>2, <1>3, <1>4, DataIs, Zenon
<1>6. Read(i) \in {NoSource, ReadFull, ReadPartial(m)}
  <2> HIDE DEF m
  <2>1. Read(i) = CASE m = {} -> NoSource [] m = Fields -> ReadFull [] OTHER -> ReadPartial(m)
    BY Zenon DEF Read, m
  <2> QED
    BY <2>1
<1> QED
  BY <1>5, <1>6, Zenon

-----------------------------------------------------------------------------
(* The inductive invariant                                                  *)

Slotted == {i \in Instr : i.st = "S_INIT" /\ ~i.done}

TypeInv ==
  /\ prog \in [0 .. N - 1 -> Kinds] /\ reg \in [Fields -> 0 .. N]
  /\ issue \in Slotted \cup {NoInstr} /\ issueId \in Nat \ {0}
  /\ fwd \in [Paths -> Seq(Writes)]
  /\ fetched \in Seq(0 .. N - 1) /\ fetchAddr \in Nat
  /\ at \in Stages \cup {"pre", "issue"} /\ k \in 0 .. Capacity /\ r \in BOOLEAN
  /\ at = "pre" => k = 0

\* What the fetch buffer has lent and what it keeps fit into it.
BufferInv == BufferIsReleased /\ Len(fetched) + held <= FetchSpace

\* While all actions of a lock-step stage return true, those that were evaluated
\* are done.
TurnInv ==
  at \in LockStep /\ r =>
    \A j \in Index : j < k /\ At(stage[at], j) # NoInstr => At(stage[at], j).done

PipelineInv == TypeInv /\ StageInv /\ BufferInv /\ TurnInv

LEMMA LockStepNames == LockStep \subseteq Stages /\ "mID" \notin LockStep /\ "mWB" \in LockStep
BY DEF LockStep, Stages

\* The instruction whose action runs in a lock-step stage.
LEMMA EvalTurn ==
  ASSUME TypeInv, StageInv, at \in LockStep, Left # {}
  PROVE  /\ at \in Stages /\ Pos \in Index /\ Pos < stage[at].count /\ Pos + 1 \in 0 .. Capacity
         /\ Cur = At(stage[at], Pos) /\ Cur # NoInstr /\ Cur \in Placed(at)
         /\ \A j \in Index : j < Pos + 1 => j = Pos \/ j < k \/ At(stage[at], j) = NoInstr
<1>1. at \in Stages /\ at # "mID"
  BY LockStepNames, Zenon
<1>2. Left \in SUBSET Nat /\ \A j \in Left : j \in Index /\ At(stage[at], j) # NoInstr
  BY CapacityAssumption DEF Left, TypeInv, Index
<1>3. Pos = Min(Left)
  BY <1>1, Zenon DEF Pos
<1>4. Pos \in Left /\ \A j \in Left : Pos <= j
  BY <1>2, <1>3, MinIs, Zenon
<1>5. Cur = At(stage[at], Pos) /\ Pos \in Index /\ Cur # NoInstr
  BY <1>2, <1>4, Zenon DEF Cur
<1>6. Consistent(stage[at]) /\ stage[at] \in Ring(Placed(at))
  BY <1>1, Zenon DEF StageInv, RingsInv
<1>7. Pos < stage[at].count
  BY <1>5, <1>6, Zenon DEF Consistent
<1>8. Cur \in Placed(at)
  BY <1>5, <1>6, <1>7, AtHeld, HeldType, Zenon
<1>9. Pos + 1 \in 0 .. Capacity
  BY <1>5, CapacityAssumption DEF Index
<1>10. ASSUME NEW j \in Index, j < Pos + 1, j # Pos, ~(j < k)
       PROVE  At(stage[at], j) = NoInstr
  <2>1. j \in k .. Capacity - 1 /\ ~(Pos <= j)
    BY <1>5, <1>10, CapacityAssumption DEF TypeInv, Index
  <2> QED
    BY <1>4, <2>1, Zenon DEF Left
<1> QED
  BY <1>1, <1>5, <1>7, <1>8, <1>9, <1>10, Zenon

LEMMA EvaluatedTurn ==
  ASSUME TypeInv, StageInv, TurnInv, at \in LockStep, Left # {}, at' = at, k' = Pos + 1,
         r' => r /\ At(stage'[at], Pos).done,
         \A j \in Index : j < Pos + 1 /\ j # Pos => At(stage'[at], j) = At(stage[at], j)
  PROVE  TurnInv'
<1>1. \A j \in Index : j < Pos + 1 => j = Pos \/ j < k \/ At(stage[at], j) = NoInstr
  BY EvalTurn, Zenon
<1>2. ASSUME r', NEW j \in Index, j < k', At(stage'[at], j) # NoInstr PROVE At(stage'[at], j).done
  BY <1>1, <1>2, Zenon DEF TurnInv
<1> QED
  BY <1>2, Zenon DEF TurnInv, At, pos

LEMMA NextEmpty ==
  ASSUME StageInv, NEW s \in {"mMM", "mEX"}, MayLeave(s)
  PROVE  stage[NextStage[s]].count = 0
<1>1. NextStage[s] \in Stages
  BY StageNames DEF NextStage
<1>2. stage[NextStage[s]].count \in 0 .. Capacity
  BY <1>1, Zenon DEF StageInv, RingsInv, Consistent
<1> QED
  BY <1>2, CapacityAssumption DEF MayLeave, has_space

\* Pending(): the instruction is done, and stays.
LEMMA PendingStep ==
  ASSUME PipelineInv, at \in LockStep, Left # {}, at \in {"mMM", "mEX"} => MayLeave(at),
         Pending(Cur), Evaluated(TRUE), UNCHANGED fetchVars
  PROVE  StageInv' /\ TurnInv' /\ BufferInv'
<1> DEFINE x == [Cur EXCEPT !.done = TRUE]
<1>1. TypeInv /\ StageInv /\ TurnInv /\ BufferInv
  BY Zenon DEF PipelineInv
<1>2. at' = at /\ k' = Pos + 1 /\ (r' => r) /\ UNCHANGED <<issue, issueId, fetched, held>>
  BY Zenon DEF Evaluated, fetchVars
<1>3. /\ at \in Stages /\ Pos \in Index /\ Pos < stage[at].count
      /\ Cur = At(stage[at], Pos) /\ Cur \in Placed(at)
  BY <1>1, EvalTurn, Zenon
<1>4. x \in Placed(at) /\ x.iid = Cur.iid /\ x.done
  <2>1. Cur \in Instr /\ Cur.st \in Mapping[at] /\ at # "mID"
    BY <1>3, LockStepNames, Zenon DEF Placed
  <2>2. x \in Instr /\ x.st = Cur.st /\ x.iid = Cur.iid /\ x.done
    <3> HIDE DEF Cur
    <3> QED
      BY <2>1, Zenon DEF Instr
  <2> QED
    BY <2>1, <2>2, Zenon DEF Placed
<1>5. stage' = [stage EXCEPT ![at] = SetAt(@, Pos, x)]
  BY Zenon DEF Pending
<1>6. at = "mMM" => stage["mWB"].count = 0
  <2>1. NextStage["mMM"] = "mWB"
    BY DEF NextStage
  <2> QED
    BY <1>1, <2>1, NextEmpty, Zenon
<1>7. at = "mEX" => stage["mMM"].count = 0
  <2>1. NextStage["mEX"] = "mMM"
    BY DEF NextStage
  <2> QED
    BY <1>1, <2>1, NextEmpty, Zenon
<1> HIDE DEF x
<1>8. StageInv' /\ \A j \in Index : At(stage'[at], j) = IF j = Pos THEN x ELSE At(stage[at], j)
  BY <1>1, <1>2, <1>3, <1>4, <1>5, <1>6, <1>7, PutKeeps, Zenon
<1>9. TurnInv'
  BY <1>1, <1>2, <1>3, <1>4, <1>8, EvaluatedTurn, Zenon
<1>10. stage'["mID"] = stage["mID"]
  <2>1. at # "mID" /\ stage \in [Stages -> Ring(Instr)]
    BY <1>1, LockStepNames, Zenon DEF StageInv, RingsInv
  <2> QED
    BY <1>5, <2>1, StageNames, Zenon
<1>11. BufferInv'
  BY <1>1, <1>2, <1>10, Zenon DEF BufferInv, BufferIsReleased
<1> QED
  BY <1>8, <1>9, <1>11, Zenon

LEMMA StageTypes == Slotted' = Slotted
BY Zenon DEF Slotted, Instr

LEMMA EvalType ==
  ASSUME TypeInv, StageInv, at \in LockStep, Left # {}, NEW ok \in BOOLEAN, Evaluated(ok),
         prog' = prog, issue' \in Slotted \cup {NoInstr}, issueId' = issueId,
         fetched' \in Seq(0 .. N - 1), fetchAddr' \in Nat,
         reg' \in [Fields -> 0 .. N], fwd' \in [Paths -> Seq(Writes)]
  PROVE  TypeInv'
<1>1. Pos + 1 \in 0 .. Capacity
  BY EvalTurn, Zenon
<1>2. at' = at /\ k' = Pos + 1 /\ r' = (r /\ ok)
  BY Zenon DEF Evaluated
<1>3. r' \in BOOLEAN
  BY <1>2
<1>4. at' \in Stages \cup {"pre", "issue"} /\ at' # "pre"
  BY <1>2 DEF LockStep, Stages
<1> QED
  BY <1>1, <1>2, <1>3, <1>4, StageTypes, Zenon DEF TypeInv

LEMMA StaySame ==
  ASSUME StageInv, BufferInv, stage' = stage, UNCHANGED <<issue, issueId, fetched, held>>
  PROVE  StageInv' /\ BufferInv'
<1>1. StageInv'
  BY StayKeeps, Zenon
<1>2. BufferInv'
  BY Zenon DEF BufferInv, BufferIsReleased
<1> QED
  BY <1>1, <1>2, Zenon

\* An instruction forwards its result, or does not.
LEMMA ForwardStep ==
  ASSUME TypeInv, NEW p \in Paths, NEW i \in Instr,
         fwd' = fwd \/ fwd' = [fwd EXCEPT ![p] = Forward(@, i)]
  PROVE  fwd' \in [Paths -> Seq(Writes)]
<1>1. fwd \in [Paths -> Seq(Writes)]
  BY Zenon DEF TypeInv
<1>2. Forward(fwd[p], i) \in Seq(Writes)
  BY <1>1, ForwardType, Zenon
<1> QED
  BY <1>1, <1>2, Zenon

LEMMA BlockedStep ==
  ASSUME PipelineInv, Blocked
  PROVE  PipelineInv'
<1>1. TypeInv /\ StageInv /\ BufferInv /\ TurnInv
  BY Zenon DEF PipelineInv
<1>2. /\ at \in LockStep /\ Left # {} /\ Evaluated(FALSE)
      /\ UNCHANGED <<prog, stage, fwd, reg, issue, issueId, fetched, fetchAddr, held>>
  BY Zenon DEF Blocked, LockStep, fetchVars, archVars
<1>3. TypeInv'
  <2>1. FALSE \in BOOLEAN
    OBVIOUS
  <2>2. /\ issue' \in Slotted \cup {NoInstr} /\ fetched' \in Seq(0 .. N - 1) /\ fetchAddr' \in Nat
        /\ reg' \in [Fields -> 0 .. N] /\ fwd' \in [Paths -> Seq(Writes)]
    BY <1>1, <1>2, Zenon DEF TypeInv
  <2> QED
    BY <1>1, <1>2, <2>1, <2>2, EvalType, Zenon
<1>4. StageInv' /\ BufferInv'
  BY <1>1, <1>2, StaySame, Zenon
<1>5. TurnInv'
  BY <1>2, Zenon DEF Evaluated, TurnInv
<1> QED
  BY <1>3, <1>4, <1>5, Zenon DEF PipelineInv

LEMMA RepeatStep ==
  ASSUME PipelineInv, Repeat
  PROVE  PipelineInv'
<1>1. TypeInv /\ StageInv /\ BufferInv /\ TurnInv
  BY Zenon DEF PipelineInv
<1>2. /\ at \in LockStep /\ Left # {} /\ Evaluated(TRUE) /\ Cur.done
      /\ UNCHANGED <<prog, stage, reg, issue, issueId, fetched, fetchAddr, held>>
      /\ fwd' = fwd \/ fwd' = [fwd EXCEPT !["FwdMM"] = Forward(@, Cur)]
  BY Zenon DEF Repeat, fetchVars, archVars
<1>3. Cur = At(stage[at], Pos) /\ Cur \in Instr
  BY <1>1, <1>2, EvalTurn, PlacedType, Zenon
<1>4. TypeInv'
  <2>1. TRUE \in BOOLEAN /\ "FwdMM" \in Paths
    BY DEF Paths
  <2>2. /\ issue' \in Slotted \cup {NoInstr} /\ fetched' \in Seq(0 .. N - 1) /\ fetchAddr' \in Nat
        /\ reg' \in [Fields -> 0 .. N]
    BY <1>1, <1>2, Zenon DEF TypeInv
  <2>3. fwd' \in [Paths -> Seq(Writes)]
    BY <1>1, <1>2, <1>3, <2>1, ForwardStep, Zenon
  <2> QED
    BY <1>1, <1>2, <2>1, <2>2, <2>3, EvalType, Zenon
<1>5. StageInv' /\ BufferInv'
  BY <1>1, <1>2, StaySame, Zenon
<1>6. TurnInv'
  <2>1. at' = at /\ k' = Pos + 1 /\ (r' => r)
    BY <1>2, Zenon DEF Evaluated
  <2> QED
    BY <1>1, <1>2, <1>3, <2>1, EvaluatedTurn, Zenon
<1> QED
  BY <1>4, <1>5, <1>6, Zenon DEF PipelineInv

\* The actions that do their work and stay, pending the move of the stage.
LEMMA WorkStep ==
  ASSUME PipelineInv, S_WB \/ S_MM \/ S_MMe \/ S_EX
  PROVE  PipelineInv'
<1>1. TypeInv /\ StageInv /\ BufferInv /\ TurnInv
  BY Zenon DEF PipelineInv
<1>2. /\ at \in LockStep /\ Left # {} /\ (at \in {"mMM", "mEX"} => MayLeave(at))
      /\ Pending(Cur) /\ Evaluated(TRUE) /\ UNCHANGED fetchVars /\ prog' = prog
  <2>1. CASE S_WB
    BY <2>1, Zenon DEF S_WB, Turn, LockStep
  <2>2. CASE S_MM
    BY <2>2, Zenon DEF S_MM, Turn, LockStep
  <2>3. CASE S_MMe
    BY <2>3, Zenon DEF S_MMe, Turn, LockStep
  <2>4. CASE S_EX
    BY <2>4, Zenon DEF S_EX, Turn, LockStep
  <2> QED
    BY <2>1, <2>2, <2>3, <2>4, Zenon
<1>3. Cur \in Instr
  BY <1>1, <1>2, EvalTurn, PlacedType, Zenon
<1>4. "FwdMM" \in Paths /\ "FwdEX" \in Paths
  BY DEF Paths
<1>5. fwd' \in [Paths -> Seq(Writes)]
  <2>1. \/ fwd' = fwd \/ fwd' = [fwd EXCEPT !["FwdMM"] = Forward(@, Cur)]
        \/ fwd' = [fwd EXCEPT !["FwdEX"] = Forward(@, Cur)]
    BY Zenon DEF S_WB, S_MM, S_MMe, S_EX
  <2> QED
    BY <1>1, <1>3, <1>4, <2>1, ForwardStep, Zenon
<1>6. reg' \in [Fields -> 0 .. N]
  <2>1. reg \in [Fields -> 0 .. N]
    BY <1>1, Zenon DEF TypeInv
  <2>2. Cur.addr \in 0 .. N
    <3>1. Cur.addr \in 0 .. N - 1
      BY <1>3, Zenon DEF Instr
    <3> QED
      BY <3>1, ProgramAssumption
  <2>3. reg' = reg \/ reg' = [f \in Fields |-> IF f \in Targets(kind(Cur)) THEN Cur.addr ELSE reg[f]]
    BY Zenon DEF S_WB, S_MM, S_MMe, S_EX, archVars
  <2> QED
    BY <2>1, <2>2, <2>3, Zenon
<1>7. TypeInv'
  <2>1. TRUE \in BOOLEAN
    OBVIOUS
  <2>2. /\ issue' \in Slotted \cup {NoInstr} /\ fetched' \in Seq(0 .. N - 1) /\ fetchAddr' \in Nat
        /\ issueId' = issueId
    BY <1>1, <1>2, Zenon DEF TypeInv, fetchVars
  <2> QED
    BY <1>1, <1>2, <1>5, <1>6, <2>1, <2>2, EvalType, Zenon
<1>8. StageInv' /\ TurnInv' /\ BufferInv'
  BY <1>2, PendingStep, Zenon
<1> QED
  BY <1>7, <1>8, Zenon DEF PipelineInv

LEMMA UndecodeIs ==
  ASSUME StageInv, BufferInv
  PROVE  /\ held \in Int /\ stage["mID"].count \in Int
         /\ held - Undecode("mEX") = 0 /\ held - Undecode("mID") - 1 = 0
<1> DEFINE c == stage["mID"].count
           n == IF issue = NoInstr THEN 0 ELSE 1
<1>1. c \in 0 .. Capacity
  BY StageNames, Zenon DEF StageInv, RingsInv, Consistent
<1>2. n \in Int
  OBVIOUS
<1>3. held = c + n
  BY Zenon DEF BufferInv, BufferIsReleased
<1>4. Undecode("mEX") = c - 0 + n /\ Undecode("mID") = c - 1 + n
  BY DEF Undecode
<1> HIDE DEF c, n
<1>5. c \in Int
  BY <1>1, CapacityAssumption
<1>6. /\ held \in Int /\ held - Undecode("mEX") = 0 /\ held - Undecode("mID") - 1 = 0
  BY <1>2, <1>3, <1>4, <1>5
<1> QED
  BY <1>5, <1>6, Zenon DEF c

\* After a flush the fetch buffer is empty and has lent nothing.
LEMMA FlushedBuffer ==
  ASSUME issue' = NoInstr, fetched' = <<>>, held' = 0, stage'["mID"].count = 0
  PROVE  BufferInv'
<1>1. Len(fetched') + held' <= FetchSpace
  BY ProgramAssumption
<1>2. held' = stage'["mID"].count + (IF issue' = NoInstr THEN 0 ELSE 1)
  OBVIOUS
<1> QED
  BY <1>1, <1>2, Zenon DEF BufferInv, BufferIsReleased

LEMMA FollowsType ==
  ASSUME NEW a \in 0 .. N - 1
  PROVE  Follows("trap", a) \in Nat /\ Follows("branch", a) \in Nat
BY ProgramAssumption DEF Follows

LEMMA ExceptionStep ==
  ASSUME PipelineInv, S_EX_exception
  PROVE  PipelineInv'
<1> DEFINE x == [Cur EXCEPT !.st = "S_EXe", !.done = TRUE]
<1>1. TypeInv /\ StageInv /\ BufferInv /\ TurnInv
  BY Zenon DEF PipelineInv
<1>2. /\ at = "mEX" /\ Left # {} /\ MayLeave("mEX") /\ Evaluated(TRUE)
      /\ held' = held - Undecode("mEX")
      /\ issue' = NoInstr /\ fetched' = <<>> /\ fetchAddr' = Follows("trap", Cur.addr)
      /\ UNCHANGED <<prog, reg, fwd, issueId>>
  BY Zenon DEF S_EX_exception, Turn, flush_issue
<1>3. stage' = [stage EXCEPT !["mEX"] = flush_behind(SetAt(@, Pos, x), Pos), !["mID"] = EmptyStage]
  BY Zenon DEF S_EX_exception
<1>4. at \in LockStep
  BY <1>2 DEF LockStep
<1>5. /\ Pos \in Index /\ Pos < stage["mEX"].count
      /\ Cur = At(stage["mEX"], Pos) /\ Cur \in Placed("mEX")
  BY <1>1, <1>2, <1>4, EvalTurn, Zenon
<1>6. x \in Placed("mEX") /\ x.iid = Cur.iid /\ x.done
  <2>1. "S_EXe" \in Mapping["mEX"] /\ "S_EXe" \in DOMAIN From /\ "mEX" # "mID"
    BY DEF Mapping, From
  <2>2. Cur \in Instr
    BY <1>5, PlacedType, Zenon
  <2>3. x \in Instr /\ x.st = "S_EXe" /\ x.iid = Cur.iid /\ x.done
    <3> HIDE DEF Cur
    <3> QED
      BY <2>1, <2>2, Zenon DEF Instr
  <2> QED
    BY <2>1, <2>3, Zenon DEF Placed
<1>7. stage["mMM"].count = 0
  <2>1. NextStage["mEX"] = "mMM"
    BY DEF NextStage
  <2> QED
    BY <1>1, <1>2, <2>1, NextEmpty, Zenon
<1>8. /\ StageInv' /\ stage'["mID"].count = 0
      /\ \A j \in 0 .. Pos : At(stage'["mEX"], j) = IF j = Pos THEN x ELSE At(stage["mEX"], j)
  <2> HIDE DEF x
  <2> QED
    BY <1>1, <1>2, <1>3, <1>5, <1>6, <1>7, FlushKeeps, Zenon
<1>9. TurnInv'
  <2>1. at' = at /\ k' = Pos + 1 /\ (r' => r)
    BY <1>2, Zenon DEF Evaluated
  <2>2. Pos \in 0 .. Pos /\ \A j \in Index : j < Pos + 1 => j \in 0 .. Pos
    BY <1>5, CapacityAssumption DEF Index
  <2>3. At(stage'[at], Pos).done
    BY <1>2, <1>6, <1>8, <2>2, Zenon
  <2>4. \A j \in Index : j < Pos + 1 /\ j # Pos => At(stage'[at], j) = At(stage[at], j)
    BY <1>2, <1>8, <2>2, Zenon
  <2> QED
    BY <1>1, <1>2, <1>4, <2>1, <2>3, <2>4, EvaluatedTurn, Zenon
<1>10. BufferInv'
  <2>1. held' = 0
    BY <1>1, <1>2, UndecodeIs, Zenon
  <2> QED
    BY <1>2, <1>8, <2>1, FlushedBuffer, Zenon
<1>11. TypeInv'
  <2>1. TRUE \in BOOLEAN /\ <<>> \in Seq(0 .. N - 1)
    OBVIOUS
  <2>2. Cur.addr \in 0 .. N - 1
    BY <1>5, PlacedType, Zenon DEF Instr
  <2>3. fetchAddr' \in Nat
    BY <1>2, <2>2, FollowsType, Zenon
  <2>4. reg' \in [Fields -> 0 .. N] /\ fwd' \in [Paths -> Seq(Writes)]
    BY <1>1, <1>2, Zenon DEF TypeInv
  <2>5. issue' \in Slotted \cup {NoInstr} /\ fetched' \in Seq(0 .. N - 1)
    BY <1>2, <2>1, Zenon
  <2> QED
    BY <1>1, <1>2, <1>4, <2>1, <2>3, <2>4, <2>5, EvalType, Zenon
<1> QED
  BY <1>8, <1>9, <1>10, <1>11, Zenon DEF PipelineInv

\* cycle() goes on to another stage.
LEMMA LeaveStep ==
  ASSUME TypeInv, at \in Stages, Leave, UNCHANGED <<prog, reg, fwd, fetchVars>>
  PROVE  TypeInv' /\ TurnInv'
<1>1. at' = After[at] /\ k' = 0 /\ r' = TRUE
  BY Zenon DEF Leave
<1>2. at' \in Stages \cup {"pre", "issue"}
  BY <1>1 DEF After, Stages
<1>3. k' \in 0 .. Capacity /\ r' \in BOOLEAN
  BY <1>1, CapacityAssumption
<1>4. TypeInv'
  BY <1>1, <1>2, <1>3, StageTypes, Zenon DEF TypeInv, fetchVars
<1>5. \A j \in Index : ~(j < 0)
  BY CapacityAssumption DEF Index
<1>6. TurnInv'
  BY <1>1, <1>5, Zenon DEF TurnInv
<1> QED
  BY <1>4, <1>6, Zenon

LEMMA MoveStep ==
  ASSUME PipelineInv, Move
  PROVE  PipelineInv'
<1>1. TypeInv /\ StageInv /\ BufferInv /\ TurnInv
  BY Zenon DEF PipelineInv
<1>2. /\ at \in LockStep /\ Left = {} /\ Leave
      /\ (r /\ Moved(Contents(stage[at]))) \/ (~r /\ stage' = stage)
      /\ UNCHANGED <<prog, reg, fwd, fetchVars>>
  BY Zenon DEF Move, archVars
<1>3. UNCHANGED <<issue, issueId, fetched, held>> /\ at \in Stages
  BY <1>2, LockStepNames, Zenon DEF fetchVars
<1>4. TypeInv' /\ TurnInv'
  BY <1>1, <1>2, <1>3, LeaveStep, Zenon
<1>5. StageInv' /\ stage'["mID"] = stage["mID"]
  <2>1. CASE ~r
    BY <1>1, <1>2, <1>3, <2>1, StayKeeps, Zenon
  <2>2. CASE r /\ at = "mWB"
    BY <1>1, <1>2, <1>3, <2>2, RetireKeeps, Zenon
  <2>3. CASE r /\ at \in {"mMM", "mEX"}
    <3>1. /\ stage[at] \in Ring(Placed(at)) /\ Consistent(stage[at])
          /\ stage[at].count \in 0 .. Capacity
      BY <1>1, <1>3, Zenon DEF StageInv, RingsInv, Consistent
    <3>2. ASSUME stage[at].count # 0 PROVE stage[NextStage[at]].count = 0
      <4>1. 0 \in Index /\ 0 < stage[at].count
        BY <3>1, <3>2, CapacityAssumption DEF Index
      <4>2. At(stage[at], 0) # NoInstr /\ At(stage[at], 0) \in Held(stage[at])
        BY <3>1, <4>1, AtHeld, Zenon DEF Consistent
      <4>3. 0 \notin k .. Capacity - 1
        BY <1>2, <4>2, Zenon DEF Left
      <4>4. 0 < k
        BY <1>1, <4>3, CapacityAssumption DEF TypeInv
      <4>5. At(stage[at], 0).done
        BY <1>1, <1>2, <2>3, <4>1, <4>2, <4>4, Zenon DEF TurnInv
      <4>6. NextStage["mMM"] = "mWB" /\ NextStage["mEX"] = "mMM"
        BY DEF NextStage
      <4> QED
        BY <1>1, <2>3, <4>2, <4>5, <4>6, Zenon DEF StageInv, DoneInv
    <3> QED
      BY <1>1, <1>2, <1>3, <2>3, <3>2, MoveKeeps, Zenon
  <2>4. at \in {"mWB", "mMM", "mEX"}
    BY <1>2, Zenon DEF LockStep
  <2> QED
    BY <1>1, <2>1, <2>2, <2>3, <2>4, Zenon
<1>6. BufferInv'
  BY <1>1, <1>3, <1>5, Zenon DEF BufferInv, BufferIsReleased
<1> QED
  BY <1>4, <1>5, <1>6, Zenon DEF PipelineInv

\* The head of mID, whose turn it is.
LEMMA DecodeTurn ==
  ASSUME TypeInv, StageInv, NEW states, Turn("mID", states)
  PROVE  /\ at = "mID" /\ Pos = 0 /\ 0 \in Index /\ 0 < stage["mID"].count /\ k + 1 \in 0 .. Capacity
         /\ Cur = At(stage["mID"], 0) /\ Cur \in Placed("mID") /\ Cur \in Held(stage["mID"])
<1>1. at = "mID" /\ k < Capacity /\ Cur # NoInstr
  BY Zenon DEF Turn
<1>2. Pos = 0 /\ Cur = At(stage["mID"], 0)
  BY <1>1, Zenon DEF Cur, Pos
<1>3. 0 \in Index /\ k + 1 \in 0 .. Capacity
  BY <1>1, CapacityAssumption DEF Index, TypeInv
<1>4. stage["mID"] \in Ring(Placed("mID")) /\ Consistent(stage["mID"])
  BY StageNames, Zenon DEF StageInv, RingsInv
<1>5. 0 < stage["mID"].count
  BY <1>1, <1>2, <1>3, <1>4, Zenon DEF Consistent
<1>6. Cur \in Held(stage["mID"])
  BY <1>2, <1>3, <1>4, <1>5, AtHeld, Zenon
<1>7. Cur \in Placed("mID")
  BY <1>4, <1>6, HeldType, Zenon
<1> QED
  BY <1>1, <1>2, <1>3, <1>5, <1>6, <1>7, Zenon

LEMMA DecodeTypes ==
  ASSUME NEW i \in Placed("mID"), NEW d \in Data
  PROVE  /\ [i EXCEPT !.st = "S_EX"] \in Placed("mEX")
         /\ [i EXCEPT !.st = "S_EX"].iid = i.iid /\ ~[i EXCEPT !.st = "S_EX"].done
         /\ [i EXCEPT !.src = d] \in Placed("mID") /\ [i EXCEPT !.src = d].iid = i.iid
         /\ [i EXCEPT !.st = "S_IDx", !.src = d] \in Placed("mID")
         /\ [i EXCEPT !.st = "S_IDx", !.src = d].iid = i.iid
         /\ ~[i EXCEPT !.st = "S_IDx", !.src = d].done
<1>1. /\ "S_EX" \in Mapping["mEX"] /\ "S_EX" \in DOMAIN From /\ "mEX" # "mID"
      /\ "S_IDx" \in Mapping["mID"] /\ "S_IDx" \in DOMAIN From
  BY DEF Mapping, From
<1>2. i \in Instr /\ i.st \in Mapping["mID"] /\ ~i.done
  BY Zenon DEF Placed
<1>3. /\ [i EXCEPT !.st = "S_EX"] \in Instr /\ [i EXCEPT !.st = "S_EX"].st = "S_EX"
      /\ [i EXCEPT !.st = "S_EX"].iid = i.iid /\ ~[i EXCEPT !.st = "S_EX"].done
  BY <1>1, <1>2, Zenon DEF Instr
<1>4. /\ [i EXCEPT !.src = d] \in Instr /\ [i EXCEPT !.src = d].st = i.st
      /\ [i EXCEPT !.src = d].iid = i.iid /\ ~[i EXCEPT !.src = d].done
  BY <1>2, Zenon DEF Instr, Data
<1>5. /\ [i EXCEPT !.st = "S_IDx", !.src = d] \in Instr
      /\ [i EXCEPT !.st = "S_IDx", !.src = d].st = "S_IDx"
      /\ [i EXCEPT !.st = "S_IDx", !.src = d].iid = i.iid
      /\ ~[i EXCEPT !.st = "S_IDx", !.src = d].done
  BY <1>1, <1>2, Zenon DEF Instr, Data
<1> QED
  BY <1>1, <1>2, <1>3, <1>4, <1>5, Zenon DEF Placed

LEMMA DecodeType ==
  ASSUME TypeInv, at' = "mID", k' \in 0 .. Capacity, r' = r, UNCHANGED <<prog, reg, fwd, issueId>>,
         issue' \in Slotted \cup {NoInstr}, fetched' \in Seq(0 .. N - 1), fetchAddr' \in Nat
  PROVE  TypeInv' /\ TurnInv'
<1>1. at' \in Stages \cup {"pre", "issue"} /\ at' # "pre" /\ at' \notin LockStep
  BY DEF Stages, LockStep
<1> QED
  BY <1>1, StageTypes, Zenon DEF TypeInv, TurnInv, LockStep

LEMMA SplitStep ==
  ASSUME PipelineInv, S_ID_split
  PROVE  PipelineInv'
<1> DEFINE x == [Cur EXCEPT !.st = "S_IDx", !.src = Read(Cur)]
<1>1. TypeInv /\ StageInv /\ BufferInv
  BY Zenon DEF PipelineInv
<1>2. /\ Turn("mID", {"S_ID"}) /\ stage' = [stage EXCEPT !["mID"] = SetAt(@, 0, x)]
      /\ UNCHANGED <<prog, reg, fwd, fetchVars, at, k, r>>
  BY Zenon DEF S_ID_split
<1>3. UNCHANGED <<issue, issueId, fetched, fetchAddr, held>>
  BY <1>2, Zenon DEF fetchVars
<1>4. /\ at = "mID" /\ 0 \in Index /\ 0 < stage["mID"].count
      /\ Cur = At(stage["mID"], 0) /\ Cur \in Placed("mID")
  BY <1>1, <1>2, DecodeTurn, Zenon
<1>5. Read(Cur) \in Data
  BY <1>1, ReadType, Zenon DEF TypeInv
<1>6. x \in Placed("mID") /\ x.iid = Cur.iid /\ ~x.done
  <2> HIDE DEF Cur
  <2> QED
    BY <1>4, <1>5, DecodeTypes, Zenon
<1> HIDE DEF x
<1>7. StageInv'
  BY <1>1, <1>2, <1>3, <1>4, <1>6, StageNames, PutKeeps, Zenon
<1>8. stage'["mID"].count = stage["mID"].count
  <2>1. stage["mID"] \in Ring(Placed("mID")) /\ Consistent(stage["mID"]) /\ stage \in [Stages -> Ring(Instr)]
    BY <1>1, StageNames, Zenon DEF StageInv, RingsInv
  <2>2. stage'["mID"] = SetAt(stage["mID"], 0, x)
    BY <1>2, <2>1, StageNames, Zenon
  <2>3. SetAt(stage["mID"], 0, x).count = stage["mID"].count
    BY <1>4, <1>6, <2>1, PlacedType, SetInstr
  <2> QED
    BY <2>2, <2>3, Zenon
<1>9. BufferInv'
  BY <1>1, <1>3, <1>8, Zenon DEF BufferInv, BufferIsReleased
<1>10. TypeInv' /\ TurnInv'
  BY <1>1, <1>2, <1>3, <1>4, DecodeType, Zenon DEF TypeInv
<1> QED
  BY <1>7, <1>9, <1>10, Zenon DEF PipelineInv

\* What is common to the actions that leave decode: i is the instruction as it
\* leaves, id what is left of the stage with it.
LEMMA EnterStep ==
  ASSUME TypeInv, StageInv, at = "mID", k + 1 \in 0 .. Capacity, Space,
         NEW id \in Ring(Placed("mID")), Consistent(id), Ascends(id), id.count > 0,
         Held(id) \subseteq Held(stage["mID"]),
         NEW i \in Placed("mID"), i.iid = At(id, 0).iid, Enter(i, id),
         issue' = issue \/ issue' = NoInstr, UNCHANGED <<prog, reg, fwd, issueId>>,
         fetched' \in Seq(0 .. N - 1), fetchAddr' \in Nat
  PROVE  TypeInv' /\ TurnInv' /\ StageInv' /\ stage'["mID"].count = id.count - 1
<1> DEFINE x == [i EXCEPT !.st = "S_EX"]
<1>1. /\ stage' = [stage EXCEPT !["mID"] = remove_instr(id), !["mEX"] = add_instr(@, x)]
      /\ k' = k + 1 /\ at' = at /\ r' = r
  BY Zenon DEF Enter
<1>2. NoSource \in Data
  <2>1. NoSource \in [{} -> 0 .. N] /\ {} \in SUBSET Fields
    BY DEF NoSource
  <2> QED
    BY <2>1, DataIs, Zenon
<1>3. x \in Placed("mEX") /\ x.iid = i.iid /\ ~x.done
  BY <1>2, DecodeTypes, Zenon
<1>4. stage["mEX"].count < Capacity
  <2>1. stage["mEX"].count \in 0 .. Capacity
    BY StageNames, Zenon DEF StageInv, RingsInv, Consistent
  <2> QED
    BY <2>1, CapacityAssumption DEF Space, has_space
<1> HIDE DEF x
<1>5. StageInv' /\ stage'["mID"].count = id.count - 1
  BY <1>1, <1>3, <1>4, EnterKeeps, Zenon
<1>6. issue' \in Slotted \cup {NoInstr}
  BY Zenon DEF TypeInv
<1>7. TypeInv' /\ TurnInv'
  BY <1>1, <1>6, DecodeType, Zenon
<1> QED
  BY <1>5, <1>7, Zenon

LEMMA LentSum ==
  ASSUME NEW h \in Int, NEW s \in Int, NEW c \in Int, NEW d \in Int, NEW e \in Int, NEW m \in Int,
         h = s + c, d + m = e + c
  PROVE  h + e = (s + d) + m
OBVIOUS

\* An instruction leaves decode or enters it, and the fetch buffer lends one less
\* or one more.
LEMMA LentStep ==
  ASSUME TypeInv, StageInv, BufferInv, NEW d \in Int, NEW e \in Int, NEW c \in Int, NEW m \in Int,
         c = (IF issue = NoInstr THEN 0 ELSE 1), m = (IF issue' = NoInstr THEN 0 ELSE 1),
         stage'["mID"].count = stage["mID"].count + d, held' = held + e, d + m = e + c,
         Len(fetched') + e <= Len(fetched), fetched' \in Seq(0 .. N - 1)
  PROVE  BufferInv'
<1>1. held \in Int /\ stage["mID"].count \in Int
  BY UndecodeIs, Zenon
<1>2. Len(fetched) \in Int /\ Len(fetched') \in Int
  BY DEF TypeInv
<1>3. held = stage["mID"].count + c /\ Len(fetched) + held <= FetchSpace
  BY Zenon DEF BufferInv, BufferIsReleased
<1>4. held' = stage'["mID"].count + m
  <2>1. PICK h \in Int, s \in Int : h = held /\ s = stage["mID"].count
    BY <1>1, Zenon
  <2>2. h = s + c
    BY <1>3, <2>1, Zenon
  <2>3. h + e = (s + d) + m
    BY <2>2, LentSum
  <2> QED
    BY <2>1, <2>3, Zenon
<1>5. Len(fetched') + held' <= FetchSpace
  BY <1>1, <1>2, <1>3, ProgramAssumption
<1> QED
  BY <1>4, <1>5, Zenon DEF BufferInv, BufferIsReleased

LEMMA EnteredStep ==
  ASSUME PipelineInv, S_IDx \/ S_ID
  PROVE  PipelineInv'
<1> DEFINE id == stage["mID"]
<1>1. TypeInv /\ StageInv /\ BufferInv
  BY Zenon DEF PipelineInv
<1>2. PICK states : Turn("mID", states)
  BY Zenon DEF S_IDx, S_ID
<1>3. /\ Enter(Cur, id) \/ Enter([Cur EXCEPT !.src = Read(Cur)], id)
      /\ Space /\ held' = held - 1 /\ UNCHANGED <<prog, reg, fwd, issue, fetched, fetchAddr, issueId>>
  BY Zenon DEF S_IDx, S_ID, archVars
<1>4. /\ at = "mID" /\ 0 < id.count /\ k + 1 \in 0 .. Capacity
      /\ Cur = At(id, 0) /\ Cur \in Placed("mID")
  BY <1>1, <1>2, DecodeTurn, Zenon
<1>5. PICK i \in Placed("mID") : i.iid = At(id, 0).iid /\ Enter(i, id)
  <2>1. Read(Cur) \in Data
    BY <1>1, ReadType, Zenon DEF TypeInv
  <2>2. [Cur EXCEPT !.src = Read(Cur)] \in Placed("mID") /\ [Cur EXCEPT !.src = Read(Cur)].iid = Cur.iid
    <3> HIDE DEF Cur
    <3> QED
      BY <1>4, <2>1, DecodeTypes, Zenon
  <2> QED
    BY <1>3, <1>4, <2>2, Zenon
<1>6. id \in Ring(Placed("mID")) /\ Consistent(id) /\ Ascends(id)
  BY <1>1, StageNames, Zenon DEF StageInv, RingsInv, OrderInv
<1>7. id.count \in Int /\ id.count > 0 /\ held \in Int
  <2>1. id.count \in Int /\ held \in Int
    BY <1>1, UndecodeIs, Zenon
  <2> QED
    BY <1>4, <2>1
<1>8. issue' = issue /\ fetched' \in Seq(0 .. N - 1) /\ fetchAddr' \in Nat
  BY <1>1, <1>3, Zenon DEF TypeInv
<1>9. TypeInv' /\ TurnInv' /\ StageInv' /\ stage'["mID"].count = id.count - 1
  <2> HIDE DEF id, Cur
  <2>1. Held(id) \subseteq Held(stage["mID"])
    BY Zenon DEF id
  <2> QED
    BY <1>1, <1>3, <1>4, <1>5, <1>6, <1>7, <1>8, <2>1, EnterStep, Zenon
<1>10. BufferInv'
  <2> DEFINE c == IF issue = NoInstr THEN 0 ELSE 1
  <2>1. c \in Int /\ -1 \in Int /\ c = (IF issue' = NoInstr THEN 0 ELSE 1)
    BY <1>8
  <2>2. Len(fetched) \in Int /\ fetched' = fetched
    BY <1>1, <1>3 DEF TypeInv
  <2> HIDE DEF c
  <2>3. -1 + c = -1 + c /\ Len(fetched') + -1 <= Len(fetched)
    BY <2>1, <2>2
  <2>4. stage'["mID"].count = id.count + -1 /\ held' = held + -1
    BY <1>3, <1>7, <1>9
  <2>5. c = IF issue = NoInstr THEN 0 ELSE 1
    BY Zenon DEF c
  <2> QED
    BY <1>1, <1>8, <2>1, <2>3, <2>4, <2>5, LentStep, Zenon
<1> QED
  BY <1>9, <1>10, Zenon DEF PipelineInv

LEMMA BranchStep ==
  ASSUME PipelineInv, S_ID_branch
  PROVE  PipelineInv'
<1> DEFINE u == stage["mID"]
           id == flush_behind(u, 0)
<1>1. TypeInv /\ StageInv /\ BufferInv
  BY Zenon DEF PipelineInv
<1>2. /\ Turn("mID", {"S_ID"}) /\ Space /\ Enter(Cur, id) /\ held' = held - Undecode("mID") - 1
      /\ issue' = NoInstr /\ fetched' = <<>> /\ fetchAddr' = Follows("branch", Cur.addr)
      /\ UNCHANGED <<prog, reg, fwd, issueId>>
  BY Zenon DEF S_ID_branch, flush_issue
<1>3. /\ at = "mID" /\ 0 \in Index /\ 0 < u.count /\ k + 1 \in 0 .. Capacity
      /\ Cur = At(u, 0) /\ Cur \in Placed("mID")
  BY <1>1, <1>2, DecodeTurn, Zenon
<1>4. u \in Ring(Placed("mID")) /\ Consistent(u) /\ Ascends(u)
  BY <1>1, StageNames, Zenon DEF StageInv, RingsInv, OrderInv
<1>5. /\ id \in Ring(Placed("mID")) /\ Consistent(id) /\ id.count = 1 /\ At(id, 0) = At(u, 0)
  <2>1. /\ id \in Ring(Placed("mID")) /\ Consistent(id) /\ id.count = 0 + 1
        /\ \A j \in 0 .. 0 : At(id, j) = At(u, j)
    BY <1>3, <1>4, FlushBehind, Zenon
  <2>2. 0 \in 0 .. 0 /\ 0 + 1 = 1
    OBVIOUS
  <2> QED
    BY <2>1, <2>2, Zenon
<1>6. Ascends(id) /\ Held(id) \subseteq Held(u)
  BY <1>3, <1>4, FlushOrder, Zenon
<1>7. fetched' \in Seq(0 .. N - 1)
  BY <1>2
<1>8. fetchAddr' \in Nat
  <2>1. Cur.addr \in 0 .. N - 1
    BY <1>3, PlacedType, Zenon DEF Instr
  <2> QED
    BY <1>2, <2>1, FollowsType, Zenon
<1>9. TypeInv' /\ TurnInv' /\ StageInv' /\ stage'["mID"].count = 0
  <2> HIDE DEF id
  <2>1. id.count > 0 /\ id.count - 1 = 0
    BY <1>5
  <2> HIDE DEF Cur
  <2>2. Cur.iid = At(id, 0).iid
    BY <1>3, <1>5, Zenon
  <2> QED
    BY <1>1, <1>2, <1>3, <1>5, <1>6, <1>7, <1>8, <2>1, <2>2, EnterStep, Zenon
<1>10. BufferInv'
  <2>1. held' = 0
    BY <1>1, <1>2, UndecodeIs, Zenon
  <2> QED
    BY <1>2, <1>9, <2>1, FlushedBuffer, Zenon
<1> QED
  BY <1>9, <1>10, Zenon DEF PipelineInv

LEMMA EndDecodeStep ==
  ASSUME PipelineInv, EndDecode
  PROVE  PipelineInv'
<1>1. TypeInv /\ StageInv /\ BufferInv
  BY Zenon DEF PipelineInv
<1>2. at = "mID" /\ Leave /\ UNCHANGED <<prog, stage, reg, fwd, fetchVars>>
  BY Zenon DEF EndDecode, archVars
<1>3. UNCHANGED <<issue, issueId, fetched, held>>
  BY <1>2, Zenon DEF fetchVars
<1>4. TypeInv' /\ TurnInv'
  BY <1>1, <1>2, StageNames, LeaveStep, Zenon
<1>5. StageInv' /\ BufferInv'
  BY <1>1, <1>2, <1>3, StaySame, Zenon
<1> QED
  BY <1>4, <1>5, Zenon DEF PipelineInv

LEMMA DecodedType ==
  ASSUME NEW i \in Slotted
  PROVE  [i EXCEPT !.st = "S_ID"] \in Placed("mID") /\ [i EXCEPT !.st = "S_ID"].iid = i.iid
<1>1. "S_ID" \in Mapping["mID"] /\ "S_ID" \in DOMAIN From
  BY DEF Mapping, From
<1>2. i \in Instr /\ ~i.done
  BY Zenon DEF Slotted
<1>3. /\ [i EXCEPT !.st = "S_ID"] \in Instr /\ [i EXCEPT !.st = "S_ID"].st = "S_ID"
      /\ [i EXCEPT !.st = "S_ID"].iid = i.iid /\ ~[i EXCEPT !.st = "S_ID"].done
  BY <1>1, <1>2, Zenon DEF Instr
<1> QED
  BY <1>1, <1>3, Zenon DEF Placed

\* The instruction i passes its IssueCheck.
LEMMA DecodedStep ==
  ASSUME StageInv, NEW i \in Slotted, MayIssue(i), Decoded(i), issue' = NoInstr,
         \A s \in Stages : \A n \in Ids(stage[s]) : n < i.iid /\ n < issueId', i.iid < issueId'
  PROVE  StageInv' /\ stage'["mID"].count = stage["mID"].count + 1
<1>1. stage["mID"].count \in 0 .. Capacity
  BY StageNames, Zenon DEF StageInv, RingsInv, Consistent
<1>2. stage["mID"].count < Capacity
  BY <1>1, CapacityAssumption DEF MayIssue, has_space
<1> DEFINE x == [i EXCEPT !.st = "S_ID"]
<1>3. x \in Placed("mID") /\ x.iid = i.iid
  BY DecodedType, Zenon
<1>4. stage' = [stage EXCEPT !["mID"] = add_instr(@, x)]
  BY Zenon DEF Decoded
<1> HIDE DEF x
<1> QED
  BY <1>2, <1>3, <1>4, DecodeKeeps, Zenon

LEMMA IssueType ==
  ASSUME TypeInv, at = "issue", at' = at, k' = 1, r' = r, UNCHANGED <<prog, reg, fwd, fetchAddr>>,
         issue' \in Slotted \cup {NoInstr}, issueId' \in Nat \ {0}, fetched' \in Seq(0 .. N - 1)
  PROVE  TypeInv' /\ TurnInv'
<1>1. at' # "pre" /\ at' \notin LockStep
  BY DEF LockStep
<1>2. k' \in 0 .. Capacity
  BY CapacityAssumption
<1> QED
  BY <1>1, <1>2, StageTypes, Zenon DEF TypeInv, TurnInv, LockStep

LEMMA LeftOverStep ==
  ASSUME PipelineInv, IssueLeftOver
  PROVE  PipelineInv'
<1>1. TypeInv /\ StageInv /\ BufferInv
  BY Zenon DEF PipelineInv
<1>2. /\ at = "issue" /\ issue # NoInstr /\ k' = 1
      /\ UNCHANGED <<prog, reg, fwd, fetched, fetchAddr, held, issueId, at, r>>
      /\ \/ MayIssue(issue) /\ Decoded(issue) /\ issue' = NoInstr
         \/ stage' = stage /\ issue' = issue
  BY Zenon DEF IssueLeftOver, archVars
<1>3. issue \in Slotted /\ issueId \in Nat \ {0} /\ fetched \in Seq(0 .. N - 1)
  BY <1>1, <1>2, Zenon DEF TypeInv
<1>4. TypeInv' /\ TurnInv'
  BY <1>1, <1>2, <1>3, IssueType, Zenon
<1>5. CASE stage' = stage /\ issue' = issue
  BY <1>1, <1>2, <1>4, <1>5, StaySame, Zenon DEF PipelineInv
<1>6. CASE MayIssue(issue) /\ Decoded(issue) /\ issue' = NoInstr
  <2>1. /\ \A s \in Stages : \A n \in Ids(stage[s]) : n < issue.iid /\ n < issueId'
        /\ issue.iid < issueId'
    BY <1>1, <1>2, Zenon DEF StageInv, OrderInv
  <2>2. StageInv' /\ stage'["mID"].count = stage["mID"].count + 1
    BY <1>1, <1>3, <1>6, <2>1, DecodedStep, Zenon
  <2>3. BufferInv'
    <3>1. Len(fetched) \in Int /\ held \in Int
      <4>1. held \in Int
        BY <1>1, UndecodeIs, Zenon
      <4> QED
        BY <1>3, <4>1
    <3>2. 0 \in Int /\ 1 \in Int /\ 1 + 0 = 0 + 1
      OBVIOUS
    <3>3. held' = held + 0 /\ Len(fetched') + 0 <= Len(fetched)
      BY <1>2, <3>1
    <3> QED
      BY <1>1, <1>2, <1>3, <1>6, <2>2, <3>2, <3>3, LentStep, Zenon
  <2> QED
    BY <1>4, <2>2, <2>3, Zenon DEF PipelineInv
<1> QED
  BY <1>2, <1>5, <1>6, Zenon

LEMMA IdsNat ==
  ASSUME StageInv, NEW s \in Stages
  PROVE  Ids(stage[s]) \subseteq Nat
<1>1. stage[s] \in Ring(Placed(s))
  BY Zenon DEF StageInv, RingsInv
<1>2. \A x \in Held(stage[s]) : x \in Instr
  BY <1>1, HeldType, PlacedType, Zenon
<1> QED
  BY <1>2, Zenon DEF Ids, Instr

LEMMA SlotKeeps ==
  ASSUME StageInv, stage' = stage, issue' \in Slotted, issueId \in Nat, issue'.iid = issueId,
         issueId' = issueId + 1
  PROVE  StageInv'
<1>1. issueId < issueId' /\ \A n \in Nat : n < issueId => n < issueId'
  OBVIOUS
<1>2. \A s \in Stages : \A n \in Ids(stage[s]) : n \in Nat /\ n < issueId
  BY IdsNat, Zenon DEF StageInv, OrderInv
<1>3. /\ \A s \in Stages : Ascends(stage'[s]) /\ Ids(stage'[s]) = Ids(stage[s])
      /\ \A s, t \in Stages : Ahead(s, t) => \A m \in Ids(stage'[s]), n \in Ids(stage'[t]) : m < n
  BY Zenon DEF StageInv, OrderInv
<1>4. OrderInv'
  <2>1. \A s \in Stages : \A n \in Ids(stage'[s]) : n < issueId' /\ n < issue'.iid
    BY <1>1, <1>2, <1>3, Zenon
  <2> QED
    BY <1>1, <1>3, <2>1, Zenon DEF OrderInv, Ascends, Ahead, Ids, Held, At, pos
<1>5. RingsInv'
  BY Zenon DEF StageInv, RingsInv, Ring, Placed, Instr, Consistent, At, pos
<1>6. DoneInv'
  BY Zenon DEF StageInv, DoneInv, Held
<1> QED
  BY <1>4, <1>5, <1>6, Zenon DEF StageInv

LEMMA IssueNextStep ==
  ASSUME PipelineInv, IssueNext
  PROVE  PipelineInv'
<1> DEFINE i == [iid |-> issueId, addr |-> Head(fetched), st |-> "S_INIT", done |-> FALSE,
                 src |-> NoSource]
<1>1. TypeInv /\ StageInv /\ BufferInv
  BY Zenon DEF PipelineInv
<1>2. /\ at = "issue" /\ issue = NoInstr /\ fetched # <<>> /\ k' = 1
      /\ issueId' = issueId + 1 /\ fetched' = Tail(fetched) /\ held' = held + 1
      /\ UNCHANGED <<prog, reg, fwd, fetchAddr, at, r>>
      /\ \/ MayIssue(i) /\ Decoded(i) /\ issue' = NoInstr
         \/ stage' = stage /\ issue' = i
  BY Zenon DEF IssueNext, archVars
<1>3. fetched \in Seq(0 .. N - 1) /\ issueId \in Nat \ {0}
  BY <1>1, Zenon DEF TypeInv
<1>4. /\ Head(fetched) \in 0 .. N - 1 /\ fetched' \in Seq(0 .. N - 1)
      /\ Len(fetched) \in Nat /\ Len(fetched') = Len(fetched) - 1
  <2>1. \A A : \A q \in Seq(A) : q # <<>> =>
           Head(q) \in A /\ Tail(q) \in Seq(A) /\ Len(q) \in Nat /\ Len(Tail(q)) = Len(q) - 1
    OBVIOUS
  <2> QED
    BY <1>2, <1>3, <2>1, Zenon
<1>5. i \in Slotted /\ i.iid = issueId
  <2>1. NoSource \in Data
    <3>1. NoSource \in [{} -> 0 .. N] /\ {} \in SUBSET Fields
      BY DEF NoSource
    <3> QED
      BY <3>1, DataIs, Zenon
  <2>2. "S_INIT" \in DOMAIN From
    BY DEF From
  <2> QED
    BY <1>3, <1>4, <2>1, <2>2, Zenon DEF Slotted, Instr, Data
<1> HIDE DEF i
<1>6. issueId' \in Nat \ {0} /\ issueId < issueId' /\ \A n \in Nat : n < issueId => n < issueId'
  BY <1>2, <1>3
<1>7. TypeInv' /\ TurnInv'
  BY <1>1, <1>2, <1>4, <1>5, <1>6, IssueType, Zenon
<1>8. held \in Int /\ 0 \in Int /\ 1 \in Int /\ 1 + 0 = 1 + 0 /\ 0 + 1 = 1 + 0
  <2>1. held \in Int
    BY <1>1, UndecodeIs, Zenon
  <2> QED
    BY <2>1
<1>9. Len(fetched') + 1 <= Len(fetched)
  BY <1>4
<1>10. CASE stage' = stage /\ issue' = i
  <2>1. StageInv'
    BY <1>1, <1>2, <1>3, <1>5, <1>10, SlotKeeps, Zenon
  <2>2. i # NoInstr
    BY <1>5, ProgramAssumption, Zenon DEF Slotted
  <2>3. stage'["mID"].count = stage["mID"].count + 0
    <3>1. stage["mID"].count \in Int
      BY <1>1, UndecodeIs, Zenon
    <3> QED
      BY <1>10, <3>1
  <2>4. BufferInv'
    BY <1>1, <1>2, <1>4, <1>8, <1>9, <1>10, <2>2, <2>3, LentStep, Zenon
  <2> QED
    BY <1>7, <2>1, <2>4, Zenon DEF PipelineInv
<1>11. CASE MayIssue(i) /\ Decoded(i) /\ issue' = NoInstr
  <2>1. \A s \in Stages : \A n \in Ids(stage[s]) : n < i.iid /\ n < issueId'
    <3> TAKE s \in Stages
    <3> TAKE n \in Ids(stage[s])
    <3>1. stage[s] \in Ring(Placed(s)) /\ n < issueId
      BY <1>1, Zenon DEF StageInv, RingsInv, OrderInv
    <3>2. n \in Nat
      BY <1>1, IdsNat, Zenon
    <3> QED
      BY <1>5, <1>6, <3>1, <3>2, Zenon
  <2>2. StageInv' /\ stage'["mID"].count = stage["mID"].count + 1
    BY <1>1, <1>5, <1>6, <1>11, <2>1, DecodedStep, Zenon
  <2>3. BufferInv'
    BY <1>1, <1>2, <1>4, <1>8, <1>9, <1>11, <2>2, LentStep, Zenon
  <2> QED
    BY <1>7, <2>2, <2>3, Zenon DEF PipelineInv
<1> QED
  BY <1>2, <1>10, <1>11, Zenon

\* preCycle(), postCycle() and what goes on outside the core.
LEMMA OutsideStep ==
  ASSUME PipelineInv, preCycle \/ postCycle \/ LoadData \/ UNCHANGED vars
  PROVE  PipelineInv'
<1>1. TypeInv /\ StageInv /\ BufferInv /\ TurnInv
  BY Zenon DEF PipelineInv
<1>2. UNCHANGED <<prog, reg, stage, issue, fetched, fetchAddr, held, issueId, r>>
  BY Zenon DEF preCycle, postCycle, LoadData, vars, fetchVars, archVars
<1>3. StageInv' /\ BufferInv'
  BY <1>1, <1>2, StaySame, Zenon
<1>4. CASE preCycle
  <2>1. at = "pre" /\ at' = "mWB" /\ k' = k /\ fwd' = fwd
    BY <1>4, Zenon DEF preCycle
  <2>2. k' = 0 /\ k' \in 0 .. Capacity
    BY <1>1, <2>1, CapacityAssumption DEF TypeInv
  <2>3. at' \in Stages /\ at' # "pre"
    BY <2>1 DEF Stages
  <2>4. TypeInv'
    BY <1>1, <1>2, <2>1, <2>2, <2>3, StageTypes, Zenon DEF TypeInv
  <2>5. \A j \in Index : ~(j < 0)
    BY CapacityAssumption DEF Index
  <2>6. TurnInv'
    BY <2>2, <2>5, Zenon DEF TurnInv
  <2> QED
    BY <1>3, <2>4, <2>6, Zenon DEF PipelineInv
<1>5. CASE postCycle
  <2>1. at' = "pre" /\ k' = 0 /\ fwd' = [p \in Paths |-> <<>>]
    BY <1>5, Zenon DEF postCycle
  <2>2. at' \notin LockStep /\ k' \in 0 .. Capacity
    BY <2>1, CapacityAssumption DEF LockStep
  <2>3. fwd' \in [Paths -> Seq(Writes)]
    BY <2>1
  <2>4. TypeInv'
    BY <1>1, <1>2, <2>1, <2>2, <2>3, StageTypes, Zenon DEF TypeInv
  <2>5. TurnInv'
    BY <2>2, Zenon DEF TurnInv, LockStep
  <2> QED
    BY <1>3, <2>4, <2>5, Zenon DEF PipelineInv
<1>6. CASE LoadData \/ UNCHANGED vars
  <2>1. UNCHANGED <<at, k, fwd>>
    BY <1>6, Zenon DEF LoadData, vars
  <2>2. TypeInv'
    BY <1>1, <1>2, <2>1, StageTypes, Zenon DEF TypeInv
  <2>3. TurnInv'
    BY <1>1, <1>2, <2>1, Zenon DEF TurnInv, LockStep, At, pos
  <2> QED
    BY <1>3, <2>2, <2>3, Zenon DEF PipelineInv
<1> QED
  BY <1>4, <1>5, <1>6, Zenon

\* The fetch unit receives an instruction, for which its buffer has room.
LEMMA FetchStep ==
  ASSUME PipelineInv, FetchData
  PROVE  PipelineInv'
<1>1. TypeInv /\ StageInv /\ BufferInv
  BY Zenon DEF PipelineInv
<1>2. /\ at = "pre" /\ fetchAddr < N /\ Len(fetched) + held < FetchSpace
      /\ fetched' = Append(fetched, fetchAddr) /\ fetchAddr' = fetchAddr + 1
      /\ UNCHANGED <<prog, reg, stage, issue, fwd, held, issueId, at, k, r>>
  BY Zenon DEF FetchData, archVars
<1>3. fetched \in Seq(0 .. N - 1) /\ fetchAddr \in Nat
  BY <1>1, Zenon DEF TypeInv
<1>4. fetchAddr \in 0 .. N - 1 /\ fetchAddr' \in Nat
  BY <1>2, <1>3, ProgramAssumption
<1>5. fetched' \in Seq(0 .. N - 1) /\ Len(fetched') = Len(fetched) + 1 /\ Len(fetched) \in Nat
  <2>1. \A A : \A q \in Seq(A), x \in A :
          Append(q, x) \in Seq(A) /\ Len(Append(q, x)) = Len(q) + 1 /\ Len(q) \in Nat
    OBVIOUS
  <2> QED
    BY <1>2, <1>3, <1>4, <2>1, Zenon
<1>6. TypeInv'
  BY <1>1, <1>2, <1>4, <1>5, StageTypes, Zenon DEF TypeInv
<1>7. TurnInv'
  BY <1>2 DEF TurnInv, LockStep
<1>8. StageInv'
  BY <1>1, <1>2, StayKeeps, Zenon
<1>9. BufferInv'
  <2>1. held \in Int
    BY <1>1, UndecodeIs, Zenon
  <2>2. Len(fetched') + held <= FetchSpace
    BY <1>2, <1>5, <2>1, ProgramAssumption
  <2> QED
    BY <1>1, <1>2, <2>2, Zenon DEF BufferInv, BufferIsReleased
<1> QED
  BY <1>6, <1>7, <1>8, <1>9, Zenon DEF PipelineInv

LEMMA InitStep ==
  ASSUME Init
  PROVE  PipelineInv
<1>1. TypeInv
  <2>1. prog \in [0 .. N - 1 -> Kinds]
    BY ProgramAssumption, Zenon DEF Init
  <2>2. N \in 0 .. N /\ 0 \in Nat /\ 1 \in Nat \ {0} /\ 0 \in 0 .. Capacity /\ TRUE \in BOOLEAN
        /\ <<>> \in Seq(0 .. N - 1) /\ <<>> \in Seq(Writes)
    BY ProgramAssumption, CapacityAssumption
  <2> QED
    BY <2>1, <2>2, Zenon DEF Init, TypeInv
<1>2. /\ stage = [s \in Stages |-> EmptyStage] /\ issue = NoInstr /\ fetched = <<>> /\ held = 0
      /\ at = "pre"
  BY Zenon DEF Init
<1>3. \A X : EmptyStage \in Ring(X) /\ Consistent(EmptyStage) /\ EmptyStage.count = 0
  BY EmptyRing, Zenon
<1>4. Held(EmptyStage) = {} /\ Ascends(EmptyStage)
  BY <1>3, EmptyOrder, Zenon
<1>5. \A s \in Stages : stage[s] = EmptyStage
  BY <1>2, Zenon
<1>6. RingsInv
  BY <1>2, <1>3, <1>5, Zenon DEF RingsInv
<1>7. OrderInv
  BY <1>2, <1>4, <1>5, Zenon DEF OrderInv, Ids
<1>8. DoneInv
  BY <1>4, <1>5, StageNames, Zenon DEF DoneInv
<1>9. BufferInv
  <2>1. stage["mID"].count = 0
    BY <1>3, <1>5, StageNames, Zenon
  <2> QED
    BY <1>2, <2>1, ProgramAssumption DEF BufferInv, BufferIsReleased
<1>10. TurnInv
  BY <1>2 DEF TurnInv, LockStep
<1> QED
  BY <1>1, <1>6, <1>7, <1>8, <1>9, <1>10, Zenon DEF PipelineInv, StageInv

LEMMA NextStep ==
  ASSUME PipelineInv, [Next]_vars
  PROVE  PipelineInv'
BY BlockedStep, RepeatStep, MoveStep, WorkStep, ExceptionStep, SplitStep, EnteredStep, BranchStep,
   EndDecodeStep, LeftOverStep, IssueNextStep, OutsideStep, FetchStep, Zenon DEF Next, Cycle

(* The generated core's cycle() keeps the inductive invariant: no action,    *)
(* flush or move of a stage breaks it.                                       *)
THEOREM PipelineInvariant == Spec => []PipelineInv
<1>1. Init => PipelineInv
  BY InitStep
<1>2. PipelineInv /\ [Next]_vars => PipelineInv'
  BY NextStep
<1> QED
  BY <1>1, <1>2, PTL DEF Spec

-----------------------------------------------------------------------------
(* What is in flight                                                       *)

Rising(q) == \A i, j \in DOMAIN q : i < j => q[i].iid < q[j].iid

IdsOf(q) == {q[j].iid : j \in DOMAIN q}

LEMMA ConcatAt ==
  ASSUME NEW A, NEW p \in Seq(A), NEW q \in Seq(A)
  PROVE  /\ p \o q \in Seq(A)
         /\ \A j \in DOMAIN (p \o q) : \/ j \in DOMAIN p /\ (p \o q)[j] = p[j]
                                       \/ j - Len(p) \in DOMAIN q /\ (p \o q)[j] = q[j - Len(p)]
                                          /\ j \notin DOMAIN p
<1>1. p \o q \in Seq(A) /\ Len(p \o q) = Len(p) + Len(q) /\ Len(p) \in Nat /\ Len(q) \in Nat
  OBVIOUS
<1>2. /\ DOMAIN p = 1 .. Len(p) /\ DOMAIN q = 1 .. Len(q)
      /\ DOMAIN (p \o q) = 1 .. Len(p) + Len(q)
  BY <1>1
<1>3. ASSUME NEW j \in 1 .. Len(p) + Len(q)
      PROVE  \/ j \in 1 .. Len(p) /\ (p \o q)[j] = p[j]
             \/ j - Len(p) \in 1 .. Len(q) /\ (p \o q)[j] = q[j - Len(p)] /\ j \notin 1 .. Len(p)
  BY <1>1
<1> QED
  BY <1>1, <1>2, <1>3, Zenon

LEMMA ConcatOrder ==
  ASSUME NEW A, NEW p \in Seq(A), NEW q \in Seq(A), Rising(p), Rising(q),
         \A m \in IdsOf(p), n \in IdsOf(q) : m < n
  PROVE  p \o q \in Seq(A) /\ Rising(p \o q) /\ IdsOf(p \o q) \subseteq IdsOf(p) \cup IdsOf(q)
<1>1. /\ p \o q \in Seq(A)
      /\ \A j \in DOMAIN (p \o q) : \/ j \in DOMAIN p /\ (p \o q)[j] = p[j]
                                    \/ j - Len(p) \in DOMAIN q /\ (p \o q)[j] = q[j - Len(p)]
                                       /\ j \notin DOMAIN p
  BY ConcatAt, Zenon
<1>2. ASSUME NEW i \in DOMAIN (p \o q), NEW j \in DOMAIN (p \o q), i < j
      PROVE  /\ j \in DOMAIN p => i \in DOMAIN p
             /\ i - Len(p) < j - Len(p)
  <2>1. DOMAIN (p \o q) \subseteq Nat \ {0} /\ DOMAIN p = 1 .. Len(p) /\ Len(p) \in Nat
    BY <1>1
  <2>2. i \in Nat \ {0} /\ j \in Nat \ {0}
    BY <2>1, Zenon
  <2>3. j \in 1 .. Len(p) => i \in 1 .. Len(p)
    BY <1>2, <2>1, <2>2
  <2>4. i - Len(p) < j - Len(p)
    BY <1>2, <2>1, <2>2
  <2> QED
    BY <2>1, <2>3, <2>4, Zenon
<1>3. ASSUME NEW i \in DOMAIN (p \o q), NEW j \in DOMAIN (p \o q), i < j
      PROVE  (p \o q)[i].iid < (p \o q)[j].iid
  <2>1. (j \in DOMAIN p => i \in DOMAIN p) /\ i - Len(p) < j - Len(p)
    BY <1>2, <1>3, Zenon
  <2>2. CASE i \in DOMAIN p /\ j \in DOMAIN p
    BY <1>1, <1>3, <2>2, Zenon DEF Rising
  <2>3. CASE i \in DOMAIN p /\ j \notin DOMAIN p
    BY <1>1, <2>3, Zenon DEF IdsOf
  <2>4. CASE i \notin DOMAIN p /\ j \notin DOMAIN p
    BY <1>1, <2>1, <2>4, Zenon DEF Rising
  <2> QED
    BY <2>1, <2>2, <2>3, <2>4, Zenon
<1>4. IdsOf(p \o q) \subseteq IdsOf(p) \cup IdsOf(q)
  BY <1>1, Zenon DEF IdsOf
<1> QED
  BY <1>1, <1>3, <1>4, Zenon DEF Rising

\* The instructions of a ring as a sequence.
LEMMA ContentsOrder ==
  ASSUME NEW X, NEW s \in Ring(X), Consistent(s), Ascends(s)
  PROVE  /\ Contents(s) \in Seq(X) /\ Rising(Contents(s)) /\ IdsOf(Contents(s)) \subseteq Ids(s)
<1> DEFINE q == Contents(s)
<1>1. s.count \in 0 .. Capacity
  BY Zenon DEF Consistent
<1>2. \A j \in 1 .. s.count : j - 1 \in Index /\ j - 1 < s.count
  BY <1>1, CapacityAssumption DEF Index
<1>3. q = [j \in 1 .. s.count |-> At(s, j - 1)]
  BY Zenon DEF Contents
<1>4. DOMAIN q = 1 .. s.count /\ \A j \in 1 .. s.count : q[j] = At(s, j - 1) /\ q[j] \in Held(s)
  BY <1>2, <1>3, AtHeld, Zenon
<1>5. \A j \in 1 .. s.count : q[j] \in X
  BY <1>4, HeldType, Zenon
<1>6. q \in Seq(X)
  <2> HIDE DEF q
  <2>1. s.count \in Nat
    BY <1>1, CapacityAssumption
  <2>2. q \in [1 .. s.count -> X]
    BY <1>3, <1>4, <1>5, Zenon
  <2>3. \A n \in Nat : \A f \in [1 .. n -> X] : f \in Seq(X)
    OBVIOUS
  <2> QED
    BY <2>1, <2>2, <2>3, Zenon
<1>7. \A i, j \in 1 .. s.count : i < j => i - 1 < j - 1
  BY <1>1
<1>8. Rising(q)
  BY <1>2, <1>4, <1>7, Zenon DEF Rising, Ascends
<1>9. IdsOf(q) \subseteq Ids(s)
  BY <1>4, Zenon DEF IdsOf, Ids
<1> QED
  BY <1>6, <1>8, <1>9, Zenon

LEMMA InFlightOrder ==
  ASSUME TypeInv, StageInv
  PROVE  InFlight \in Seq(Instr) /\ Rising(InFlight)
<1> DEFINE c(s) == Contents(stage[s])
           wm == c("mWB") \o c("mMM")
           wx == wm \o c("mEX")
           wd == wx \o c("mID")
           sl == IF issue = NoInstr THEN <<>> ELSE <<issue>>
<1>1. \A s \in Stages : c(s) \in Seq(Instr) /\ Rising(c(s)) /\ IdsOf(c(s)) \subseteq Ids(stage[s])
  <2> TAKE s \in Stages
  <2>1. stage[s] \in Ring(Instr) /\ Consistent(stage[s]) /\ Ascends(stage[s])
    BY RingPlaced, Zenon DEF StageInv, RingsInv, OrderInv
  <2> QED
    BY <2>1, ContentsOrder, Zenon
<1>2. \A s, t \in Stages : Ahead(s, t) => \A m \in IdsOf(c(s)), n \in IdsOf(c(t)) : m < n
  BY <1>1, Zenon DEF StageInv, OrderInv
<1>3. \A s \in Stages, n \in IdsOf(sl) : \A m \in IdsOf(c(s)) : m < n
  <2>1. issue = NoInstr => IdsOf(sl) = {}
    BY DEF IdsOf
  <2>2. issue # NoInstr => IdsOf(sl) \subseteq {issue.iid}
    BY DEF IdsOf
  <2>3. issue # NoInstr => \A s \in Stages : \A m \in IdsOf(c(s)) : m < issue.iid
    BY <1>1, Zenon DEF StageInv, OrderInv
  <2> HIDE DEF sl, c
  <2> QED
    BY <2>1, <2>2, <2>3, Zenon
<1>4. sl \in Seq(Instr) /\ Rising(sl)
  <2>1. issue # NoInstr => issue \in Instr
    BY Zenon DEF TypeInv, Slotted
  <2>2. sl \in Seq(Instr) /\ Len(sl) \in {0, 1} /\ DOMAIN sl = 1 .. Len(sl)
    <3>1. \A A : \A x \in A : <<x>> \in Seq(A) /\ Len(<<x>>) = 1 /\ DOMAIN <<x>> = 1 .. 1
      OBVIOUS
    <3>2. <<>> \in Seq(Instr) /\ Len(<<>>) = 0 /\ DOMAIN <<>> = 1 .. 0
      OBVIOUS
    <3> QED
      BY <2>1, <3>1, <3>2, Zenon
  <2> HIDE DEF sl
  <2>3. \A i, j \in DOMAIN sl : ~(i < j)
    BY <2>2
  <2> QED
    BY <2>2, <2>3, Zenon DEF Rising
<1>5. Ahead("mWB", "mMM") /\ Ahead("mWB", "mEX") /\ Ahead("mWB", "mID")
      /\ Ahead("mMM", "mEX") /\ Ahead("mMM", "mID") /\ Ahead("mEX", "mID")
  BY DEF Ahead
<1>6. InFlight = wd \o sl
  BY Zenon DEF InFlight
<1> HIDE DEF c, sl
<1>7. wm \in Seq(Instr) /\ Rising(wm) /\ IdsOf(wm) \subseteq IdsOf(c("mWB")) \cup IdsOf(c("mMM"))
  BY <1>1, <1>2, <1>5, StageNames, ConcatOrder, Zenon
<1> HIDE DEF wm
<1>8. wx \in Seq(Instr) /\ Rising(wx) /\ IdsOf(wx) \subseteq IdsOf(wm) \cup IdsOf(c("mEX"))
  <2>1. \A m \in IdsOf(wm), n \in IdsOf(c("mEX")) : m < n
    BY <1>2, <1>5, <1>7, StageNames, Zenon
  <2> QED
    BY <1>1, <1>7, <2>1, StageNames, ConcatOrder, Zenon
<1> HIDE DEF wx
<1>9. wd \in Seq(Instr) /\ Rising(wd) /\ IdsOf(wd) \subseteq IdsOf(wx) \cup IdsOf(c("mID"))
  <2>1. \A m \in IdsOf(wx), n \in IdsOf(c("mID")) : m < n
    BY <1>2, <1>5, <1>7, <1>8, StageNames, Zenon
  <2> QED
    BY <1>1, <1>8, <2>1, StageNames, ConcatOrder, Zenon
<1> HIDE DEF wd
<1>10. \A m \in IdsOf(wd), n \in IdsOf(sl) : m < n
  BY <1>3, <1>7, <1>8, <1>9, StageNames, Zenon
<1> QED
  BY <1>4, <1>6, <1>9, <1>10, ConcatOrder, Zenon

-----------------------------------------------------------------------------
(* The theorems                                                            *)

(* No sequence of stalls, moves and flushes makes a stage hold more than it  *)
(* has room for or leaves a hole in its ring, whatever the stages' capacity: *)
(* the assertion in add_instr() of PipelineStage.h never fails, and every    *)
(* access relative to the head finds the instruction it means.               *)
THEOREM StagesConsistentCorrect == Spec => []StagesConsistent
<1>1. PipelineInv => StagesConsistent
  BY Zenon DEF PipelineInv, StageInv, RingsInv, StagesConsistent
<1> QED
  BY <1>1, PipelineInvariant, PTL

(* The instructions in flight are in the order of their issue, through the   *)
(* flushes of branches and exceptions and the moves of whole lock-step       *)
(* stages: no flush of cycle() leaves an older instruction behind a younger. *)
THEOREM InOrderCorrect == Spec => []InOrder
<1>1. PipelineInv => InOrder
  BY InFlightOrder, Zenon DEF PipelineInv, InOrder, Rising
<1> QED
  BY <1>1, PipelineInvariant, PTL

(* The fetch buffer has lent exactly the instructions that are in decode or  *)
(* in the issue slot: issue() and the flush functions give back each of them *)
(* once.                                                                     *)
THEOREM BufferIsReleasedCorrect == Spec => []BufferIsReleased
<1>1. PipelineInv => BufferIsReleased
  BY Zenon DEF PipelineInv, BufferInv
<1> QED
  BY <1>1, PipelineInvariant, PTL

(* The core's state keeps its types for every program, every split of        *)
(* classes, any capacity and any fetch buffer: each instruction is in a      *)
(* stage that its state is mapped to, and what the fetch buffer has lent     *)
(* fits into it.                                                             *)
THEOREM TypeCorrect == Spec => []TypeOK
<1>1. ASSUME PipelineInv PROVE TypeOK
  <2>1. TypeInv /\ StageInv /\ BufferInv
    BY <1>1, Zenon DEF PipelineInv
  <2>2. \A i \in Range(InFlight) : i \in Instr
    <3>1. InFlight \in Seq(Instr)
      BY <2>1, InFlightOrder, Zenon
    <3>2. \A q \in Seq(Instr) : \A j \in DOMAIN q : q[j] \in Instr
      OBVIOUS
    <3> QED
      BY <3>1, <3>2, Zenon DEF Range
  <2>3. ASSUME NEW s \in Stages, NEW i \in Range(Contents(stage[s])) PROVE i.st \in Mapping[s]
    <3>1. stage[s] \in Ring(Placed(s)) /\ Consistent(stage[s]) /\ Ascends(stage[s])
      BY <2>1, Zenon DEF StageInv, RingsInv, OrderInv
    <3>2. Contents(stage[s]) \in Seq(Placed(s))
      BY <3>1, ContentsOrder, Zenon
    <3>3. \A A : \A q \in Seq(A) : \A j \in DOMAIN q : q[j] \in A
      OBVIOUS
    <3>4. i \in Placed(s)
      BY <2>3, <3>2, <3>3, Zenon DEF Range
    <3> QED
      BY <3>4, Zenon DEF Placed
  <2>4. held \in 0 .. FetchSpace
    <3>1. PICK c \in 0 .. Capacity : c = stage["mID"].count
      BY <2>1, StageNames, Zenon DEF StageInv, RingsInv, Consistent
    <3>2. PICK m \in {0, 1} : m = IF issue = NoInstr THEN 0 ELSE 1
      BY Zenon
    <3>3. held = c + m /\ Len(fetched) + held <= FetchSpace
      BY <2>1, <3>1, <3>2, Zenon DEF BufferInv, BufferIsReleased
    <3>4. Len(fetched) \in Nat
      BY <2>1 DEF TypeInv
    <3> QED
      BY <3>3, <3>4, ProgramAssumption, CapacityAssumption
  <2>5. /\ prog \in [0 .. N - 1 -> Kinds] /\ reg \in [Fields -> 0 .. N]
        /\ at \in Stages \cup {"pre", "issue"} /\ k \in 0 .. Capacity /\ r \in BOOLEAN
    BY <2>1, Zenon DEF TypeInv
  <2> QED
    BY <2>2, <2>3, <2>4, <2>5, Zenon DEF TypeOK
<1> QED
  BY <1>1, PipelineInvariant, PTL

=============================================================================
