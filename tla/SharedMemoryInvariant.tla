----------------------- MODULE SharedMemoryInvariant ------------------------
(***************************************************************************)
(* Proofs about SharedMemory for any number of cores, any programs and a   *)
(* tree of any depth and width: the inductive invariant, and that every    *)
(* step keeps the types and what it says of the tree.                      *)
(*                                                                         *)
(* The inductive invariant has three parts: the tree (what is in a slot is *)
(* one level lower and lies on the way of exactly the addresses of that    *)
(* slot), the walkers (who is at a node has an address that leads through  *)
(* it) and the locks (who holds which is a matter of where its thread is). *)
(***************************************************************************)
EXTENDS SharedMemory, TLAPS

Slots == 0..(Size - 1)
InHand(n) == \E g \in Agents : new[g] = n

\* What is not in the tree is empty and on nobody's way.
OutsideTree(n) ==
    /\ slot[n] = EmptyNode
    /\ page[n] = EmptyPage
    /\ spans[n] = {}

TreeInv ==
    /\ Root \in live /\ level[Root] = Top /\ spans[Root] = Addrs /\ ~InHand(Root)
    /\ \A n \in Nodes \ live : OutsideTree(n)
    /\ \A n \in Nodes : InHand(n) => n \in live /\ OutsideTree(n)
    /\ \A m \in Nodes, i \in Slots : slot[m][i] # None =>
          /\ slot[m][i] \in live \ {Root}
          /\ ~InHand(slot[m][i])
          /\ level[m] > 0
          /\ level[slot[m][i]] = level[m] - 1
          /\ spans[slot[m][i]] = Through(m, i)
    /\ \A m, k \in Nodes, i, j \in Slots :
          slot[m][i] = slot[k][j] /\ slot[m][i] # None => m = k /\ i = j
    /\ \A n \in live \ {Root} : InHand(n) \/ \E m \in live, i \in Slots : slot[m][i] = n
    /\ \A g, h \in Agents : new[g] = new[h] /\ new[g] # None => g = h

\* Nodes of one level have no address in common.
Apart == \A m, n \in Nodes : level[m] = level[n] /\ spans[m] \cap spans[n] # {} => m = n

\* Addresses that lead to one node agree in all digits above it.
Together ==
    \A n \in Nodes, a, b \in Addrs :
        a \in spans[n] /\ b \in spans[n] =>
            \A l \in 1..Top : l > level[n] => Index(a, l) = Index(b, l)

WalkInv ==
    \A g \in Agents :
        /\ pc[g] \in {"walk", "cas"} => cur[g] \in live /\ op[g].addr \in spans[cur[g]]
        /\ pc[g] \notin {"walk", "cas"} => cur[g] = Root
        /\ pc[g] = "cas" => /\ new[g] # None
                            /\ level[cur[g]] > 0
                            /\ level[new[g]] = level[cur[g]] - 1
        /\ pc[g] # "cas" => new[g] = None

RequestInv ==
    \A g \in Agents :
        /\ pc[g] = "idle" <=> op[g] = None
        /\ op[g] # None => op[g] \in Program[g]
        /\ pc[g] # "idle" => via[g] \in Cores
        /\ g \in Cores /\ pc[g] # "idle" => via[g] = g
        /\ g = User => pc[g] \in {"idle", "core", "walk", "cas", "unlock"}
        /\ op[g] # None /\ op[g].kind = "read" => acc[g] = "read"
        /\ op[g] # None /\ op[g].kind = "write" => acc[g] = "write"
        /\ pc[g] \in {"instr", "leave"} => op[g].kind = "update"
        /\ pc[g] = "instr" => acc[g] = "read"
        /\ pc[g] = "leave" => acc[g] = "write"
        /\ pc[g] \in {"idle", "instr"} => reg[g] = 0

Updates(c) == op[c] # None /\ op[c].kind = "update" /\ pc[c] # "instr"
HasRead(c) ==
    /\ Updates(c)
    /\ \/ acc[c] = "read" /\ pc[c] = "unlock"
       \/ acc[c] = "write" /\ pc[c] \notin {"unlock", "leave"}

InstrInv ==
    \A c \in Cores : (instrMutex = c <=> Updates(c)) /\ (flag[c] <=> Updates(c))

CoreInv ==
    \A c \in Cores, g \in Agents :
        memMutex[c] = g <=> via[g] = c /\ pc[g] \in {"mutex", "lock", "walk", "cas", "unlock"}

HashInv ==
    /\ \A c \in Cores, k \in Keys : private[c][k] # None => private[c][k] = shared[k]
    /\ \A k, j \in Keys : shared[k] = shared[j] /\ shared[k] # None => k = j
    /\ \A c \in Cores : pc[c] = "lock" \/ Locked(c) => private[c][key(c)] # None
    /\ \A c \in Cores : pc[c] = "lock" => flag[c] \/ c \in LockedMem

HolderInv ==
    \A c \in Cores, x \in Mutexes :
        holder[x] = c <=> Locked(c) /\ private[c][key(c)] = x

\* Between the two accesses of an atomic instruction its cell keeps the value read.
UpdateInv == \A c \in Cores : HasRead(c) => reg[c] = Cells[op[c].addr]

Inv == TypeOK /\ TreeInv /\ Apart /\ Together /\ WalkInv /\ RequestInv
       /\ InstrInv /\ CoreInv /\ HashInv /\ HolderInv /\ UpdateInv
-----------------------------------------------------------------------------
(* Constants                                                                *)

LEMMA Fits ==
    /\ Top \in Nat \ {0}
    /\ 0 \in Values
    /\ \A v \in Values : Modify[v] \in Values
    /\ \A a \in Addrs : pageOffset(a) \in 0..(PageSize - 1) /\ get_page(a) \in Keys
    /\ EmptyNode \in [Slots -> Nodes \cup {None}]
    /\ EmptyPage \in [0..(PageSize - 1) -> Values]
<1>1. Top \in Nat \ {0}
  BY TreeAssumption DEF Top
<1>2. 0 \in Values /\ \A v \in Values : Modify[v] \in Values
  BY TreeAssumption DEF Values, Modify
<1>3. \A a \in Addrs : pageOffset(a) \in 0..(PageSize - 1)
  BY TreeAssumption DEF pageOffset
<1>4. \A a \in Addrs : get_page(a) \in Keys
  BY Zenon DEF Keys
<1>5. EmptyNode \in [Slots -> Nodes \cup {None}]
  BY Zenon DEF EmptyNode, Slots
<1>6. EmptyPage \in [0..(PageSize - 1) -> Values]
  BY <1>2, Zenon DEF EmptyPage
<1> QED
  BY <1>1, <1>2, <1>3, <1>4, <1>5, <1>6, Zenon

\* What an agent asks for is a request.
LEMMA Asked ==
    ASSUME RequestInv, NEW g \in Agents, pc[g] # "idle"
    PROVE  op[g] \in Requests /\ op[g] \in Program[g] /\ op[g].addr \in Addrs /\ op[g].val \in Values /\ via[g] \in Cores
<1>1. op[g] # None /\ op[g] \in Program[g] /\ via[g] \in Cores
  BY Zenon DEF RequestInv
<1>2. op[g] \in Requests
  BY <1>1, ProgramAssumption, Zenon
<1> QED
  BY <1>1, <1>2, Zenon DEF Requests

\* Where an agent on its way looks.
LEMMA Way ==
    ASSUME TypeOK, RequestInv, NEW g \in Agents, pc[g] \in {"walk", "cas"}
    PROVE  /\ cur[g] \in Nodes /\ level[cur[g]] \in 0..Top
           /\ op[g].addr \in Addrs
           /\ level[cur[g]] > 0 => index(g) \in Slots /\ next(g) \in Nodes \cup {None} /\ level[cur[g]] - 1 \in 0..Top
           /\ cell(g) \in 0..(PageSize - 1)
<1>1. op[g].addr \in Addrs
  BY Asked, Zenon
<1>2. cur[g] \in Nodes /\ level[cur[g]] \in 0..Top
  BY Zenon DEF TypeOK
<1>3. cell(g) \in 0..(PageSize - 1)
  BY <1>1, Fits, Zenon DEF cell
<1>4. ASSUME level[cur[g]] > 0 PROVE index(g) \in Slots /\ level[cur[g]] - 1 \in 0..Top
  <2>1. level[cur[g]] \in 1..Top /\ level[cur[g]] - 1 \in 0..Top
    BY <1>2, <1>4, Fits
  <2>2. Index(op[g].addr, level[cur[g]]) \in 0..(Size - 1)
    BY <1>1, <2>1, CellsAssumption, Zenon
  <2> QED
    BY <2>1, <2>2, Zenon DEF index, Slots
<1>5. ASSUME level[cur[g]] > 0 PROVE next(g) \in Nodes \cup {None}
  <2>1. slot[cur[g]] \in [Slots -> Nodes \cup {None}]
    BY <1>2, Zenon DEF TypeOK, Slots
  <2>2. index(g) \in Slots
    BY <1>4, <1>5, Zenon
  <2> QED
    BY <2>1, <2>2, Zenon DEF next
<1> QED
  BY <1>1, <1>2, <1>3, <1>4, <1>5, Zenon

-----------------------------------------------------------------------------
(* Types                                                                    *)

LEMMA InitType == Init => TypeOK
<1> SUFFICES ASSUME Init PROVE TypeOK
  BY Zenon
<1>1. /\ live \subseteq Nodes
      /\ slot \in [Nodes -> [Slots -> Nodes \cup {None}]]
      /\ page \in [Nodes -> [0..(PageSize - 1) -> Values]]
  BY Fits, IdentityAssumption, Zenon DEF Init
<1>2. /\ level \in [Nodes -> 0..Top]
      /\ spans \in [Nodes -> SUBSET Addrs]
      /\ reg \in [Agents -> Values]
  BY Fits DEF Init
<1> QED
  BY <1>1, <1>2, IdentityAssumption, Zenon DEF Init, TypeOK, Slots, Pcs

LEMMA StepType == Inv /\ [Next]_vars => TypeOK'
<1> SUFFICES ASSUME Inv, [Next]_vars PROVE TypeOK'
  BY Zenon
<1> USE DEF Inv
<1>1. CASE UNCHANGED vars
  BY <1>1, Zenon DEF TypeOK, vars, tree, locks, walk
<1>2. CASE reset
  <2>1. /\ slot' \in [Nodes -> [Slots -> Nodes \cup {None}]]
        /\ page' \in [Nodes -> [0..(PageSize - 1) -> Values]]
        /\ level' \in [Nodes -> 0..Top]
        /\ spans' \in [Nodes -> SUBSET Addrs]
        /\ live' \subseteq Nodes
    BY <1>2, Fits, IdentityAssumption DEF reset
  <2> QED
    BY <1>2, <2>1, Zenon DEF reset, TypeOK, locks, walk, Slots
<1>3. CASE UserCall
  BY <1>3, ProgramAssumption DEF UserCall, To, TypeOK, tree, locks, walk, Pcs, Agents, Requests
<1>4. ASSUME NEW c \in Cores, Call(c) PROVE TypeOK'
  BY <1>4, ProgramAssumption DEF Call, To, TypeOK, tree, locks, walk, Pcs, Agents
<1>5. ASSUME NEW c \in Cores, Throw(c) PROVE TypeOK'
  BY <1>5, Fits, Zenon DEF Throw, Idle, To, TypeOK, tree, walk, Pcs
<1>6. ASSUME NEW c \in Cores, LockAtomicInstr(c) PROVE TypeOK'
  BY <1>6, Zenon DEF LockAtomicInstr, To, TypeOK, tree, walk, Pcs
<1>7. ASSUME NEW c \in Cores, GetMutex(c) PROVE TypeOK'
  <2>1. pc[c] # "idle" /\ c \in Agents
    BY <1>7, Zenon DEF GetMutex, Agents
  <2>2. key(c) \in Keys
    BY <2>1, Asked, Fits, Zenon DEF key
  <2>3. Shared(key(c)) \in Mutexes
    BY <1>7, <2>2, Zenon DEF GetMutex, Shared, Unused, TypeOK
  <2>4. get(c, key(c)) \in Mutexes
    BY <2>2, <2>3 DEF get, TypeOK
  <2>5. shared' \in [Keys -> Mutexes \cup {None}] /\ private' \in [Cores -> [Keys -> Mutexes \cup {None}]]
    BY <1>7, <2>2, <2>3, <2>4, Zenon DEF GetMutex, TypeOK
  <2> QED
    BY <1>7, <2>5, Zenon DEF GetMutex, To, TypeOK, tree, walk, Pcs
<1>8. ASSUME NEW c \in Cores, NoMutex(c) PROVE TypeOK'
  BY <1>8, Zenon DEF NoMutex, To, TypeOK, tree, locks, walk, Pcs
<1>9. ASSUME NEW c \in Cores, LockMemory(c) PROVE TypeOK'
  BY <1>9, Zenon DEF LockMemory, To, TypeOK, tree, walk, Pcs
<1>10. ASSUME NEW c \in Cores, Leave(c) PROVE TypeOK'
  BY <1>10, Fits, Zenon DEF Leave, Idle, To, TypeOK, tree, walk, Pcs
<1>11. ASSUME NEW g \in Agents, AdlSimLock(g) PROVE TypeOK'
  BY <1>11, Zenon DEF AdlSimLock, To, TypeOK, tree, walk, Pcs
<1>12. ASSUME NEW g \in Agents, Load(g) PROVE TypeOK'
  <2>1. next(g) \in Nodes
    BY <1>12, Way, Zenon DEF Load
  <2> QED
    BY <1>12, <2>1, Zenon DEF Load, Descend, TypeOK, tree, locks
<1>13. ASSUME NEW g \in Agents, NewChild(g) PROVE TypeOK'
  <2> DEFINE n == CHOOSE m \in Nodes : m \notin live
  <2>1. n \in Nodes
    BY <1>13, Zenon DEF NewChild
  <2>2. level[cur[g]] - 1 \in 0..Top
    BY <1>13, Way, Zenon DEF NewChild
  <2>3. /\ new' = [new EXCEPT ![g] = n]
        /\ live' = live \cup {n}
        /\ level' = [level EXCEPT ![n] = level[cur[g]] - 1]
        /\ slot' = [slot EXCEPT ![n] = EmptyNode]
        /\ page' = [page EXCEPT ![n] = EmptyPage]
        /\ pc' = [pc EXCEPT ![g] = "cas"]
        /\ UNCHANGED <<spans, locks, op, via, acc, cur, reg>>
    BY <1>13, Zenon DEF NewChild, To
  <2> HIDE DEF n
  <2>4. /\ new' \in [Agents -> Nodes \cup {None}]
        /\ live' \subseteq Nodes
        /\ level' \in [Nodes -> 0..Top]
        /\ slot' \in [Nodes -> [Slots -> Nodes \cup {None}]]
        /\ page' \in [Nodes -> [0..(PageSize - 1) -> Values]]
        /\ pc' \in [Agents -> Pcs]
    BY <2>1, <2>2, <2>3, Fits, Zenon DEF TypeOK, Slots, Pcs
  <2> QED
    BY <2>3, <2>4, Zenon DEF TypeOK, locks, Slots
<1>14. ASSUME NEW g \in Agents, CompareExchange(g) PROVE TypeOK'
  <2>1. /\ cur[g] \in Nodes
        /\ level[cur[g]] > 0
        /\ new[g] \in Nodes
    BY <1>14, Way, Zenon DEF CompareExchange, WalkInv, TypeOK
  <2>2. index(g) \in Slots /\ next(g) \in Nodes \cup {None}
    BY <1>14, <2>1, Way, Zenon DEF CompareExchange
  <2>3. Through(cur[g], index(g)) \in SUBSET Addrs
    BY <2>1, Zenon DEF Through, TypeOK
  <2>4. new' \in [Agents -> Nodes \cup {None}] /\ pc' \in [Agents -> Pcs]
    BY <1>14, Zenon DEF CompareExchange, To, TypeOK, Pcs
  <2>5. CASE next(g) = None /\ Install(g)
    <3>1. /\ slot' \in [Nodes -> [Slots -> Nodes \cup {None}]]
          /\ spans' \in [Nodes -> SUBSET Addrs]
          /\ cur' \in [Agents -> Nodes]
          /\ live' \subseteq Nodes
      BY <2>1, <2>2, <2>3, <2>5, Zenon DEF Install, Descend, TypeOK, Slots
    <3> QED
      BY <1>14, <2>4, <3>1, Zenon DEF CompareExchange, TypeOK, locks, Slots
  <2>6. CASE next(g) # None /\ Discard(g)
    <3>1. live' \subseteq Nodes /\ cur' \in [Agents -> Nodes] /\ UNCHANGED <<slot, spans>>
      BY <2>1, <2>2, <2>6, Zenon DEF Discard, Descend, TypeOK
    <3> QED
      BY <1>14, <2>4, <3>1, Zenon DEF CompareExchange, TypeOK, locks
  <2> QED
    BY <1>14, <2>5, <2>6, Zenon DEF CompareExchange
<1>15. ASSUME NEW g \in Agents, ReadCell(g) PROVE TypeOK'
  <2>1. cur[g] \in Nodes /\ cell(g) \in 0..(PageSize - 1)
    BY <1>15, Way, Zenon DEF ReadCell
  <2>2. page[cur[g]][cell(g)] \in Values
    BY <2>1, Zenon DEF TypeOK
  <2> QED
    BY <1>15, <2>2, IdentityAssumption, Zenon DEF ReadCell, Found, To, TypeOK, tree, locks, Pcs
<1>16. ASSUME NEW g \in Agents, WriteCell(g) PROVE TypeOK'
  <2>1. cur[g] \in Nodes /\ cell(g) \in 0..(PageSize - 1) /\ op[g].val \in Values
    BY <1>16, Way, Asked, Zenon DEF WriteCell
  <2>2. (IF op[g].kind = "update" THEN Modify[reg[g]] ELSE op[g].val) \in Values
    BY <2>1, Fits, Zenon DEF TypeOK
  <2>3. page' \in [Nodes -> [0..(PageSize - 1) -> Values]]
    BY <1>16, <2>1, <2>2, Zenon DEF WriteCell, TypeOK
  <2> QED
    BY <1>16, <2>3, IdentityAssumption, Zenon DEF WriteCell, Found, To, TypeOK, locks, Pcs
<1>17. ASSUME NEW g \in Agents, Unlock(g) PROVE TypeOK'
  <2>1. holder' \in [Mutexes -> Cores \cup {None}] /\ memMutex' \in [Cores -> Agents \cup {None}]
    BY <1>17, Zenon DEF Unlock, TypeOK
  <2>2. /\ pc' \in [Agents -> Pcs]
        /\ op' \in [Agents -> Requests \cup {None}]
        /\ via' \in [Agents -> Cores \cup {None}]
        /\ acc' \in [Agents -> {"read", "write"}]
        /\ reg' \in [Agents -> Values]
    <3>1. CASE op[g].kind = "update" /\ acc[g] = "read"
      BY <1>17, <3>1, Zenon DEF Unlock, To, TypeOK, Pcs
    <3>2. CASE op[g].kind = "update" /\ acc[g] # "read"
      BY <1>17, <3>2, Zenon DEF Unlock, To, TypeOK, Pcs
    <3>3. CASE op[g].kind # "update"
      <4>1. Idle(g)
        BY <1>17, <3>3, Zenon DEF Unlock
      <4>2. 0 \in Values
        BY Fits, Zenon
      <4> QED
        BY <4>1, <4>2, Zenon DEF Idle, To, TypeOK, Pcs
    <3> QED
      BY <3>1, <3>2, <3>3, Zenon
  <2> QED
    BY <1>17, <2>1, <2>2, Zenon DEF Unlock, TypeOK, tree, walk
<1> QED
  BY <1>1, <1>2, <1>3, <1>4, <1>5, <1>6, <1>7, <1>8, <1>9, <1>10, <1>11, <1>12, <1>13, <1>14, <1>15, <1>16, <1>17, Zenon DEF Next, Own, Access

-----------------------------------------------------------------------------
(* The tree                                                                 *)

TreeVars == <<live, level, slot, page, spans, new>>

\* The steps that leave the tree alone.
LEMMA TreeSteps ==
    ASSUME [Next]_vars
    PROVE  \/ reset
           \/ \E g \in Agents : NewChild(g) \/ CompareExchange(g) \/ WriteCell(g)
           \/ UNCHANGED TreeVars
<1> USE DEF TreeVars, tree, walk
<1>1. ASSUME NEW c \in Cores, Call(c) \/ Throw(c) \/ Own(c) PROVE UNCHANGED TreeVars
  BY <1>1, Zenon DEF Call, Throw, Own, LockAtomicInstr, GetMutex, NoMutex, LockMemory, Leave
<1>2. ASSUME NEW g \in Agents, AdlSimLock(g) \/ Load(g) \/ ReadCell(g) \/ Unlock(g) PROVE UNCHANGED TreeVars
  BY <1>2, Zenon DEF AdlSimLock, Load, ReadCell, Found, Unlock
<1>3. CASE UserCall \/ UNCHANGED vars
  BY <1>3, Zenon DEF UserCall, vars
<1> QED
  BY <1>1, <1>2, <1>3, Zenon DEF Next, Access

\* What making a node comes to: only that it exists, and its level, are new.
LEMMA NewChildIs ==
    ASSUME Inv, NEW g \in Agents, NewChild(g)
    PROVE  \E n \in Nodes \ live :
              /\ n # Root
              /\ OutsideTree(n)
              /\ ~InHand(n)
              /\ new[g] = None
              /\ new' = [new EXCEPT ![g] = n]
              /\ live' = live \cup {n}
              /\ level' = [level EXCEPT ![n] = level[cur[g]] - 1]
              /\ UNCHANGED <<slot, page, spans, cur, op>>
              /\ pc' = [pc EXCEPT ![g] = "cas"]
              /\ pc[g] = "walk"
              /\ level[cur[g]] > 0
<1> DEFINE n == CHOOSE m \in Nodes : m \notin live
<1>1. n \in Nodes /\ n \notin live
  BY Zenon DEF NewChild
<1>2. /\ new' = [new EXCEPT ![g] = n]
      /\ live' = live \cup {n}
      /\ level' = [level EXCEPT ![n] = level[cur[g]] - 1]
      /\ slot' = [slot EXCEPT ![n] = EmptyNode]
      /\ page' = [page EXCEPT ![n] = EmptyPage]
      /\ UNCHANGED <<spans, cur, op>>
      /\ pc' = [pc EXCEPT ![g] = "cas"]
      /\ pc[g] = "walk"
      /\ level[cur[g]] > 0
  BY Zenon DEF NewChild, To
<1> HIDE DEF n
<1>3. OutsideTree(n) /\ n # Root /\ ~InHand(n)
  BY <1>1, Zenon DEF Inv, TreeInv
<1>4. UNCHANGED <<slot, page>>
  BY <1>1, <1>2, <1>3, Zenon DEF OutsideTree, Inv, TypeOK
<1>5. new[g] = None
  BY <1>2, Zenon DEF Inv, WalkInv
<1> QED
  BY <1>1, <1>2, <1>3, <1>4, <1>5, Zenon

LEMMA NewChildTree ==
    ASSUME Inv, NEW g \in Agents, NewChild(g)
    PROVE  TreeInv' /\ Apart' /\ Together'
<1>1. PICK n \in Nodes \ live :
              /\ n # Root
              /\ OutsideTree(n)
              /\ ~InHand(n)
              /\ new[g] = None
              /\ new' = [new EXCEPT ![g] = n]
              /\ live' = live \cup {n}
              /\ level' = [level EXCEPT ![n] = level[cur[g]] - 1]
              /\ UNCHANGED <<slot, page, spans>>
  BY NewChildIs, Zenon
<1> USE DEF Inv
<1>2. \A m \in Nodes : InHand(m)' <=> InHand(m) \/ m = n
  BY <1>1, IdentityAssumption DEF InHand, TypeOK
<1>3. \A m \in Nodes : OutsideTree(m)' <=> OutsideTree(m)
  BY <1>1, Zenon DEF OutsideTree, EmptyNode, EmptyPage
<1>4. \A m \in Nodes : m # n => level'[m] = level[m]
  BY <1>1, Zenon DEF TypeOK
<1>5. \A i \in Slots : slot[n][i] = None
  BY <1>1, Zenon DEF OutsideTree, EmptyNode, Slots
<1>6. TreeInv'
  <2>1. Root \in live' /\ level'[Root] = Top /\ spans'[Root] = Addrs /\ ~InHand(Root)'
    BY <1>1, <1>2, <1>4, IdentityAssumption, Zenon DEF TreeInv
  <2>2. \A m \in Nodes \ live' : OutsideTree(m)'
    BY <1>1, <1>3, Zenon DEF TreeInv
  <2>3. \A m \in Nodes : InHand(m)' => m \in live' /\ OutsideTree(m)'
    BY <1>1, <1>2, <1>3 DEF TreeInv
  <2>4. ASSUME NEW m \in Nodes, NEW i \in Slots, slot[m][i] # None
        PROVE  /\ slot[m][i] \in live' \ {Root}
               /\ ~InHand(slot[m][i])'
               /\ level'[m] > 0
               /\ level'[slot[m][i]] = level'[m] - 1
               /\ spans[slot[m][i]] = Through(m, i)'
    <3>1. /\ slot[m][i] \in live \ {Root}
          /\ ~InHand(slot[m][i])
          /\ level[m] > 0
          /\ level[slot[m][i]] = level[m] - 1
          /\ spans[slot[m][i]] = Through(m, i)
      BY <2>4, Zenon DEF TreeInv
    <3>2. m # n /\ slot[m][i] # n /\ slot[m][i] \in Nodes
      BY <1>1, <1>5, <2>4, <3>1, Zenon DEF TypeOK
    <3>3. level'[m] = level[m] /\ level'[slot[m][i]] = level[slot[m][i]] /\ ~InHand(slot[m][i])'
      BY <1>1, <1>2, <1>4, <3>1, <3>2, Zenon DEF InHand
    <3>4. Through(m, i)' = Through(m, i)
      BY <1>1, <3>3, Zenon DEF Through
    <3> QED
      BY <1>1, <3>1, <3>3, <3>4, Zenon
  <2>5. \A m \in live' \ {Root} : InHand(m)' \/ \E k \in live', i \in Slots : slot'[k][i] = m
    BY <1>1, <1>2 DEF TreeInv, TypeOK
  <2>6. \A h, k \in Agents : new'[h] = new'[k] /\ new'[h] # None => h = k
    BY <1>1, Zenon DEF TreeInv, TypeOK, InHand
  <2>7. \A m, k \in Nodes, i, j \in Slots : slot'[m][i] = slot'[k][j] /\ slot'[m][i] # None => m = k /\ i = j
    BY <1>1 DEF TreeInv
  <2> QED
    BY <1>1, <2>1, <2>2, <2>3, <2>4, <2>5, <2>6, <2>7 DEF TreeInv
<1>7. Apart'
  BY <1>1, <1>4, Zenon DEF Apart, OutsideTree
<1>8. Together'
  BY <1>1, <1>4 DEF Together, OutsideTree
<1> QED
  BY <1>6, <1>7, <1>8, Zenon

\* The agent that exchanges: its node is in nobody else's hand and no slot, and the
\* place it is for is one of a node in the tree.
LEMMA Exchanging ==
    ASSUME Inv, NEW g \in Agents, pc[g] = "cas"
    PROVE  /\ new[g] \in live \ {Root}
           /\ OutsideTree(new[g])
           /\ \A h \in Agents : new[h] = new[g] => h = g
           /\ \A k \in Nodes, i \in Slots : slot[k][i] # new[g]
           /\ cur[g] \in live /\ cur[g] # new[g] /\ op[g].addr \in spans[cur[g]]
           /\ index(g) \in Slots
           /\ level[cur[g]] \in 1..Top
           /\ level[new[g]] = level[cur[g]] - 1
<1> USE DEF Inv
<1>1. new[g] \in Nodes /\ level[cur[g]] > 0 /\ level[new[g]] = level[cur[g]] - 1
  BY Zenon DEF WalkInv, TypeOK
<1>2. InHand(new[g])
  BY Zenon DEF InHand
<1>3. new[g] \in live \ {Root} /\ OutsideTree(new[g])
  BY <1>1, <1>2, Zenon DEF TreeInv
<1>4. \A h \in Agents : new[h] = new[g] => h = g
  BY <1>1, IdentityAssumption, Zenon DEF TreeInv
<1>5. \A k \in Nodes, i \in Slots : slot[k][i] # new[g]
  <2> SUFFICES ASSUME NEW k \in Nodes, NEW i \in Slots, slot[k][i] = new[g] PROVE FALSE
    BY Zenon
  <2>1. slot[k][i] # None
    BY <1>1, IdentityAssumption, Zenon
  <2>2. ~InHand(slot[k][i])
    BY <2>1, Zenon DEF TreeInv
  <2> QED
    BY <1>2, <2>2, Zenon
<1>6. cur[g] \in live /\ op[g].addr \in spans[cur[g]]
  BY Zenon DEF WalkInv
<1>7. cur[g] # new[g]
  BY <1>3, <1>6, Zenon DEF OutsideTree
<1>8. index(g) \in Slots /\ level[cur[g]] \in 1..Top
  BY <1>1, Way, Fits
<1> QED
  BY <1>1, <1>3, <1>4, <1>5, <1>6, <1>7, <1>8, Zenon

\* Nobody in the tree has an address that leads through an empty slot.
LEMMA NoneBelow ==
    ASSUME Inv, NEW m \in live, NEW i \in Slots, level[m] \in 1..Top, slot[m][i] = None,
           NEW n \in Nodes, level[n] = level[m] - 1
    PROVE  spans[n] \cap Through(m, i) = {}
<1> USE DEF Inv
<1> SUFFICES ASSUME NEW a \in spans[n], a \in spans[m], Index(a, level[m]) = i PROVE FALSE
  BY Zenon DEF Through
<1>1. n \in live /\ ~InHand(n)
  BY Zenon DEF TreeInv, OutsideTree
<1>2. n # Root
  BY Fits DEF TreeInv
<1>3. PICK k \in live, j \in Slots : slot[k][j] = n
  BY <1>1, <1>2, Zenon DEF TreeInv
<1>4. k \in Nodes /\ m \in Nodes /\ level[k] \in 0..Top /\ level[m] \in 0..Top /\ slot[k][j] # None
  BY <1>3, IdentityAssumption, Zenon DEF TypeOK
<1>5. level[n] = level[k] - 1 /\ spans[n] = Through(k, j)
  BY <1>3, <1>4 DEF TreeInv
<1>6. level[k] = level[m] /\ a \in spans[k] /\ Index(a, level[k]) = j
  BY <1>4, <1>5, Fits DEF Through
<1>7. k = m
  BY <1>4, <1>6, Zenon DEF Apart
<1> QED
  BY <1>3, <1>4, <1>6, <1>7, Zenon

LEMMA InstallTree ==
    ASSUME Inv, NEW g \in Agents, CompareExchange(g), next(g) = None, Install(g)
    PROVE  TreeInv' /\ Apart' /\ Together'
<1> DEFINE n == new[g]
           m == cur[g]
           i == index(g)
<1>1. /\ n \in live \ {Root}
      /\ OutsideTree(n)
      /\ \A h \in Agents : new[h] = n => h = g
      /\ \A k \in Nodes, j \in Slots : slot[k][j] # n
      /\ m \in live /\ m # n
      /\ i \in Slots
      /\ level[m] \in 1..Top
      /\ level[n] = level[m] - 1
  BY Exchanging, Zenon DEF CompareExchange
<1>2. /\ slot' = [slot EXCEPT ![m][i] = n]
      /\ spans' = [spans EXCEPT ![n] = Through(m, i)]
      /\ new' = [new EXCEPT ![g] = None]
      /\ UNCHANGED <<live, level, page>>
      /\ slot[m][i] = None
  BY Zenon DEF CompareExchange, Install, next
<1>3. n \in Nodes /\ m \in Nodes /\ n # None
  BY <1>1, IdentityAssumption DEF Inv, TypeOK
<1> USE DEF Inv
<1> HIDE DEF n, m, i
<1>4. \A k \in Nodes : InHand(k)' <=> InHand(k) /\ k # n
  <2>1. new[g] = n
    BY Zenon DEF n
  <2> QED
    BY <1>1, <1>2, <1>3, <2>1, IdentityAssumption, Zenon DEF InHand, TypeOK
<1>5. \A k \in Nodes : k # n => spans'[k] = spans[k]
  BY <1>2, <1>3, Zenon DEF TypeOK
<1>6. spans'[n] = Through(m, i)
  BY <1>2, <1>3, Zenon DEF TypeOK
<1>7. slot'[m][i] = n
  BY <1>1, <1>2, <1>3, Zenon DEF TypeOK, Slots
<1>8. \A k \in Nodes, j \in Slots : <<k, j>> # <<m, i>> => slot'[k][j] = slot[k][j]
  BY <1>1, <1>2, <1>3, Zenon DEF TypeOK, Slots
<1>9. \A k \in Nodes : k # m => slot'[k] = slot[k]
  BY <1>2, <1>3, Zenon DEF TypeOK
<1>10. ~OutsideTree(m) /\ ~InHand(m)
  <2>1. op[g].addr \in spans[m]
    BY Exchanging, Zenon DEF CompareExchange, m
  <2> QED
    BY <1>3, <2>1, Zenon DEF OutsideTree, TreeInv
<1>11. TreeInv'
  <2>1. Root \in live' /\ level'[Root] = Top /\ spans'[Root] = Addrs /\ ~InHand(Root)'
    BY <1>1, <1>2, <1>4, <1>5, IdentityAssumption, Zenon DEF TreeInv
  <2>2. \A k \in Nodes : k # n /\ k # m /\ OutsideTree(k) => OutsideTree(k)'
    BY <1>2, <1>5, <1>9, Zenon DEF OutsideTree, EmptyNode, EmptyPage
  <2>3. \A k \in Nodes \ live' : OutsideTree(k)'
    BY <1>1, <1>2, <2>2, Zenon DEF TreeInv
  <2>4. \A k \in Nodes : InHand(k)' => k \in live' /\ OutsideTree(k)'
    BY <1>2, <1>4, <1>10, <2>2 DEF TreeInv
  <2>5. ASSUME NEW k \in Nodes, NEW j \in Slots, slot'[k][j] # None
        PROVE  /\ slot'[k][j] \in live' \ {Root}
               /\ ~InHand(slot[k][j])'
               /\ level'[k] > 0
               /\ level'[slot'[k][j]] = level'[k] - 1
               /\ spans'[slot'[k][j]] = Through(k, j)'
    <3>1. CASE k = m /\ j = i
      <4>1. Through(k, j)' = Through(m, i)
        BY <1>1, <1>2, <1>3, <1>5, <3>1, Zenon DEF Through
      <4>2. \A h \in Agents : new'[h] # n
        BY <1>1, <1>2, <1>3, Zenon DEF TypeOK
      <4>3. ~InHand(slot[k][j])'
        BY <1>7, <3>1, <4>2, Zenon DEF InHand
      <4> QED
        BY <1>1, <1>2, <1>6, <1>7, <3>1, <4>1, <4>3
    <3>2. CASE ~(k = m /\ j = i)
      <4> DEFINE d == slot[k][j]
      <4>1. slot'[k][j] = d /\ d # None
        BY <1>8, <2>5, <3>2, Zenon
      <4>2. /\ d \in live \ {Root}
            /\ ~InHand(d)
            /\ level[k] > 0
            /\ level[d] = level[k] - 1
            /\ spans[d] = Through(k, j)
        BY <4>1, Zenon DEF TreeInv
      <4>3. d # n /\ d \in Nodes
        BY <1>1, <4>2, Zenon DEF TypeOK
      <4> HIDE DEF d
      <4>4. k # n
        <5>1. \A l \in Slots : slot[n][l] = None
          BY <1>1, Zenon DEF OutsideTree, EmptyNode, Slots
        <5> QED
          BY <4>1, <5>1, Zenon DEF d
      <4>5. Through(k, j)' = Through(k, j)
        BY <1>2, <1>5, <4>4, Zenon DEF Through
      <4>6. \A h \in Agents : new'[h] # d
        BY <1>2, <4>2, <4>3, IdentityAssumption, Zenon DEF InHand, TypeOK
      <4>7. ~InHand(slot[k][j])'
        BY <4>1, <4>6, Zenon DEF InHand
      <4> QED
        BY <1>2, <1>5, <4>1, <4>2, <4>3, <4>5, <4>7, Zenon
    <3> QED
      BY <3>1, <3>2, Zenon
  <2>6. \A k \in live' \ {Root} : InHand(k)' \/ \E p \in live', j \in Slots : slot'[p][j] = k
    <3> SUFFICES ASSUME NEW k \in live \ {Root}, ~InHand(k)' PROVE \E p \in live, j \in Slots : slot'[p][j] = k
      BY <1>2, Zenon
    <3>1. CASE k = n
      BY <1>1, <1>7, <3>1, Zenon
    <3>2. CASE k # n
      <4>1. k \in Nodes
        BY Zenon DEF TypeOK
      <4>2. PICK p \in live, j \in Slots : slot[p][j] = k
        BY <1>4, <3>2, <4>1, Zenon DEF TreeInv
      <4>3. p \in Nodes /\ <<p, j>> # <<m, i>>
        BY <1>2, <4>1, <4>2, IdentityAssumption, Zenon DEF TypeOK
      <4> QED
        BY <1>8, <4>2, <4>3, Zenon
    <3> QED
      BY <3>1, <3>2, Zenon
  <2>7. \A h, k \in Agents : new'[h] = new'[k] /\ new'[h] # None => h = k
    BY <1>2, Zenon DEF TreeInv, TypeOK
  <2>8. ASSUME NEW p \in Nodes, NEW k \in Nodes, NEW j \in Slots, NEW l \in Slots,
               slot'[p][j] = slot'[k][l], slot'[p][j] # None
        PROVE  p = k /\ j = l
    <3>1. CASE p = m /\ j = i /\ ~(k = m /\ l = i)
      <4>1. slot[k][l] = n
        BY <1>7, <1>8, <2>8, <3>1, Zenon
      <4> QED
        BY <1>1, <4>1, Zenon
    <3>2. CASE k = m /\ l = i /\ ~(p = m /\ j = i)
      <4>1. slot[p][j] = n
        BY <1>7, <1>8, <2>8, <3>2, Zenon
      <4> QED
        BY <1>1, <4>1, Zenon
    <3>3. CASE ~(p = m /\ j = i) /\ ~(k = m /\ l = i)
      <4>1. slot[p][j] = slot[k][l] /\ slot[p][j] # None
        BY <1>8, <2>8, <3>3, Zenon
      <4> QED
        BY <4>1 DEF TreeInv
    <3> QED
      BY <3>1, <3>2, <3>3, Zenon
  <2> QED
    BY <2>1, <2>3, <2>4, <2>5, <2>6, <2>7, <2>8 DEF TreeInv
<1>12. Apart'
  <2> SUFFICES ASSUME NEW k \in Nodes, NEW p \in Nodes, level[k] = level[p], spans'[k] \cap spans'[p] # {}
               PROVE  k = p
    BY <1>2, Zenon DEF Apart
  <2>1. \A q \in Nodes : level[q] = level[n] => spans[q] \cap Through(m, i) = {}
    BY <1>1, <1>2, NoneBelow, Zenon
  <2>2. CASE k # n /\ p # n
    BY <1>5, <2>2, Zenon DEF Apart
  <2>3. CASE k = n /\ p # n
    BY <1>5, <1>6, <2>1, <2>3, Zenon
  <2>4. CASE k # n /\ p = n
    BY <1>5, <1>6, <2>1, <2>4, Zenon
  <2> QED
    BY <2>2, <2>3, <2>4, Zenon
<1>13. Together'
  <2> SUFFICES ASSUME NEW k \in Nodes, NEW a \in Addrs, NEW b \in Addrs, a \in spans'[k], b \in spans'[k],
                      NEW l \in 1..Top, l > level[k]
               PROVE  Index(a, l) = Index(b, l)
    BY <1>2 DEF Together
  <2>1. CASE k # n
    BY <1>5, <2>1, Zenon DEF Together
  <2>2. CASE k = n
    <3>1. a \in spans[m] /\ b \in spans[m] /\ Index(a, level[m]) = i /\ Index(b, level[m]) = i
      BY <1>6, <2>2, Zenon DEF Through
    <3>2. l = level[m] \/ l > level[m]
      BY <1>1, <2>2
    <3> QED
      BY <1>3, <3>1, <3>2, Zenon DEF Together
  <2> QED
    BY <2>1, <2>2, Zenon
<1> QED
  BY <1>11, <1>12, <1>13, Zenon

LEMMA DiscardTree ==
    ASSUME Inv, NEW g \in Agents, CompareExchange(g), Discard(g)
    PROVE  TreeInv' /\ Apart' /\ Together'
<1> DEFINE n == new[g]
<1>1. /\ n \in live \ {Root}
      /\ OutsideTree(n)
      /\ \A h \in Agents : new[h] = n => h = g
      /\ \A k \in Nodes, j \in Slots : slot[k][j] # n
  BY Exchanging, Zenon DEF CompareExchange
<1>2. /\ live' = live \ {n}
      /\ new' = [new EXCEPT ![g] = None]
      /\ UNCHANGED <<slot, spans, level, page>>
  BY Zenon DEF CompareExchange, Discard
<1>3. new[g] = n
  BY Zenon
<1> USE DEF Inv
<1> HIDE DEF n
<1>4. \A k \in Nodes : InHand(k)' <=> InHand(k) /\ k # n
  BY <1>1, <1>2, <1>3, IdentityAssumption, Zenon DEF InHand, TypeOK
<1>5. \A k \in Nodes : OutsideTree(k)' <=> OutsideTree(k)
  BY <1>2, Zenon DEF OutsideTree, EmptyNode, EmptyPage
<1>6. TreeInv'
  <2>1. Root \in live' /\ level'[Root] = Top /\ spans'[Root] = Addrs /\ ~InHand(Root)'
    BY <1>1, <1>2, <1>4, IdentityAssumption, ZenonT(40) DEF TreeInv
  <2>2. \A k \in Nodes \ live' : OutsideTree(k)'
    BY <1>1, <1>2, <1>5, ZenonT(40) DEF TreeInv
  <2>3. \A k \in Nodes : InHand(k)' => k \in live' /\ OutsideTree(k)'
    BY <1>2, <1>4, <1>5, ZenonT(40) DEF TreeInv
  <2>4. ASSUME NEW k \in Nodes, NEW j \in Slots, slot[k][j] # None
        PROVE  /\ slot'[k][j] \in live' \ {Root}
               /\ ~InHand(slot[k][j])'
               /\ level'[k] > 0
               /\ level'[slot'[k][j]] = level'[k] - 1
               /\ spans'[slot'[k][j]] = Through(k, j)'
    <3>1. /\ slot[k][j] \in live \ {Root}
          /\ ~InHand(slot[k][j])
          /\ level[k] > 0
          /\ level[slot[k][j]] = level[k] - 1
          /\ spans[slot[k][j]] = Through(k, j)
      BY <2>4, Zenon DEF TreeInv
    <3>2. Through(k, j)' = Through(k, j)
      BY <1>2, Zenon DEF Through
    <3>3. ~InHand(slot[k][j])'
      BY <1>2, <2>4, <3>1, IdentityAssumption, Zenon DEF InHand, TypeOK
    <3> QED
      BY <1>1, <1>2, <3>1, <3>2, <3>3, Zenon
  <2>5. \A k \in live' \ {Root} : InHand(k)' \/ \E p \in live', j \in Slots : slot'[p][j] = k
    <3> SUFFICES ASSUME NEW k \in live \ {Root}, k # n, ~InHand(k)' PROVE \E p \in live \ {n}, j \in Slots : slot[p][j] = k
      BY <1>2, Zenon
    <3>1. k \in Nodes /\ k # None
      BY IdentityAssumption, Zenon DEF TypeOK
    <3>2. PICK p \in live, j \in Slots : slot[p][j] = k
      BY <1>4, <3>1, Zenon DEF TreeInv
    <3>3. p # n
      BY <1>1, <3>1, <3>2, Zenon DEF OutsideTree, EmptyNode, Slots
    <3> QED
      BY <3>2, <3>3, Zenon
  <2>6. \A h, k \in Agents : new'[h] = new'[k] /\ new'[h] # None => h = k
    BY <1>2, Zenon DEF TreeInv, TypeOK
  <2>7. \A m, k \in Nodes, i, j \in Slots : slot'[m][i] = slot'[k][j] /\ slot'[m][i] # None => m = k /\ i = j
    BY <1>2, SMTT(30) DEF TreeInv
  <2> QED
    BY <1>2, <2>1, <2>2, <2>3, <2>4, <2>5, <2>6, <2>7, ZenonT(40) DEF TreeInv
<1>7. Apart' /\ Together'
  BY <1>2, Zenon DEF Apart, Together
<1> QED
  BY <1>6, <1>7, Zenon

\* A step that changes no node's place keeps the tree, if what is outside stays empty.
LEMMA TreeKept ==
    ASSUME TreeInv, Apart, Together, UNCHANGED <<live, level, slot, spans, new>>,
           \A k \in Nodes : OutsideTree(k) => OutsideTree(k)'
    PROVE  TreeInv' /\ Apart' /\ Together'
<1>1. \A k : InHand(k)' <=> InHand(k)
  BY Zenon DEF InHand
<1>2. Root \in live' /\ level'[Root] = Top /\ spans'[Root] = Addrs /\ ~InHand(Root)'
  BY <1>1, Zenon DEF TreeInv
<1>3. /\ \A k \in Nodes \ live' : OutsideTree(k)'
      /\ \A k \in Nodes : InHand(k)' => k \in live' /\ OutsideTree(k)'
  BY <1>1, Zenon DEF TreeInv
<1>4. ASSUME NEW m \in Nodes, NEW i \in Slots, slot'[m][i] # None
      PROVE  /\ slot'[m][i] \in live' \ {Root}
             /\ ~InHand(slot[m][i])'
             /\ level'[m] > 0
             /\ level'[slot'[m][i]] = level'[m] - 1
             /\ spans'[slot'[m][i]] = Through(m, i)'
  <2>1. /\ slot[m][i] \in live \ {Root} /\ ~InHand(slot[m][i]) /\ level[m] > 0
        /\ level[slot[m][i]] = level[m] - 1 /\ spans[slot[m][i]] = Through(m, i)
    BY <1>4, Zenon DEF TreeInv
  <2>2. Through(m, i)' = Through(m, i)
    BY Zenon DEF Through
  <2>3. ~InHand(slot[m][i])'
    BY <2>1, Zenon DEF InHand
  <2> QED
    BY <2>1, <2>2, <2>3, Zenon
<1>5. \A m, k \in Nodes, i, j \in Slots : slot'[m][i] = slot'[k][j] /\ slot'[m][i] # None => m = k /\ i = j
  BY SMTT(30) DEF TreeInv
<1>6. \A n \in live' \ {Root} : InHand(n)' \/ \E m \in live', i \in Slots : slot'[m][i] = n
  BY <1>1, Zenon DEF TreeInv
<1>7. \A g, h \in Agents : new'[g] = new'[h] /\ new'[g] # None => g = h
  BY Zenon DEF TreeInv
<1>8. TreeInv'
  BY <1>2, <1>3, <1>4, <1>5, <1>6, <1>7, ZenonT(40) DEF TreeInv
<1>9. Apart' /\ Together'
  BY DEF Apart, Together
<1> QED
  BY <1>8, <1>9, Zenon

LEMMA WriteTree ==
    ASSUME Inv, NEW g \in Agents, WriteCell(g)
    PROVE  TreeInv' /\ Apart' /\ Together'
<1> USE DEF Inv
<1>1. /\ UNCHANGED <<live, level, slot, spans, new>>
      /\ pc[g] = "walk"
  BY Zenon DEF WriteCell, Found
<1>2. cur[g] \in Nodes /\ ~OutsideTree(cur[g])
  BY <1>1, Way, Zenon DEF WalkInv, OutsideTree
<1>3. \A k \in Nodes : k # cur[g] => page'[k] = page[k]
  BY <1>2, ZenonT(40) DEF WriteCell, TypeOK
<1>4. \A k \in Nodes : OutsideTree(k) => OutsideTree(k)'
  BY <1>1, <1>2, <1>3, ZenonT(40) DEF OutsideTree, EmptyNode, EmptyPage
<1> QED
  BY <1>1, <1>4, TreeKept, Zenon

\* A tree that is only its root, as at first and after reset().
Bare ==
    /\ live = {Root}
    /\ level = [n \in Nodes |-> Top]
    /\ slot = [n \in Nodes |-> EmptyNode]
    /\ page = [n \in Nodes |-> EmptyPage]
    /\ spans = [n \in Nodes |-> IF n = Root THEN Addrs ELSE {}]
    /\ new = [g \in Agents |-> None]

LEMMA BareTree == Bare => TreeInv /\ Apart /\ Together
<1> SUFFICES ASSUME Bare PROVE TreeInv /\ Apart /\ Together
  BY Zenon
<1>1. \A n \in Nodes : ~InHand(n)
  BY IdentityAssumption, Zenon DEF Bare, InHand
<1>2. \A n \in Nodes, i \in Slots : slot[n][i] = None
  BY Zenon DEF Bare, EmptyNode, Slots
<1>3. \A n \in Nodes \ live : OutsideTree(n)
  BY Zenon DEF Bare, OutsideTree
<1>4. TreeInv
  BY <1>1, <1>2, <1>3, IdentityAssumption, Zenon DEF TreeInv, Bare
<1>5. Apart
  BY Zenon DEF Apart, Bare
<1>6. Together
  <2>1. \A n \in Nodes, l \in 1..Top : ~(l > level[n])
    BY Fits DEF Bare
  <2> QED
    BY <2>1, Zenon DEF Together
<1> QED
  BY <1>4, <1>5, <1>6, Zenon

LEMMA StepTree == Inv /\ [Next]_vars => TreeInv' /\ Apart' /\ Together'
<1> SUFFICES ASSUME Inv, [Next]_vars PROVE TreeInv' /\ Apart' /\ Together'
  BY Zenon
<1>1. CASE reset
  <2>1. \A g \in Agents : new[g] = None
    BY <1>1, Zenon DEF reset, Inv, WalkInv
  <2>2. new' = [g \in Agents |-> None]
    BY <1>1, <2>1, Zenon DEF reset, walk, Inv, TypeOK
  <2>3. Bare'
    BY <1>1, <2>2, Zenon DEF reset, Bare, EmptyNode, EmptyPage
  <2> QED
    BY <2>3, BareTree, PTL
<1>2. ASSUME NEW g \in Agents, CompareExchange(g) PROVE TreeInv' /\ Apart' /\ Together'
  BY <1>2, InstallTree, DiscardTree, Zenon DEF CompareExchange
<1>3. CASE UNCHANGED TreeVars
  <2>1. \A k \in Nodes : OutsideTree(k) => OutsideTree(k)'
    BY <1>3, Zenon DEF TreeVars, OutsideTree, EmptyNode, EmptyPage
  <2> QED
    BY <1>3, <2>1, TreeKept, Zenon DEF TreeVars, Inv
<1> QED
  BY <1>1, <1>2, <1>3, TreeSteps, NewChildTree, WriteTree, Zenon

=============================================================================
