------------------------- MODULE SharedMemoryProofs -------------------------
(***************************************************************************)
(* The theorems about SharedMemory: that every step keeps what the         *)
(* inductive invariant says of the threads, the locks and the atomic       *)
(* instructions, what it says of the cells, the properties that follow,    *)
(* and that SharedMemory implements AtomicMemory.                          *)
(***************************************************************************)
EXTENDS SharedMemoryInvariant

-----------------------------------------------------------------------------
(* The threads                                                              *)

LEMMA Unlocking ==
    ASSUME TypeOK, NEW g \in Agents, Unlock(g)
    PROVE  /\ pc[g] = "unlock"
           /\ \A h \in Agents \ {g} : /\ pc'[h] = pc[h] /\ op'[h] = op[h] /\ via'[h] = via[h]
                                     /\ acc'[h] = acc[h] /\ reg'[h] = reg[h]
           /\ \/ /\ op[g].kind = "update" /\ acc[g] = "read"
                 /\ pc'[g] = "core" /\ acc'[g] = "write"
                 /\ op'[g] = op[g] /\ via'[g] = via[g] /\ reg'[g] = reg[g]
              \/ /\ op[g].kind = "update" /\ acc[g] = "write"
                 /\ pc'[g] = "leave" /\ acc'[g] = "write"
                 /\ op'[g] = op[g] /\ via'[g] = via[g] /\ reg'[g] = reg[g]
              \/ /\ op[g].kind # "update"
                 /\ pc'[g] = "idle" /\ acc'[g] = "read"
                 /\ op'[g] = None /\ via'[g] = None /\ reg'[g] = 0
  BY DEF TypeOK, Unlock, Idle, To

LEMMA StepRequest == Inv /\ [Next]_vars => RequestInv'
<1> SUFFICES ASSUME Inv, [Next]_vars PROVE RequestInv'
  BY Zenon
<1> USE DEF Inv, RequestInv, TypeOK
<1>1. CASE UNCHANGED vars \/ reset
  BY <1>1 DEF vars, reset
<1>2. CASE UserCall
  BY <1>2, IdentityAssumption, ProgramAssumption DEF UserCall, To, Agents, Requests
<1>3. ASSUME NEW c \in Cores, Call(c) PROVE RequestInv'
  BY <1>3, IdentityAssumption, ProgramAssumption DEF Call, To, Agents, Requests
<1>4. ASSUME NEW c \in Cores, Throw(c) \/ Leave(c) PROVE RequestInv'
  <2>1. c \in Agents /\ c # User /\ Idle(c)
    BY <1>4, IdentityAssumption, Zenon DEF Throw, Leave, Agents
  <2> QED
    BY <2>1 DEF Idle, To
<1>5. ASSUME NEW c \in Cores, LockAtomicInstr(c) \/ GetMutex(c) \/ NoMutex(c) \/ LockMemory(c) PROVE RequestInv'
  BY <1>5, IdentityAssumption DEF LockAtomicInstr, GetMutex, NoMutex, LockMemory, To, Agents
<1>6. ASSUME NEW g \in Agents, AdlSimLock(g) \/ Load(g) \/ NewChild(g) \/ CompareExchange(g) PROVE RequestInv'
  <2>1. /\ pc[g] \in {"core", "walk", "cas"} /\ UNCHANGED <<op, via, acc, reg>>
        /\ \E p \in {"mutex", "walk", "cas"} : pc' = [pc EXCEPT ![g] = p]
        /\ g = User => pc'[g] # "mutex"
    BY <1>6 DEF AdlSimLock, Load, NewChild, CompareExchange, To
  <2> QED
    BY <2>1
<1>7. ASSUME NEW g \in Agents, ReadCell(g) \/ WriteCell(g) PROVE RequestInv'
  <2>1. /\ pc[g] = "walk" /\ pc' = [pc EXCEPT ![g] = "unlock"] /\ UNCHANGED <<op, via, acc>>
        /\ \A h \in Agents \ {g} : reg'[h] = reg[h]
    BY <1>7, SMTT(30) DEF ReadCell, WriteCell, Found, To
  <2> QED
    BY <2>1
<1>8. ASSUME NEW g \in Agents, Unlock(g) PROVE RequestInv'
  <2>1. op[g] \in Program[g] /\ op[g] # None /\ (g = User => op[g].kind # "update")
    BY <1>8, ProgramAssumption, Zenon DEF Unlock
  <2>2. TypeOK /\ RequestInv
    BY Zenon
  <2> QED
    BY <1>8, <2>1, <2>2, Unlocking, SMTT(30)
<1> QED
  BY <1>1, <1>2, <1>3, <1>4, <1>5, <1>6, <1>7, <1>8, Zenon DEF Next, Own, Access

\* What a slot on the way holds is in the tree and on the way.
LEMMA Child ==
    ASSUME Inv, NEW g \in Agents, pc[g] \in {"walk", "cas"}, level[cur[g]] > 0, next(g) # None
    PROVE  next(g) \in live /\ op[g].addr \in spans[next(g)]
<1>1. cur[g] \in Nodes /\ index(g) \in Slots /\ op[g].addr \in spans[cur[g]]
  BY Way, Zenon DEF Inv, WalkInv
<1>2. next(g) \in live /\ spans[next(g)] = Through(cur[g], index(g))
  BY <1>1, Zenon DEF next, Inv, TreeInv
<1> QED
  BY <1>1, <1>2, Zenon DEF Through, index

LEMMA StepWalk == Inv /\ [Next]_vars => WalkInv'
<1> SUFFICES ASSUME Inv, [Next]_vars PROVE WalkInv'
  BY Zenon
<1> USE DEF Inv, TypeOK
<1>1. CASE UNCHANGED vars
  BY <1>1, Zenon DEF vars, tree, walk, WalkInv
<1>2. CASE reset
  BY <1>2, Zenon DEF reset, walk, WalkInv
<1>3. CASE UserCall
  BY <1>3 DEF UserCall, To, tree, walk, WalkInv
<1>4. ASSUME NEW c \in Cores, Call(c) \/ Throw(c) \/ LockAtomicInstr(c) \/ GetMutex(c) \/ Leave(c) PROVE WalkInv'
  <2>1. /\ UNCHANGED <<tree, walk>>
        /\ \A h \in Agents : h # c => pc'[h] = pc[h] /\ op'[h] = op[h]
        /\ pc[c] \notin {"walk", "cas"} /\ pc'[c] \notin {"walk", "cas"}
        /\ c \in Agents
    BY <1>4 DEF Call, Throw, LockAtomicInstr, GetMutex, Leave, Idle, To, Agents
  <2> QED
    BY <2>1 DEF WalkInv, tree, walk
<1>5. ASSUME NEW g \in Agents, Unlock(g) PROVE WalkInv'
  <2>1. /\ UNCHANGED <<tree, walk>>
        /\ \A h \in Agents : h # g => pc'[h] = pc[h] /\ op'[h] = op[h]
        /\ pc[g] \notin {"walk", "cas"} /\ pc'[g] \notin {"walk", "cas"}
    BY <1>5 DEF Unlock, Idle, To
  <2> QED
    BY <2>1 DEF WalkInv, tree, walk
<1>6. ASSUME NEW g \in Agents, UNCHANGED <<tree, walk, op>>, pc[g] \in {"core", "mutex", "lock"},
             pc' = [pc EXCEPT ![g] = "walk"] \/ pc' = [pc EXCEPT ![g] = "mutex"]
      PROVE  WalkInv'
  <2>1. op[g].addr \in Addrs
    BY <1>6, Asked, Zenon
  <2>2. cur[g] = Root /\ Root \in live /\ spans[Root] = Addrs
    BY <1>6, Zenon DEF WalkInv, TreeInv
  <2> QED
    BY <1>6, <2>1, <2>2 DEF WalkInv, tree, walk
<1>7. ASSUME NEW g \in Agents, AdlSimLock(g) PROVE WalkInv'
  BY <1>6, <1>7, Zenon DEF AdlSimLock, To
<1>8. ASSUME NEW c \in Cores, NoMutex(c) \/ LockMemory(c) PROVE WalkInv'
  BY <1>6, <1>8, Zenon DEF NoMutex, LockMemory, To, Agents
<1>9. ASSUME NEW g \in Agents, Load(g) PROVE WalkInv'
  <2>1. next(g) \in live /\ op[g].addr \in spans[next(g)]
    BY <1>9, Child, Zenon DEF Load
  <2> QED
    BY <1>9, <2>1, Zenon DEF Load, Descend, tree, WalkInv
<1>10. ASSUME NEW g \in Agents, NewChild(g) PROVE WalkInv'
  <2>1. PICK n \in Nodes \ live :
              /\ ~InHand(n)
              /\ new' = [new EXCEPT ![g] = n]
              /\ live' = live \cup {n}
              /\ level' = [level EXCEPT ![n] = level[cur[g]] - 1]
              /\ UNCHANGED <<spans, cur, op>>
              /\ pc' = [pc EXCEPT ![g] = "cas"]
              /\ pc[g] = "walk"
              /\ level[cur[g]] > 0
    BY <1>10, NewChildIs, Zenon
  <2>2. \A h \in Agents : new[h] # n
    BY <2>1, Zenon DEF InHand
  <2>3. \A m \in Nodes : m # n => level'[m] = level[m]
    BY <2>1, Zenon
  <2>4. level'[n] = level[cur[g]] - 1 /\ n # None
    BY <2>1, IdentityAssumption, Zenon
  <2>5. cur[g] # n
    BY <2>1, Zenon DEF WalkInv
  <2> SUFFICES ASSUME NEW h \in Agents
               PROVE  /\ pc'[h] \in {"walk", "cas"} => cur[h] \in live' /\ op[h].addr \in spans[cur[h]]
                      /\ pc'[h] \notin {"walk", "cas"} => cur[h] = Root
                      /\ pc'[h] = "cas" => /\ new'[h] # None
                                           /\ level'[cur[h]] > 0
                                           /\ level'[new'[h]] = level'[cur[h]] - 1
                      /\ pc'[h] # "cas" => new'[h] = None
    BY <2>1, Zenon DEF WalkInv
  <2>6. CASE h = g
    BY <2>1, <2>3, <2>4, <2>5, <2>6 DEF WalkInv
  <2>7. CASE h # g
    BY <2>1, <2>2, <2>3, <2>7 DEF WalkInv
  <2> QED
    BY <2>6, <2>7, Zenon
<1>11. ASSUME NEW g \in Agents, CompareExchange(g) PROVE WalkInv'
  <2>1. /\ new[g] \in live \ {Root}
        /\ OutsideTree(new[g])
        /\ cur[g] \in live
        /\ op[g].addr \in spans[cur[g]]
        /\ level[cur[g]] > 0
    BY <1>11, Exchanging DEF CompareExchange
  <2>2. /\ new' = [new EXCEPT ![g] = None]
        /\ pc' = [pc EXCEPT ![g] = "walk"]
        /\ UNCHANGED <<level, op>>
        /\ pc[g] = "cas"
    BY <1>11, Zenon DEF CompareExchange, To
  <2>3. \A h \in Agents : pc[h] \in {"walk", "cas"} => cur[h] # new[g]
    BY <2>1, Zenon DEF WalkInv, OutsideTree
  <2>4. CASE next(g) = None /\ Install(g)
    <3>1. /\ spans' = [spans EXCEPT ![new[g]] = Through(cur[g], index(g))]
          /\ cur' = [cur EXCEPT ![g] = new[g]]
          /\ live' = live
      BY <2>4, Zenon DEF Install, Descend
    <3>2. op[g].addr \in Through(cur[g], index(g))
      BY <2>1, Zenon DEF Through, index
    <3> QED
      BY <2>1, <2>2, <2>3, <3>1, <3>2, Zenon DEF WalkInv
  <2>5. CASE next(g) # None /\ Discard(g)
    <3>1. /\ cur' = [cur EXCEPT ![g] = next(g)]
          /\ live' = live \ {new[g]}
          /\ UNCHANGED spans
      BY <2>5, Zenon DEF Discard, Descend
    <3>2. next(g) \in live /\ op[g].addr \in spans[next(g)]
      BY <2>1, <2>2, <2>5, Child, Zenon
    <3>3. next(g) # new[g]
      BY <2>1, <3>2, Zenon DEF OutsideTree
    <3> QED
      BY <2>1, <2>2, <2>3, <3>1, <3>2, <3>3, Zenon DEF WalkInv
  <2> QED
    BY <1>11, <2>4, <2>5, Zenon DEF CompareExchange
<1>12. ASSUME NEW g \in Agents, ReadCell(g) \/ WriteCell(g) PROVE WalkInv'
  BY <1>12 DEF ReadCell, WriteCell, Found, To, tree, WalkInv
<1> QED
  BY <1>1, <1>2, <1>3, <1>4, <1>5, <1>7, <1>8, <1>9, <1>10, <1>11, <1>12, Zenon DEF Next, Own, Access
-----------------------------------------------------------------------------
(* The locks                                                                *)

LEMMA StepInstr == Inv /\ [Next]_vars => InstrInv'
<1> SUFFICES ASSUME Inv, [Next]_vars PROVE InstrInv'
  BY Zenon
<1> USE DEF Inv, TypeOK
<1>1. CASE UNCHANGED vars \/ reset
  BY <1>1 DEF vars, reset, locks, InstrInv, Updates
<1>2. CASE UserCall
  BY <1>2, IdentityAssumption DEF UserCall, To, locks, InstrInv, Updates
<1>3. ASSUME NEW c \in Cores, Call(c) PROVE InstrInv'
  BY <1>3, IdentityAssumption DEF Call, To, locks, InstrInv, Updates, RequestInv, Agents
<1>4. ASSUME NEW c \in Cores, LockAtomicInstr(c) PROVE InstrInv'
  BY <1>4, IdentityAssumption DEF LockAtomicInstr, To, InstrInv, Updates, RequestInv, Agents
<1>5. ASSUME NEW c \in Cores, Throw(c) PROVE InstrInv'
  BY <1>5, IdentityAssumption DEF Throw, Idle, To, InstrInv, Updates, RequestInv, Agents
<1>6. ASSUME NEW c \in Cores, Leave(c) PROVE InstrInv'
  BY <1>6, IdentityAssumption DEF Leave, Idle, To, InstrInv, Updates, RequestInv, Agents
<1>7. ASSUME NEW c \in Cores, GetMutex(c) \/ NoMutex(c) \/ LockMemory(c) PROVE InstrInv'
  BY <1>7 DEF GetMutex, NoMutex, LockMemory, locks, To, InstrInv, Updates, Agents
<1>8. ASSUME NEW g \in Agents, AdlSimLock(g) \/ Load(g) \/ NewChild(g) \/ CompareExchange(g) PROVE InstrInv'
  BY <1>8 DEF AdlSimLock, Load, NewChild, CompareExchange, locks, To, InstrInv, Updates, Agents
<1>9. ASSUME NEW g \in Agents, ReadCell(g) \/ WriteCell(g) PROVE InstrInv'
  BY <1>9 DEF ReadCell, WriteCell, Found, locks, To, InstrInv, Updates, Agents
<1>10. ASSUME NEW g \in Agents, Unlock(g) PROVE InstrInv'
  <2>1. Cores \subseteq Agents /\ UNCHANGED <<instrMutex, flag>>
    BY <1>10, Zenon DEF Unlock, Agents
  <2>2. op[g] # None
    BY <1>10, Zenon DEF Unlock, RequestInv
  <2>3. \A h \in Agents : Updates(h)' <=> Updates(h)
    BY <1>10, <2>2, Unlocking DEF Updates
  <2> QED
    BY <2>1, <2>3, Zenon DEF InstrInv
<1> QED
  BY <1>1, <1>2, <1>3, <1>4, <1>5, <1>6, <1>7, <1>8, <1>9, <1>10, Zenon DEF Next, Own, Access

LEMMA StepCore == Inv /\ [Next]_vars => CoreInv'
<1> SUFFICES ASSUME Inv, [Next]_vars PROVE CoreInv'
  BY Zenon
<1> USE DEF Inv, TypeOK
<1>1. CASE UNCHANGED vars \/ reset
  BY <1>1 DEF vars, reset, locks, CoreInv
<1>2. CASE UserCall
  BY <1>2 DEF UserCall, To, locks, CoreInv
<1>3. ASSUME NEW c \in Cores, Call(c) PROVE CoreInv'
  BY <1>3 DEF Call, To, locks, CoreInv, Agents
<1>4. ASSUME NEW c \in Cores, Throw(c) PROVE CoreInv'
  <2>1. via[c] = c /\ c \in Agents /\ memMutex[c] = c
    BY <1>4, Zenon DEF Throw, RequestInv, CoreInv, Agents
  <2> QED
    BY <1>4, <2>1, IdentityAssumption DEF Throw, Idle, To, CoreInv
<1>5. ASSUME NEW c \in Cores, Leave(c) PROVE CoreInv'
  BY <1>5, IdentityAssumption DEF Leave, Idle, To, CoreInv, Agents
<1>6. ASSUME NEW c \in Cores, LockAtomicInstr(c) \/ GetMutex(c) \/ NoMutex(c) \/ LockMemory(c) PROVE CoreInv'
  BY <1>6 DEF LockAtomicInstr, GetMutex, NoMutex, LockMemory, locks, To, CoreInv, Agents
<1>7. ASSUME NEW g \in Agents, AdlSimLock(g) PROVE CoreInv'
  <2>1. via[g] \in Cores
    BY <1>7, Zenon DEF AdlSimLock, RequestInv
  <2> QED
    BY <1>7, <2>1, IdentityAssumption DEF AdlSimLock, To, CoreInv
<1>8. ASSUME NEW g \in Agents, Load(g) \/ NewChild(g) \/ CompareExchange(g) PROVE CoreInv'
  BY <1>8 DEF Load, NewChild, CompareExchange, locks, To, CoreInv
<1>9. ASSUME NEW g \in Agents, ReadCell(g) \/ WriteCell(g) PROVE CoreInv'
  BY <1>9 DEF ReadCell, WriteCell, Found, locks, To, CoreInv
<1>10. ASSUME NEW g \in Agents, Unlock(g) PROVE CoreInv'
  <2>1. via[g] \in Cores /\ memMutex[via[g]] = g
    BY <1>10 DEF Unlock, RequestInv, CoreInv
  <2>2. memMutex' = [memMutex EXCEPT ![via[g]] = None]
    BY <1>10, Zenon DEF Unlock
  <2>3. /\ \A h \in Agents \ {g} : via'[h] = via[h] /\ pc'[h] = pc[h]
        /\ pc'[g] \in {"core", "leave", "idle"}
    BY <1>10, Unlocking
  <2>4. SUFFICES ASSUME NEW c \in Cores, NEW h \in Agents
                 PROVE  memMutex'[c] = h <=>
                          via'[h] = c /\ pc'[h] \in {"mutex", "lock", "walk", "cas", "unlock"}
    BY Zenon DEF CoreInv
  <2>5. memMutex[c] = h <=> via[h] = c /\ pc[h] \in {"mutex", "lock", "walk", "cas", "unlock"}
    BY Zenon DEF CoreInv
  <2>6. CASE c = via[g]
    BY <2>1, <2>2, <2>3, <2>5, <2>6, IdentityAssumption
  <2>7. CASE c # via[g]
    <3>1. memMutex'[c] = memMutex[c]
      BY <2>2, <2>7, Zenon
    <3>2. h = g => memMutex[c] # h
      BY <2>5, <2>7, Zenon
    <3> QED
      BY <2>3, <2>5, <3>1, <3>2, Zenon
  <2> QED
    BY <2>6, <2>7, Zenon
<1> QED
  BY <1>1, <1>2, <1>3, <1>4, <1>5, <1>6, <1>7, <1>8, <1>9, <1>10, Zenon DEF Next, Own, Access

\* Both hashes have the mutex of the key afterwards; if the shared one had none, it
\* is a mutex that no other key has.
LEMMA Getting ==
    ASSUME Inv, NEW c \in Cores, GetMutex(c)
    PROVE  /\ key(c) \in Keys
           /\ \E x \in Mutexes :
                 /\ private' = [private EXCEPT ![c][key(c)] = x]
                 /\ shared' = [shared EXCEPT ![key(c)] = x]
                 /\ \/ shared[key(c)] = x
                    \/ shared[key(c)] = None /\ \A k \in Keys : shared[k] # x
<1>1. TypeOK /\ RequestInv /\ HashInv /\ c \in Agents
  BY Zenon DEF Inv, Agents
<1>2. key(c) \in Keys
  BY <1>1, Asked, Fits, Zenon DEF GetMutex, key
<1>3. shared[key(c)] \in Mutexes \cup {None} /\ private[c][key(c)] \in Mutexes \cup {None}
  BY <1>1, <1>2 DEF TypeOK
<1>4. CASE private[c][key(c)] # None
  <2>1. private[c][key(c)] = shared[key(c)]
    BY <1>1, <1>2, <1>4, Zenon DEF HashInv
  <2>2. shared' = [shared EXCEPT ![key(c)] = shared[key(c)]]
    BY <1>1, <1>2, <1>4, Zenon DEF GetMutex, TypeOK
  <2> QED
    BY <1>2, <1>3, <1>4, <2>1, <2>2, Zenon DEF GetMutex, get
<1>5. CASE private[c][key(c)] = None /\ shared[key(c)] # None
  BY <1>2, <1>3, <1>5, Zenon DEF GetMutex, get, Shared
<1>6. CASE private[c][key(c)] = None /\ shared[key(c)] = None
  <2>1. PICK x \in Unused : x = CHOOSE y \in Unused : TRUE
    BY <1>6, Zenon DEF GetMutex
  <2>2. Shared(key(c)) = x
    BY <1>6, <2>1, Zenon DEF Shared
  <2>3. x \in Mutexes /\ \A k \in Keys : shared[k] # x
    BY Zenon DEF Unused
  <2> QED
    BY <1>2, <1>6, <2>2, <2>3, Zenon DEF GetMutex, get
<1> QED
  BY <1>3, <1>4, <1>5, <1>6, Zenon

LEMMA StepHash == Inv /\ [Next]_vars => HashInv'
<1> SUFFICES ASSUME Inv, [Next]_vars PROVE HashInv'
  BY Zenon
<1>1. TypeOK /\ HashInv /\ InstrInv /\ Cores \subseteq Agents
  BY Zenon DEF Inv, Agents
<1>2. ASSUME UNCHANGED <<shared, private>>,
             NEW c \in Agents,
             \A d \in Cores \ {c} : pc'[d] = pc[d] /\ flag'[d] = flag[d] /\ op'[d] = op[d],
             c \in Cores => \/ pc'[c] # "lock" /\ ~Locked(c)'
                            \/ /\ pc'[c] # "lock" /\ Locked(c)' /\ op'[c] = op[c]
                               /\ pc[c] = "lock" \/ Locked(c)
      PROVE  HashInv'
  <2>1. \A d \in Cores \ {c} : (Locked(d)' <=> Locked(d)) /\ key(d)' = key(d)
    BY <1>2, Zenon DEF Locked, key
  <2>2. \A d \in Cores : pc'[d] = "lock" => flag'[d] \/ d \in LockedMem
    BY <1>1, <1>2, Zenon DEF HashInv
  <2>3. \A d \in Cores : pc'[d] = "lock" \/ Locked(d)' => private'[d][key(d)'] # None
    BY <1>1, <1>2, <2>1 DEF HashInv, key
  <2> QED
    BY <1>1, <1>2, <2>2, <2>3, Zenon DEF HashInv
<1>3. CASE UNCHANGED vars \/ reset
  BY <1>1, <1>3 DEF vars, reset, locks, HashInv, Locked, key
<1>4. CASE UserCall
  <2>1. User \in Agents /\ User \notin Cores
    BY IdentityAssumption, Zenon DEF Agents
  <2> QED
    BY <1>1, <1>2, <1>4, <2>1, Zenon DEF UserCall, To, locks, TypeOK
<1>5. ASSUME NEW c \in Cores, Call(c) PROVE HashInv'
  BY <1>1, <1>2, <1>5 DEF Call, To, locks, TypeOK, Locked
<1>6. ASSUME NEW c \in Cores, Throw(c) \/ Leave(c) PROVE HashInv'
  <2>1. /\ UNCHANGED <<shared, private>> /\ pc'[c] = "idle"
        /\ \A d \in Cores \ {c} : pc'[d] = pc[d] /\ flag'[d] = flag[d] /\ op'[d] = op[d]
    BY <1>1, <1>6 DEF Throw, Leave, Idle, To, TypeOK
  <2> QED
    BY <1>1, <1>2, <2>1, Zenon DEF Locked
<1>7. ASSUME NEW c \in Cores, LockAtomicInstr(c) PROVE HashInv'
  BY <1>1, <1>2, <1>7, Zenon DEF LockAtomicInstr, To, TypeOK, Locked
<1>8. ASSUME NEW c \in Cores, NoMutex(c) \/ LockMemory(c) PROVE HashInv'
  <2>1. /\ UNCHANGED <<shared, private, flag, op>> /\ pc'[c] = "walk"
        /\ \A d \in Cores \ {c} : pc'[d] = pc[d]
        /\ pc[c] = "lock" \/ ~(flag[c] \/ c \in LockedMem)
    BY <1>1, <1>8, Zenon DEF NoMutex, LockMemory, locks, To, TypeOK
  <2> QED
    BY <1>1, <1>2, <2>1, Zenon DEF Locked
<1>9. ASSUME NEW c \in Cores, GetMutex(c) PROVE HashInv'
  <2>1. PICK x \in Mutexes :
            /\ private' = [private EXCEPT ![c][key(c)] = x]
            /\ shared' = [shared EXCEPT ![key(c)] = x]
            /\ \/ shared[key(c)] = x
               \/ shared[key(c)] = None /\ \A k \in Keys : shared[k] # x
    BY <1>9, Getting, Zenon
  <2>2. key(c) \in Keys
    BY <1>9, Getting, Zenon
  <2>3. UNCHANGED <<op, flag>> /\ pc' = [pc EXCEPT ![c] = "lock"]
    BY <1>9, Zenon DEF GetMutex, To
  <2>4. \A d \in Cores : key(d)' = key(d)
    BY <2>3, Zenon DEF key
  <2>5. \A d \in Cores, k \in Keys : private'[d][k] # None => private'[d][k] = shared'[k]
    BY <1>1, <2>1, <2>2 DEF HashInv, TypeOK
  <2>6. \A k, j \in Keys : shared'[k] = shared'[j] /\ shared'[k] # None => k = j
    BY <1>1, <2>1, <2>2 DEF HashInv, TypeOK
  <2>7. ASSUME NEW d \in Cores, pc'[d] = "lock" \/ Locked(d)' PROVE private'[d][key(d)'] # None
    <3>1. CASE d = c
      BY <1>1, <2>1, <2>2, <2>4, <3>1, IdentityAssumption DEF TypeOK
    <3>2. CASE d # c
      <4>1. pc[d] = "lock" \/ Locked(d)
        BY <1>1, <2>3, <2>7, <3>2, Zenon DEF Locked, TypeOK
      <4> QED
        BY <1>1, <2>1, <2>4, <3>2, <4>1, Zenon DEF HashInv, TypeOK
    <3> QED
      BY <3>1, <3>2, Zenon
  <2>8. \A d \in Cores : pc'[d] = "lock" => flag'[d] \/ d \in LockedMem
    BY <1>1, <1>9, <2>3, Zenon DEF HashInv, TypeOK, GetMutex
  <2> QED
    BY <2>5, <2>6, <2>7, <2>8, Zenon DEF HashInv
<1>10. ASSUME NEW g \in Agents, AdlSimLock(g) PROVE HashInv'
  <2>1. g \in Cores => pc'[g] = "mutex"
    BY <1>1, <1>10, IdentityAssumption DEF AdlSimLock, To, TypeOK
  <2> QED
    BY <1>1, <1>2, <1>10, <2>1, Zenon DEF AdlSimLock, To, TypeOK, Locked
<1>11. ASSUME NEW g \in Agents, Load(g) \/ NewChild(g) \/ CompareExchange(g) PROVE HashInv'
  <2>1. UNCHANGED <<locks, op>> /\ pc[g] \in {"walk", "cas"}
    BY <1>11, Zenon DEF Load, NewChild, CompareExchange
  <2>2. pc'[g] \in {"walk", "cas"} /\ \A d \in Agents \ {g} : pc'[d] = pc[d]
    BY <1>1, <1>11, SMTT(30) DEF Load, NewChild, CompareExchange, To, TypeOK
  <2> QED
    BY <1>1, <1>2, <2>1, <2>2, Zenon DEF locks, Locked
<1>12. ASSUME NEW g \in Agents, ReadCell(g) \/ WriteCell(g) PROVE HashInv'
  <2>1. /\ UNCHANGED <<shared, private, flag, op>> /\ pc[g] = "walk" /\ pc'[g] = "unlock"
        /\ \A d \in Agents \ {g} : pc'[d] = pc[d]
    BY <1>1, <1>12, Zenon DEF ReadCell, WriteCell, Found, locks, To, TypeOK
  <2> QED
    BY <1>1, <1>2, <2>1, Zenon DEF Locked
<1>13. ASSUME NEW g \in Agents, Unlock(g) PROVE HashInv'
  <2>1. UNCHANGED <<shared, private, flag>> /\ pc'[g] \in {"core", "leave", "idle"}
    BY <1>1, <1>13, Unlocking, Zenon DEF Unlock
  <2> QED
    BY <1>1, <1>2, <1>13, <2>1, Unlocking DEF Locked
<1> QED
  BY <1>3, <1>4, <1>5, <1>6, <1>7, <1>8, <1>9, <1>10, <1>11, <1>12, <1>13, Zenon DEF Next, Own, Access

LEMMA StepHolder == Inv /\ [Next]_vars => HolderInv'
<1> SUFFICES ASSUME Inv, [Next]_vars PROVE HolderInv'
  BY Zenon
<1>1. TypeOK /\ HashInv /\ HolderInv /\ Cores \subseteq Agents
  BY Zenon DEF Inv, Agents
<1>2. ASSUME UNCHANGED holder,
             \A d \in Cores : Locked(d)' <=> Locked(d),
             \A d \in Cores : Locked(d) => private'[d] = private[d] /\ op'[d] = op[d]
      PROVE  HolderInv'
  BY <1>1, <1>2, SMTT(30) DEF HolderInv, key
<1>3. CASE UNCHANGED vars \/ reset
  BY <1>2, <1>3, Zenon DEF vars, reset, locks, Locked
<1>4. CASE UserCall
  BY <1>1, <1>2, <1>4, IdentityAssumption, SMTT(30) DEF UserCall, To, locks, TypeOK, Locked
<1>5. ASSUME NEW c \in Cores, Call(c) PROVE HolderInv'
  <2>1. /\ UNCHANGED <<private, holder, flag>> /\ pc[c] = "idle" /\ pc'[c] \in {"instr", "core"}
        /\ \A d \in Cores \ {c} : pc'[d] = pc[d] /\ op'[d] = op[d]
    BY <1>1, <1>5, Zenon DEF Call, To, locks, TypeOK
  <2> QED
    BY <1>2, <2>1, Zenon DEF Locked
<1>6. ASSUME NEW c \in Cores, Throw(c) \/ Leave(c) PROVE HolderInv'
  <2>1. /\ UNCHANGED <<private, holder>> /\ pc[c] \in {"mutex", "leave"} /\ pc'[c] = "idle"
        /\ \A d \in Cores \ {c} : pc'[d] = pc[d] /\ flag'[d] = flag[d] /\ op'[d] = op[d]
    BY <1>1, <1>6, SMTT(30) DEF Throw, Leave, Idle, To, TypeOK
  <2> QED
    BY <1>2, <2>1, Zenon DEF Locked
<1>7. ASSUME NEW c \in Cores, LockAtomicInstr(c) \/ NoMutex(c) PROVE HolderInv'
  <2>1. /\ UNCHANGED <<private, holder, op>>
        /\ \A d \in Cores \ {c} : pc'[d] = pc[d] /\ flag'[d] = flag[d]
    BY <1>1, <1>7, Zenon DEF LockAtomicInstr, NoMutex, To, locks, TypeOK
  <2>2. ~Locked(c) /\ ~Locked(c)'
    BY <1>1, <1>7, Zenon DEF LockAtomicInstr, NoMutex, To, locks, TypeOK, Locked
  <2> QED
    BY <1>2, <2>1, <2>2, Zenon DEF Locked
<1>8. ASSUME NEW c \in Cores, GetMutex(c) PROVE HolderInv'
  <2>1. \A d \in Cores : (Locked(d)' <=> Locked(d)) /\ (Locked(d) => d # c)
    BY <1>1, <1>8, Zenon DEF GetMutex, To, TypeOK, Locked
  <2>2. \A d \in Cores \ {c} : private'[d] = private[d]
    BY <1>1, <1>8, Zenon DEF GetMutex, TypeOK
  <2> QED
    BY <1>2, <1>8, <2>1, <2>2, Zenon DEF GetMutex
<1>9. ASSUME NEW c \in Cores, LockMemory(c) PROVE HolderInv'
  <2>1. /\ pc[c] = "lock" /\ pc' = [pc EXCEPT ![c] = "walk"]
        /\ holder[private[c][key(c)]] = None
        /\ holder' = [holder EXCEPT ![private[c][key(c)]] = c]
        /\ UNCHANGED <<private, op, flag>>
    BY <1>9, Zenon DEF LockMemory, To
  <2>2. private[c][key(c)] \in Mutexes
    <3>1. c \in Agents /\ RequestInv /\ pc[c] # "idle"
      BY <1>1, <2>1, Zenon DEF Inv
    <3>2. key(c) \in Keys
      BY <3>1, Asked, Fits, Zenon DEF key
    <3> QED
      BY <1>1, <2>1, <3>2 DEF HashInv, TypeOK
  <2>3. Locked(c)' /\ ~Locked(c) /\ \A d \in Cores \ {c} : Locked(d)' <=> Locked(d)
    BY <1>1, <2>1, Zenon DEF Locked, HashInv, TypeOK
  <2>4. \A d \in Cores : key(d)' = key(d)
    BY <2>1, Zenon DEF key
  <2>5. SUFFICES ASSUME NEW d \in Cores, NEW x \in Mutexes
                 PROVE  holder'[x] = d <=> Locked(d)' /\ private'[d][key(d)'] = x
    BY Zenon DEF HolderInv
  <2>6. holder[x] = d <=> Locked(d) /\ private[d][key(d)] = x
    BY <1>1, Zenon DEF HolderInv
  <2>7. CASE x = private[c][key(c)]
    BY <1>1, <2>1, <2>2, <2>3, <2>4, <2>6, <2>7, IdentityAssumption, SMTT(30) DEF TypeOK
  <2>8. CASE x # private[c][key(c)]
    <3>1. holder'[x] = holder[x]
      BY <1>1, <2>1, <2>8, Zenon DEF TypeOK
    <3> QED
      BY <2>1, <2>3, <2>4, <2>6, <2>8, <3>1, Zenon
  <2> QED
    BY <2>7, <2>8, Zenon
<1>10. ASSUME NEW g \in Agents, AdlSimLock(g) PROVE HolderInv'
  <2>1. /\ UNCHANGED <<private, holder, flag, op>> /\ pc[g] = "core"
        /\ \A d \in Cores \ {g} : pc'[d] = pc[d]
        /\ g \in Cores => pc'[g] = "mutex"
    BY <1>1, <1>10, IdentityAssumption DEF AdlSimLock, To, TypeOK
  <2> QED
    BY <1>2, <2>1, Zenon DEF Locked
<1>11. ASSUME NEW g \in Agents, Load(g) \/ NewChild(g) \/ CompareExchange(g) PROVE HolderInv'
  <2>1. UNCHANGED <<holder, private, flag, op>> /\ (UNCHANGED pc \/ To(g, "cas") \/ To(g, "walk"))
    BY <1>11, Zenon DEF Load, NewChild, CompareExchange, locks
  <2>2. pc[g] \in {"walk", "cas"}
    BY <1>11, Zenon DEF Load, NewChild, CompareExchange
  <2>3. \A d \in Cores : Locked(d)' <=> Locked(d)
    BY <1>1, <2>1, <2>2, Zenon DEF To, TypeOK, Locked
  <2> QED
    BY <1>2, <2>1, <2>3, Zenon
<1>12. ASSUME NEW g \in Agents, ReadCell(g) \/ WriteCell(g) PROVE HolderInv'
  <2>1. UNCHANGED <<holder, private, flag, op>> /\ To(g, "unlock") /\ pc[g] = "walk"
    BY <1>12, Zenon DEF ReadCell, WriteCell, Found, locks
  <2>2. \A d \in Cores : Locked(d)' <=> Locked(d)
    BY <1>1, <2>1, Zenon DEF To, TypeOK, Locked
  <2> QED
    BY <1>2, <2>1, <2>2, Zenon
<1>13. ASSUME NEW g \in Agents, Unlock(g) PROVE HolderInv'
  <2>1. /\ UNCHANGED <<private, flag>> /\ pc'[g] \in {"core", "leave", "idle"}
        /\ \A d \in Agents \ {g} : pc'[d] = pc[d] /\ op'[d] = op[d]
    BY <1>1, <1>13, Unlocking, ZenonT(40) DEF Unlock
  <2>2. ~Locked(g)' /\ \A d \in Cores \ {g} : (Locked(d)' <=> Locked(d)) /\ key(d)' = key(d)
    BY <1>1, <2>1, Zenon DEF Locked, key
  <2>3. \A x \in Mutexes : holder'[x] = IF holder[x] = g THEN None ELSE holder[x]
    BY <1>1, <1>13, IdentityAssumption DEF Unlock, TypeOK
  <2> QED
    <3> SUFFICES ASSUME NEW d \in Cores, NEW x \in Mutexes
                 PROVE  holder'[x] = d <=> Locked(d)' /\ private'[d][key(d)'] = x
      BY Zenon DEF HolderInv
    <3>1. d # None
      BY IdentityAssumption, Zenon DEF Agents
    <3>2. holder[x] = d <=> Locked(d) /\ private[d][key(d)] = x
      BY <1>1, Zenon DEF HolderInv
    <3>3. CASE d = g
      BY <2>2, <2>3, <3>1, <3>3, Zenon
    <3>4. CASE d # g
      <4>1. (Locked(d)' <=> Locked(d)) /\ key(d)' = key(d)
        BY <2>2, <3>4, Zenon
      <4>2. holder'[x] = d <=> holder[x] = d
        BY <2>3, <3>1, <3>4, Zenon
      <4> QED
        BY <2>1, <3>2, <4>1, <4>2, Zenon
    <3> QED
      BY <3>3, <3>4, Zenon
<1> QED
  BY <1>3, <1>4, <1>5, <1>6, <1>7, <1>8, <1>9, <1>10, <1>11, <1>12, <1>13, Zenon DEF Next, Own, Access

-----------------------------------------------------------------------------
(* The cells                                                                *)

\* What is in the one page of an address, if there is one, is in its cell.
CellsOK ==
    /\ Cells = [a \in Addrs |-> Cells[a]]
    /\ \A a \in Addrs, n \in Nodes : n \in Pages(a) => Cells[a] = page[n][pageOffset(a)]
    /\ \A a \in Addrs : (\A n \in Nodes : n \notin Pages(a)) => Cells[a] = 0

LEMMA CellsAre == TypeOK /\ Apart => CellsOK
<1> SUFFICES ASSUME TypeOK, Apart PROVE CellsOK
  BY Zenon
<1>1. Cells = [a \in Addrs |-> Cells[a]]
  BY DEF Cells
<1>2. ASSUME NEW a \in Addrs, NEW n \in Nodes, n \in Pages(a)
      PROVE  Cells[a] = page[n][pageOffset(a)]
  <2>1. PICK m \in Pages(a) : m = CHOOSE k \in Pages(a) : TRUE
    BY <1>2, Zenon
  <2>2. m = n
    BY <1>2, Zenon DEF Pages, TypeOK, Apart
  <2>3. Cells[a] = page[m][pageOffset(a)]
    BY <1>2, <2>1, Zenon DEF Cells
  <2> QED
    BY <2>2, <2>3, Zenon
<1>3. ASSUME NEW a \in Addrs, \A n \in Nodes : n \notin Pages(a)
      PROVE  Cells[a] = 0
  <2>1. Pages(a) = {}
    BY <1>3, Zenon DEF Pages, TypeOK
  <2> QED
    BY <2>1, Zenon DEF Cells
<1> QED
  BY <1>1, <1>2, <1>3, Zenon DEF CellsOK

LEMMA CellsThen == Inv /\ [Next]_vars => CellsOK /\ CellsOK'
<1>1. Inv => TypeOK /\ Apart
  BY Zenon DEF Inv
<1> QED
  BY <1>1, StepType, StepTree, CellsAre, PTL

LEMMA SameCells ==
    ASSUME CellsOK, CellsOK',
           \A a \in Addrs, n \in Nodes : n \in Pages(a)' <=> n \in Pages(a),
           \A a \in Addrs, n \in Nodes : n \in Pages(a) => page'[n][pageOffset(a)] = page[n][pageOffset(a)]
    PROVE  Cells' = Cells
<1>1. ASSUME NEW a \in Addrs PROVE Cells'[a] = Cells[a]
  <2>1. CASE \E n \in Nodes : n \in Pages(a)
    BY <2>1 DEF CellsOK
  <2>2. CASE \A n \in Nodes : n \notin Pages(a)
    BY <2>2, Zenon DEF CellsOK
  <2> QED
    BY <2>1, <2>2, Zenon
<1> QED
  BY <1>1, Zenon DEF CellsOK

\* Making a node, installing it and discarding it change no cell.
LEMMA NewCells ==
    ASSUME Inv, [Next]_vars, NEW g \in Agents, NewChild(g)
    PROVE  Cells' = Cells
<1>1. CellsOK /\ CellsOK'
  BY CellsThen, Zenon
<1>2. PICK n \in Nodes \ live : /\ OutsideTree(n)
                              /\ live' = live \cup {n}
                              /\ level' = [level EXCEPT ![n] = level[cur[g]] - 1]
                              /\ UNCHANGED <<slot, page, spans, cur, op>>
  BY NewChildIs, Zenon
<1>3. \A a \in Addrs, m \in Nodes : m \in Pages(a)' <=> m \in Pages(a)
  BY <1>2, Zenon DEF Pages, OutsideTree, Inv, TypeOK
<1> QED
  BY <1>1, <1>2, <1>3, SameCells, Zenon

LEMMA DiscardCells ==
    ASSUME Inv, [Next]_vars, NEW g \in Agents, CompareExchange(g), next(g) # None, Discard(g)
    PROVE  Cells' = Cells
<1>1. CellsOK /\ CellsOK'
  BY CellsThen, Zenon
<1>2. spans[new[g]] = {}
  BY Exchanging, Zenon DEF CompareExchange, OutsideTree
<1>3. live' = live \ {new[g]} /\ UNCHANGED <<level, page, spans>>
  BY Zenon DEF CompareExchange, Discard
<1>4. \A a \in Addrs, m \in Nodes : m \in Pages(a)' <=> m \in Pages(a)
  BY <1>2, <1>3, Zenon DEF Pages
<1> QED
  BY <1>1, <1>3, <1>4, SameCells, Zenon

LEMMA InstallCells ==
    ASSUME Inv, [Next]_vars, NEW g \in Agents, CompareExchange(g), next(g) = None, Install(g)
    PROVE  Cells' = Cells
<1>1. CellsOK /\ CellsOK'
  BY CellsThen, Zenon
<1>2. /\ new[g] \in live \ {Root} /\ OutsideTree(new[g])
      /\ cur[g] \in live /\ index(g) \in Slots
      /\ level[cur[g]] \in 1..Top /\ level[new[g]] = level[cur[g]] - 1
  BY Exchanging, Zenon DEF CompareExchange
<1>3. /\ spans' = [spans EXCEPT ![new[g]] = Through(cur[g], index(g))]
      /\ slot[cur[g]][index(g)] = None
      /\ UNCHANGED <<live, level, page>>
  BY Zenon DEF CompareExchange, Install, next
<1>4. new[g] \in Nodes /\ live \subseteq Nodes /\ spans \in [Nodes -> SUBSET Addrs]
  BY <1>2, Zenon DEF Inv, TypeOK
<1>5. SUFFICES ASSUME NEW a \in Addrs PROVE Cells'[a] = Cells[a]
  BY <1>1, Zenon DEF CellsOK
<1>6. CASE level[new[g]] = 0 /\ a \in Through(cur[g], index(g))
  <2>1. \A n \in Nodes : n \notin Pages(a)
    <3> SUFFICES ASSUME NEW n \in Nodes, level[n] = 0, a \in spans[n] PROVE FALSE
      BY Zenon DEF Pages
    <3>1. level[n] = level[cur[g]] - 1
      BY <1>2, <1>6, Zenon
    <3>2. spans[n] \cap Through(cur[g], index(g)) = {}
      BY <1>2, <1>3, <3>1, NoneBelow, Zenon
    <3> QED
      BY <1>6, <3>2, Zenon
  <2>2. Cells[a] = 0
    BY <1>1, <2>1, Zenon DEF CellsOK
  <2>3. new[g] \in Pages(a)'
    BY <1>2, <1>3, <1>4, <1>6, Zenon DEF Pages
  <2>4. page'[new[g]][pageOffset(a)] = 0
    BY <1>2, <1>3, Fits, Zenon DEF OutsideTree, EmptyPage
  <2>5. \A n \in Nodes : n \in Pages(a)' => Cells'[a] = page'[n][pageOffset(a)]
    BY <1>1, Zenon DEF CellsOK
  <2> QED
    BY <1>4, <2>2, <2>3, <2>4, <2>5, Zenon
<1>7. CASE ~(level[new[g]] = 0 /\ a \in Through(cur[g], index(g)))
  <2>1. \A n \in Nodes : n \in Pages(a)' <=> n \in Pages(a)
    BY <1>2, <1>3, <1>4, <1>7, Zenon DEF Pages, OutsideTree
  <2>2. CASE \E n \in Nodes : n \in Pages(a)
    BY <1>1, <1>3, <2>1, <2>2 DEF CellsOK
  <2>3. CASE \A n \in Nodes : n \notin Pages(a)
    BY <1>1, <2>1, <2>3, Zenon DEF CellsOK
  <2> QED
    BY <2>2, <2>3, Zenon
<1> QED
  BY <1>6, <1>7, Zenon

Stored(g) == IF op[g].kind = "update" THEN Modify[reg[g]] ELSE op[g].val

\* Writing changes the cell of its address and no other: another address of the page
\* has another offset.
LEMMA WriteCells ==
    ASSUME Inv, [Next]_vars, NEW g \in Agents, WriteCell(g)
    PROVE  Cells' = [Cells EXCEPT ![op[g].addr] = Stored(g)]
<1>1. CellsOK /\ CellsOK'
  BY CellsThen, Zenon
<1>2. /\ page' = [page EXCEPT ![cur[g]][cell(g)] = Stored(g)]
      /\ UNCHANGED <<live, level, spans>>
      /\ pc[g] = "walk" /\ level[cur[g]] = 0
  BY Zenon DEF WriteCell, Stored
<1>3. /\ cur[g] \in live /\ live \subseteq Nodes /\ op[g].addr \in Addrs /\ op[g].addr \in spans[cur[g]]
      /\ page \in [Nodes -> [0..(PageSize - 1) -> Values]]
  BY <1>2, Asked, Zenon DEF Inv, TypeOK, WalkInv
<1>4. \A a \in Addrs, n \in Nodes : n \in Pages(a)' <=> n \in Pages(a)
  BY <1>2, Zenon DEF Pages
<1>5. cur[g] \in Pages(op[g].addr) /\ cell(g) \in 0..(PageSize - 1) /\ cell(g) = pageOffset(op[g].addr)
  BY <1>2, <1>3, Fits, Zenon DEF Pages, cell
<1>6. Cells'[op[g].addr] = Stored(g)
  <2>1. PICK a \in Addrs : a = op[g].addr
    BY <1>3, Zenon
  <2>2. \A b \in Addrs, n \in Nodes : n \in Pages(b)' => Cells'[b] = page'[n][pageOffset(b)]
    BY <1>1, Zenon DEF CellsOK
  <2>3. cur[g] \in Nodes /\ cur[g] \in Pages(a)'
    BY <1>3, <1>4, <1>5, <2>1, Zenon
  <2>4. Cells'[a] = page'[cur[g]][cell(g)]
    BY <1>5, <2>1, <2>2, <2>3, Zenon
  <2> QED
    BY <1>2, <1>3, <1>5, <2>1, <2>3, <2>4, Zenon
<1>7. ASSUME NEW a \in Addrs, a # op[g].addr PROVE Cells'[a] = Cells[a]
  <2>1. CASE \A n \in Nodes : n \notin Pages(a)
    BY <1>1, <1>4, <2>1, Zenon DEF CellsOK
  <2>2. ASSUME NEW n \in Nodes, n \in Pages(a) PROVE page'[n][pageOffset(a)] = page[n][pageOffset(a)]
    <3>1. CASE n # cur[g]
      BY <1>2, <3>1
    <3>2. CASE n = cur[g]
      <4>1. \A l \in 1..Top : l > level[n]
        BY <1>2, <3>2
      <4>2. \A l \in 1..Top : Index(a, l) = Index(op[g].addr, l)
        BY <1>3, <1>5, <2>2, <3>2, <4>1 DEF Inv, Together, Pages
      <4>3. pageOffset(a) # cell(g)
        BY <1>3, <1>5, <1>7, <4>2, CellsAssumption, Zenon
      <4> QED
        BY <1>2, <1>3, <1>5, <3>2, <4>3
    <3> QED
      BY <3>1, <3>2, Zenon
  <2>3. CASE \E n \in Nodes : n \in Pages(a)
    BY <1>1, <1>4, <2>2, <2>3, Zenon DEF CellsOK
  <2> QED
    BY <2>1, <2>3, Zenon
<1> QED
  BY <1>1, <1>3, <1>6, <1>7, Zenon DEF CellsOK

LEMMA BareCells == Bare => Cells = [a \in Addrs |-> 0]
<1> SUFFICES ASSUME Bare, NEW a \in Addrs PROVE Pages(a) = {}
  BY Zenon DEF Cells
<1> QED
  BY Fits, IdentityAssumption, Zenon DEF Bare, Pages

LEMMA ResetCells ==
    ASSUME Inv, reset
    PROVE  Cells' = [a \in Addrs |-> 0]
<1>1. \A g \in Agents : new[g] = None
  BY Zenon DEF Inv, WalkInv, reset
<1>2. Bare'
  BY <1>1, Zenon DEF Bare, reset, walk, Inv, TypeOK
<1>3. (Cells = [a \in Addrs |-> 0])'
  BY <1>2, BareCells, PTL
<1> QED
  BY <1>3, Zenon

LEMMA OtherCells ==
    ASSUME Inv, [Next]_vars, ~reset, \A g \in Agents : ~WriteCell(g)
    PROVE  Cells' = Cells
<1>1. CASE UNCHANGED TreeVars
  BY <1>1 DEF TreeVars, Cells, Pages
<1>2. ASSUME NEW g \in Agents, CompareExchange(g) PROVE Cells' = Cells
  BY <1>2, InstallCells, DiscardCells, Zenon DEF CompareExchange
<1> QED
  BY <1>1, <1>2, NewCells, TreeSteps, Zenon

LEMMA ReadCells ==
    ASSUME Inv, NEW g \in Agents, ReadCell(g)
    PROVE  op[g].addr \in Addrs /\ reg' = [reg EXCEPT ![g] = Cells[op[g].addr]]
<1>1. pc[g] = "walk" /\ level[cur[g]] = 0 /\ reg' = [reg EXCEPT ![g] = page[cur[g]][cell(g)]]
  BY Zenon DEF ReadCell
<1>2. cur[g] \in live /\ live \subseteq Nodes /\ op[g].addr \in Addrs /\ op[g].addr \in spans[cur[g]]
  BY <1>1, Asked, Zenon DEF Inv, TypeOK, WalkInv
<1>3. CellsOK
  BY CellsAre, Zenon DEF Inv
<1>4. Cells[op[g].addr] = page[cur[g]][cell(g)]
  BY <1>1, <1>2, <1>3, Zenon DEF CellsOK, Pages, cell
<1> QED
  BY <1>1, <1>2, <1>4, Zenon

-----------------------------------------------------------------------------
(* Atomic instructions                                                      *)

LEMMA HasReadStep ==
    ASSUME Inv, [Next]_vars, NEW c \in Cores, HasRead(c)'
    PROVE  \/ ReadCell(c)
           \/ HasRead(c) /\ op'[c] = op[c] /\ reg'[c] = reg[c] /\ ~WriteCell(c)
<1> DEFINE Keeps == HasRead(c) /\ op'[c] = op[c] /\ reg'[c] = reg[c]
<1>1. TypeOK /\ RequestInv /\ Cores \subseteq Agents /\ User \notin Cores
  BY IdentityAssumption, Zenon DEF Inv, Agents
<1>2. ASSUME pc'[c] = pc[c], op'[c] = op[c], acc'[c] = acc[c], reg'[c] = reg[c]
      PROVE  Keeps
  BY <1>2, Zenon DEF HasRead, Updates
<1>3. WriteCell(c) => FALSE
  BY <1>1, Zenon DEF WriteCell, Found, To, HasRead, TypeOK
<1> SUFFICES ReadCell(c) \/ Keeps
  BY <1>3, Zenon
<1>4. CASE UNCHANGED vars \/ reset
  BY <1>2, <1>4, Zenon DEF vars, reset
<1>5. CASE UserCall
  BY <1>1, <1>2, <1>5, Zenon DEF UserCall, To, TypeOK
<1>6. ASSUME NEW d \in Cores, d # c, Call(d) \/ Throw(d) \/ Own(d) PROVE Keeps
  BY <1>1, <1>2, <1>6, Zenon DEF Call, Throw, Own, LockAtomicInstr, GetMutex, NoMutex, LockMemory, Leave, Idle, To, TypeOK
<1>7. ASSUME NEW h \in Agents, h # c, AdlSimLock(h) \/ Load(h) \/ NewChild(h) \/ CompareExchange(h) PROVE Keeps
  BY <1>1, <1>2, <1>7, Zenon DEF AdlSimLock, Load, NewChild, CompareExchange, To, TypeOK
<1>8. ASSUME NEW h \in Agents, h # c, ReadCell(h) \/ WriteCell(h) PROVE Keeps
  <2>1. To(h, "unlock") /\ UNCHANGED <<op, acc>>
    BY <1>8, Zenon DEF ReadCell, WriteCell, Found
  <2>2. reg'[c] = reg[c]
    BY <1>1, <1>8, Zenon DEF ReadCell, WriteCell, TypeOK
  <2>3. pc'[c] = pc[c]
    BY <1>1, <1>8, <2>1, Zenon DEF To, TypeOK
  <2> QED
    BY <1>2, <2>1, <2>2, <2>3, Zenon
<1>9. ASSUME NEW h \in Agents, h # c, Unlock(h) PROVE Keeps
  BY <1>1, <1>2, <1>9, Unlocking, ZenonT(40)
<1>10. CASE Call(c) \/ LockAtomicInstr(c)
  <2>1. \/ op'[c].kind # "update"
        \/ pc'[c] = "instr"
        \/ pc'[c] = "core" /\ acc'[c] = "read"
    BY <1>1, <1>10, Zenon DEF Call, LockAtomicInstr, To, TypeOK, RequestInv
  <2> QED
    BY <2>1, Zenon DEF HasRead, Updates
<1>11. CASE Throw(c) \/ Leave(c)
  BY <1>1, <1>11, Zenon DEF Throw, Leave, Idle, To, TypeOK, HasRead, Updates
<1>12. CASE GetMutex(c) \/ NoMutex(c) \/ LockMemory(c)
  BY <1>1, <1>12, Zenon DEF GetMutex, NoMutex, LockMemory, To, TypeOK, HasRead, Updates
<1>13. CASE AdlSimLock(c) \/ Load(c) \/ NewChild(c) \/ CompareExchange(c)
  <2>1. /\ pc[c] \in {"core", "walk", "cas"} /\ pc'[c] \in {"mutex", "walk", "cas"}
        /\ UNCHANGED <<op, acc, reg>>
    BY <1>1, <1>13, Zenon DEF AdlSimLock, Load, NewChild, CompareExchange, To, TypeOK
  <2> QED
    BY <2>1, Zenon DEF HasRead, Updates
<1>14. CASE Unlock(c)
  <2>1. op[c] # None
    BY <1>1, <1>14, Zenon DEF Unlock, RequestInv
  <2> QED
    BY <1>1, <1>14, <2>1, Unlocking, Zenon DEF HasRead, Updates
<1> QED
  BY <1>3, <1>4, <1>5, <1>6, <1>7, <1>8, <1>9, <1>10, <1>11, <1>12, <1>13, <1>14, Zenon DEF Next, Own, Access

\* Between the accesses of c's atomic instruction nobody else writes to its address.
LEMMA OthersWrite ==
    ASSUME Inv, NEW c \in Cores, HasRead(c), NEW g \in Agents, g # c, WriteCell(g)
    PROVE  op[g].addr # op[c].addr
<1>1. RequestInv /\ InstrInv /\ c \in Agents
  BY Zenon DEF Inv, Agents
<1>2. pc[g] = "walk" /\ acc[g] = "write"
  BY Zenon DEF WriteCell
<1>3. Updates(c) /\ op[c] \in Program[c] /\ op[c].kind = "update"
  BY <1>1, Zenon DEF HasRead, Updates, RequestInv
<1>4. op[g] # None /\ op[g] \in Program[g] /\ op[g] \in Requests
  BY <1>1, <1>2, Asked, Zenon DEF RequestInv
<1>5. CASE op[g].kind = "update"
  <2>1. g \in Cores
    BY <1>4, <1>5, ProgramAssumption, Zenon DEF Agents
  <2>2. Updates(g)
    BY <1>2, <1>4, <1>5, Zenon DEF Updates
  <2> QED
    BY <1>1, <1>3, <2>1, <2>2, Zenon DEF InstrInv
<1>6. CASE op[g].kind # "update"
  <2>1. op[g].kind = "write"
    BY <1>1, <1>2, <1>4, <1>6, Zenon DEF RequestInv, Requests
  <2> QED
    BY <1>1, <1>3, <1>4, <2>1, ProgramAssumption, Zenon
<1> QED
  BY <1>5, <1>6, Zenon

LEMMA StepUpdate == Inv /\ [Next]_vars => UpdateInv'
<1> SUFFICES ASSUME Inv, [Next]_vars, NEW c \in Cores, HasRead(c)'
             PROVE  reg'[c] = Cells'[op'[c].addr]
  BY Zenon DEF UpdateInv
<1>1. c \in Agents /\ TypeOK /\ RequestInv /\ UpdateInv
  BY Zenon DEF Inv, Agents
<1>2. CASE reset
  BY <1>1, <1>2, Zenon DEF reset, HasRead, Updates, RequestInv
<1>3. CASE ~reset /\ ReadCell(c)
  <2>1. \A g \in Agents : ~WriteCell(g)
    <3> SUFFICES ASSUME NEW g \in Agents, WriteCell(g) PROVE FALSE
      BY Zenon
    <3>1. pc[c] = "walk" /\ pc'[c] = "unlock" /\ pc' = [pc EXCEPT ![g] = "unlock"] /\ acc[c] = "read" /\ acc[g] = "write"
      BY <1>1, <1>3, Zenon DEF ReadCell, WriteCell, Found, To, TypeOK
    <3> QED
      BY <1>1, <3>1, Zenon DEF TypeOK
  <2>2. Cells' = Cells
    BY <1>3, <2>1, OtherCells, Zenon
  <2>3. reg'[c] = Cells[op[c].addr] /\ op' = op
    BY <1>1, <1>3, ReadCells, Zenon DEF TypeOK, ReadCell
  <2> QED
    BY <2>2, <2>3, Zenon
<1>4. CASE ~reset /\ ~ReadCell(c)
  <2>1. HasRead(c) /\ op'[c] = op[c] /\ reg'[c] = reg[c] /\ ~WriteCell(c)
    BY <1>4, HasReadStep, Zenon
  <2>2. reg[c] = Cells[op[c].addr]
    BY <1>1, <2>1, Zenon DEF UpdateInv
  <2>3. CASE \A g \in Agents : ~WriteCell(g)
    BY <1>4, <2>1, <2>2, <2>3, OtherCells, Zenon
  <2>4. ASSUME NEW g \in Agents, WriteCell(g) PROVE Cells'[op[c].addr] = Cells[op[c].addr]
    <3>1. op[g].addr # op[c].addr
      BY <2>1, <2>4, OthersWrite, Zenon
    <3>2. Cells' = [Cells EXCEPT ![op[g].addr] = Stored(g)]
      BY <2>4, WriteCells, Zenon
    <3> QED
      BY <3>1, <3>2
  <2> QED
    BY <2>1, <2>2, <2>3, <2>4, Zenon
<1> QED
  BY <1>2, <1>3, <1>4, Zenon

-----------------------------------------------------------------------------
(* The invariant                                                            *)

LEMMA InitInv == Init => Inv
<1> SUFFICES ASSUME Init PROVE Inv
  BY Zenon
<1>1. TypeOK
  BY InitType, Zenon
<1>2. TreeInv /\ Apart /\ Together
  BY BareTree, Zenon DEF Init, Bare
<1>3. /\ Cores \subseteq Agents
      /\ \A g \in Agents : pc[g] = "idle" /\ op[g] = None /\ via[g] = None
      /\ \A g \in Agents : acc[g] = "read" /\ cur[g] = Root /\ new[g] = None /\ reg[g] = 0
  BY Zenon DEF Init, Agents
<1>4. /\ instrMutex = None
      /\ \A c \in Cores : flag[c] = FALSE /\ memMutex[c] = None
      /\ \A c \in Cores, k \in Keys : private[c][k] = None
      /\ \A k \in Keys : shared[k] = None
      /\ \A x \in Mutexes : holder[x] = None
  BY Zenon DEF Init
<1>5. WalkInv /\ RequestInv
  BY <1>3, Zenon DEF WalkInv, RequestInv
<1>6. \A c \in Cores : ~Updates(c) /\ ~HasRead(c) /\ ~Locked(c)
  BY <1>3, Zenon DEF Updates, HasRead, Locked
<1>7. InstrInv /\ CoreInv /\ HashInv /\ HolderInv
  BY <1>3, <1>4, <1>6, IdentityAssumption DEF InstrInv, CoreInv, HashInv, HolderInv, Agents
<1>8. UpdateInv
  BY <1>6, Zenon DEF UpdateInv
<1> QED
  BY <1>1, <1>2, <1>5, <1>7, <1>8, Zenon DEF Inv

LEMMA StepInv == Inv /\ [Next]_vars => Inv'
  BY StepType, StepTree, StepWalk, StepRequest, StepInstr, StepCore, StepHash, StepHolder, StepUpdate, Zenon DEF Inv

LEMMA Invariant == Spec => []Inv
  BY InitInv, StepInv, PTL DEF Spec

\* Every variable of the memory, its locks and its threads stays in its domain: in
\* particular Node::get() leads a thread to a node and never to a null pointer, and
\* every mutex that is locked is one of the shared hash.
THEOREM TypeCorrect == Spec => []TypeOK
<1>1. Inv => TypeOK
  BY Zenon DEF Inv
<1> QED
  BY <1>1, Invariant, PTL

\* However many threads race through Node::get(), every node but the root has one
\* owner: a slot of a node in the tree or the new_item of a thread.
THEOREM NodesHeldOnceCorrect == Spec => []NodesHeldOnce
<1>1. Inv => NodesHeldOnce
  <2> SUFFICES ASSUME Inv PROVE NodesHeldOnce
    BY Zenon
  <2> DEFINE Places == live \X (0..(Size - 1))
             Held(s) == slot[s[1]][s[2]]
  <2>1. TreeInv /\ TypeOK
    BY Zenon DEF Inv
  <2>2. ASSUME NEW s \in Places
        PROVE  /\ s[1] \in Nodes /\ s[1] \in live /\ s[2] \in Slots /\ s = <<s[1], s[2]>>
               /\ Held(s) # None => Held(s) \in live \ {Root} /\ ~InHand(Held(s))
    <3>1. s[1] \in Nodes /\ s[1] \in live /\ s[2] \in Slots /\ s = <<s[1], s[2]>>
      BY <2>1, SMTT(30) DEF TypeOK, Slots
    <3> QED
      BY <2>1, <3>1, Zenon DEF TreeInv
  <2>3. \A s, t \in Places : Held(s) = Held(t) /\ Held(s) # None => s = t
    BY <2>1, <2>2 DEF TreeInv
  <2>4. \A g, h \in Agents : new[g] = new[h] /\ new[g] # None => g = h
    BY <2>1, Zenon DEF TreeInv
  <2>5. \A g \in Agents : new[g] # None => \A s \in Places : Held(s) # new[g]
    BY <2>2, Zenon DEF InHand
  <2>6. ASSUME NEW n \in live \ {Root}
        PROVE  n \in ({Held(s) : s \in Places} \cup {new[g] : g \in Agents}) \ {None}
    <3>1. n # None
      BY <2>1, IdentityAssumption, Zenon DEF TypeOK
    <3>2. CASE InHand(n)
      BY <3>1, <3>2, Zenon DEF InHand
    <3>3. ASSUME NEW m \in live, NEW i \in Slots, slot[m][i] = n PROVE n \in {Held(s) : s \in Places}
      <4>1. <<m, i>> \in Places /\ Held(<<m, i>>) = n
        BY <3>3, Zenon DEF Slots
      <4> QED
        BY <4>1, Zenon
    <3> QED
      BY <2>1, <3>1, <3>2, <3>3, Zenon DEF TreeInv
  <2>7. \A g \in Agents : new[g] # None => new[g] \in live \ {Root}
    BY <2>1, Zenon DEF TreeInv, TypeOK, InHand
  <2>8. live \ {Root} = ({Held(s) : s \in Places} \cup {new[g] : g \in Agents}) \ {None}
    BY <2>2, <2>6, <2>7
  <2> QED
    BY <2>3, <2>4, <2>5, <2>8, Zenon DEF NodesHeldOnce
<1> QED
  BY <1>1, Invariant, PTL

\* The hashes of the cores never disagree on the mutex of a key, so that at most one
\* core at a time is within a locked access to addresses of that key.
THEOREM LockedAccessesExcludeCorrect == Spec => []LockedAccessesExclude
<1>1. Inv => LockedAccessesExclude
  <2> SUFFICES ASSUME Inv, NEW c \in Cores, NEW d \in Cores, c # d, Locked(c), Locked(d), key(c) = key(d)
               PROVE  FALSE
    BY Zenon DEF LockedAccessesExclude
  <2>1. TypeOK /\ HashInv /\ HolderInv /\ RequestInv /\ c \in Agents
    BY Zenon DEF Inv, Agents
  <2>2. key(c) \in Keys
    BY <2>1, Asked, Fits, Zenon DEF key, Locked
  <2>3. private[c][key(c)] \in Mutexes /\ private[c][key(c)] = private[d][key(d)]
    BY <2>1, <2>2 DEF HashInv, TypeOK
  <2> QED
    BY <2>1, <2>3 DEF HolderInv
<1> QED
  BY <1>1, Invariant, PTL

-----------------------------------------------------------------------------
(* The memory is an atomic one                                              *)

\* Whether an agent's request has taken effect, and what its read has returned.
Did(g) == pc[g] = "leave" \/ (pc[g] = "unlock" /\ (op[g].kind = "update" => acc[g] = "write"))
ReadBy(g) == IF op[g] # None /\ op[g].kind = "read" THEN reg[g] ELSE 0

Alone(g) ==
    \A h \in Agents \ {g} : pc'[h] = pc[h] /\ op'[h] = op[h] /\ acc'[h] = acc[h] /\ reg'[h] = reg[h]

LEMMA DidStep ==
    ASSUME NEW g \in Agents, Alone(g), NEW b \in BOOLEAN, Did(g)' <=> b
    PROVE  Performed' = [Performed EXCEPT ![g] = b]
<1>1. ASSUME NEW h \in Agents, h # g PROVE Performed'[h] = Performed[h]
  BY <1>1, Zenon DEF Alone, Performed
<1>2. Performed'[g] = b
  BY Zenon DEF Performed, Did
<1>3. Performed = [h \in Agents |-> Performed[h]] /\ Performed' = [h \in Agents |-> Performed'[h]]
  BY Zenon DEF Performed
<1> QED
  BY <1>1, <1>2, <1>3, Zenon

LEMMA ReadStep ==
    ASSUME NEW g \in Agents, Alone(g), NEW v, ReadBy(g)' = v
    PROVE  Read' = [Read EXCEPT ![g] = v]
<1>1. \A h \in Agents \ {g} : Read'[h] = Read[h]
  BY Zenon DEF Alone, Read
<1>2. Read'[g] = v
  BY Zenon DEF Read, ReadBy
<1>3. Read = [h \in Agents |-> Read[h]] /\ Read' = [h \in Agents |-> Read'[h]]
  BY Zenon DEF Read
<1> QED
  BY <1>1, <1>2, <1>3, Zenon

LEMMA Same ==
    ASSUME NEW g \in Agents, Alone(g), Did(g)' <=> Did(g), ReadBy(g)' = ReadBy(g)
    PROVE  Performed' = Performed /\ Read' = Read
<1>1. \A h \in Agents : Performed'[h] = Performed[h]
  BY DEF Alone, Performed, Did
<1>2. \A h \in Agents : Read'[h] = Read[h]
  BY Zenon DEF Alone, Read, ReadBy
<1>3. Performed = [h \in Agents |-> Performed[h]] /\ Performed' = [h \in Agents |-> Performed'[h]]
  BY Zenon DEF Performed
<1>4. Read = [h \in Agents |-> Read[h]] /\ Read' = [h \in Agents |-> Read'[h]]
  BY Zenon DEF Read
<1> QED
  BY <1>1, <1>2, <1>3, <1>4, Zenon

LEMMA Now == \A g \in Agents : Performed[g] = Did(g) /\ Read[g] = ReadBy(g)
  BY ZenonT(40) DEF Performed, Did, Read, ReadBy

LEMMA InitAtomic == Init => Atomic!AInit
<1> SUFFICES ASSUME Init PROVE Atomic!AInit
  BY Zenon
<1>1. Cells = [a \in Addrs |-> 0]
  BY BareCells, Zenon DEF Init, Bare
<1>2. \A g \in Agents : pc[g] = "idle" /\ op[g] = None
  BY Zenon DEF Init
<1>3. Performed = [g \in Agents |-> FALSE]
  BY <1>2, Zenon DEF Performed
<1>4. Read = [g \in Agents |-> 0]
  BY <1>2, Zenon DEF Read
<1> QED
  BY <1>1, <1>3, <1>4, Zenon DEF Atomic!AInit, Init

\* A call, an exception and the end of a request.
LEMMA CallAtomic ==
    ASSUME Inv, [Next]_vars, Cells' = Cells, NEW g \in Agents, NEW r \in Requests, Alone(g),
           pc[g] = "idle", pc'[g] \in {"instr", "core"},
           op' = [op EXCEPT ![g] = r], reg'[g] = reg[g]
    PROVE  Atomic!Call(g)
<1>1. op[g] = None /\ reg[g] = 0 /\ op'[g] = r
  BY Zenon DEF Inv, RequestInv, TypeOK
<1>2. ~Did(g) /\ ~Did(g)' /\ ReadBy(g) = 0 /\ ReadBy(g)' = 0
  BY <1>1, Zenon DEF Did, ReadBy
<1>3. Performed' = Performed /\ Read' = Read
  BY <1>2, Same, Zenon
<1> QED
  BY <1>1, <1>3, ZenonT(40) DEF Atomic!Call

LEMMA ReturnAtomic ==
    ASSUME Inv, Cells' = Cells, NEW g \in Agents, Alone(g),
           pc[g] # "idle", pc'[g] = "idle", op' = [op EXCEPT ![g] = None]
    PROVE  Atomic!Return(g)
<1>1. op[g] # None /\ op'[g] = None
  BY Zenon DEF Inv, RequestInv, TypeOK
<1>2. ~Did(g)' /\ ReadBy(g)' = 0
  BY <1>1, Zenon DEF Did, ReadBy
<1>3. Performed' = [Performed EXCEPT ![g] = FALSE]
  BY <1>2, DidStep, ZenonT(40)
<1>4. Read' = [Read EXCEPT ![g] = 0]
  BY <1>2, ReadStep, Zenon
<1> QED
  BY <1>1, <1>3, <1>4, Zenon DEF Atomic!Return

\* A step between.
LEMMA InnerAtomic ==
    ASSUME Cells' = Cells, NEW g \in Agents, Alone(g),
           UNCHANGED <<op, reg>>, Did(g)' <=> Did(g)
    PROVE  UNCHANGED Atomic!avars
<1>1. ReadBy(g)' = ReadBy(g)
  BY Zenon DEF ReadBy
<1> QED
  BY <1>1, Same, Zenon DEF Atomic!avars

LEMMA ReadAtomic ==
    ASSUME Inv, Cells' = Cells, NEW g \in Agents, ReadCell(g)
    PROVE  Atomic!Perform(g) \/ UNCHANGED Atomic!avars
<1>1. TypeOK /\ RequestInv
  BY Zenon DEF Inv
<1>2. /\ pc[g] = "walk" /\ pc'[g] = "unlock" /\ acc[g] = "read" /\ UNCHANGED <<op, acc>>
      /\ \A h \in Agents \ {g} : pc'[h] = pc[h] /\ reg'[h] = reg[h]
      /\ reg'[g] = Cells[op[g].addr]
  BY <1>1, ReadCells, ZenonT(40) DEF ReadCell, Found, To, TypeOK
<1>3. op[g] # None /\ op[g].kind \in {"read", "update"}
  BY <1>1, <1>2, Asked, Zenon DEF RequestInv, Requests
<1>4. Alone(g) /\ ~Did(g)
  BY <1>2, Zenon DEF Alone, Did
<1>5. CASE op[g].kind = "update"
  <2>1. ~Did(g)' /\ ReadBy(g)' = ReadBy(g)
    BY <1>2, <1>5, Zenon DEF Did, ReadBy
  <2> QED
    BY <1>2, <1>4, <2>1, Same, Zenon DEF Atomic!avars
<1>6. CASE op[g].kind = "read"
  <2>1. Did(g)' /\ ReadBy(g)' = Cells[op[g].addr]
    BY <1>2, <1>3, <1>6, Zenon DEF Did, ReadBy
  <2>2. Performed' = [Performed EXCEPT ![g] = TRUE]
    BY <1>4, <2>1, DidStep, Zenon
  <2>3. Read' = [Read EXCEPT ![g] = Cells[op[g].addr]]
    BY <1>4, <2>1, ReadStep, Zenon
  <2>4. ~Performed[g]
    BY <1>4, Now, Zenon
  <2> QED
    BY <1>2, <1>3, <1>6, <2>2, <2>3, <2>4, Zenon DEF Atomic!Perform
<1> QED
  BY <1>3, <1>5, <1>6, Zenon

LEMMA WriteAtomic ==
    ASSUME Inv, [Next]_vars, NEW g \in Agents, WriteCell(g)
    PROVE  Atomic!Perform(g)
<1>1. TypeOK /\ RequestInv /\ UpdateInv
  BY Zenon DEF Inv
<1>2. /\ pc[g] = "walk" /\ pc'[g] = "unlock" /\ acc[g] = "write" /\ UNCHANGED <<op, acc, reg>>
      /\ \A h \in Agents \ {g} : pc'[h] = pc[h]
  BY <1>1, Zenon DEF WriteCell, Found, To, TypeOK
<1>3. op[g] # None /\ op[g].kind \in {"write", "update"} /\ op[g] \in Program[g]
  BY <1>1, <1>2, Asked, Zenon DEF RequestInv, Requests
<1>4. Alone(g) /\ ~Did(g) /\ Did(g)' /\ ReadBy(g)' = ReadBy(g)
  BY <1>2, ZenonT(40) DEF Alone, Did, ReadBy
<1>5. Performed' = [Performed EXCEPT ![g] = TRUE]
  BY <1>4, DidStep, Zenon
<1>6. Read' = Read
  <2>1. Read' = [Read EXCEPT ![g] = ReadBy(g)]
    BY <1>4, ReadStep, Zenon
  <2>2. Read = [h \in Agents |-> Read[h]]
    BY Zenon DEF Read
  <2> QED
    BY <2>1, <2>2, Now, Zenon
<1>7. ~Performed[g]
  BY <1>4, Now, Zenon
<1>8. Cells' = [Cells EXCEPT ![op[g].addr] = Stored(g)]
  BY WriteCells, Zenon
<1>9. CASE op[g].kind = "write"
  BY <1>2, <1>3, <1>5, <1>6, <1>7, <1>8, <1>9, Zenon DEF Atomic!Perform, Stored
<1>10. CASE op[g].kind = "update"
  <2>1. g \in Cores
    BY <1>3, <1>10, ProgramAssumption, Zenon DEF Agents
  <2>2. HasRead(g)
    BY <1>2, <1>3, <1>10, Zenon DEF HasRead, Updates
  <2>3. reg[g] = Cells[op[g].addr]
    BY <1>1, <2>1, <2>2, Zenon DEF UpdateInv
  <2> QED
    BY <1>2, <1>3, <1>5, <1>6, <1>7, <1>8, <1>10, <2>3, Zenon DEF Atomic!Perform, Stored
<1> QED
  BY <1>3, <1>9, <1>10, Zenon

LEMMA StepAtomic == Inv /\ [Next]_vars => [Atomic!ANext]_(Atomic!avars)
<1> SUFFICES ASSUME Inv, [Next]_vars PROVE Atomic!ANext \/ UNCHANGED Atomic!avars
  BY Zenon
<1>1. TypeOK /\ RequestInv /\ Cores \subseteq Agents
  BY Zenon DEF Inv, Agents
<1>2. CASE reset
  <2>1. \A g \in Agents : op[g] = None
    BY <1>1, <1>2, Zenon DEF reset, RequestInv
  <2>2. UNCHANGED <<pc, op, acc, reg>>
    BY <1>2, Zenon DEF reset
  <2>3. Performed' = Performed /\ Read' = Read
    BY <2>2, Zenon DEF Performed, Read
  <2> QED
    BY <1>2, <2>1, <2>2, <2>3, ResetCells, Zenon DEF Atomic!ANext, Atomic!Clear
<1>3. ASSUME NEW g \in Agents, WriteCell(g) PROVE Atomic!ANext
  BY <1>3, WriteAtomic, Zenon DEF Atomic!ANext
<1>4. SUFFICES ASSUME ~reset, \A g \in Agents : ~WriteCell(g)
               PROVE  Atomic!ANext \/ UNCHANGED Atomic!avars
  BY <1>2, <1>3, Zenon
<1>5. Cells' = Cells
  BY <1>4, OtherCells, Zenon
<1>6. CASE UNCHANGED vars
  BY <1>5, <1>6, Zenon DEF vars, Atomic!avars, Performed, Read
<1>7. CASE UserCall
  <2>1. User \in Agents /\ pc[User] = "idle" /\ pc'[User] = "core" /\ reg' = reg /\ Alone(User)
    BY <1>1, <1>7, Zenon DEF UserCall, To, TypeOK, Agents, Alone
  <2>2. PICK r \in Requests : op' = [op EXCEPT ![User] = r]
    BY <1>7, <2>1, ProgramAssumption, Zenon DEF UserCall
  <2> QED
    BY <1>5, <2>1, <2>2, CallAtomic, ZenonT(40) DEF Atomic!ANext
<1>8. ASSUME NEW c \in Cores, Call(c) PROVE Atomic!ANext
  <2>1. c \in Agents /\ pc[c] = "idle" /\ pc'[c] \in {"instr", "core"} /\ reg' = reg /\ Alone(c)
    BY <1>1, <1>8 DEF Call, To, TypeOK, Alone
  <2>2. PICK r \in Requests : op' = [op EXCEPT ![c] = r]
    BY <1>8, <2>1, ProgramAssumption, Zenon DEF Call
  <2> QED
    BY <1>5, <2>1, <2>2, CallAtomic, ZenonT(40) DEF Atomic!ANext
<1>9. ASSUME NEW c \in Cores, Throw(c) \/ Leave(c) PROVE Atomic!ANext
  <2>1. c \in Agents /\ pc[c] # "idle" /\ Idle(c)
    BY <1>1, <1>9, Zenon DEF Throw, Leave
  <2>2. pc'[c] = "idle" /\ op' = [op EXCEPT ![c] = None] /\ Alone(c)
    BY <1>1, <2>1, Zenon DEF Idle, To, TypeOK, Alone
  <2> QED
    BY <1>5, <2>1, <2>2, ReturnAtomic, Zenon DEF Atomic!ANext
<1>10. ASSUME NEW c \in Cores, LockAtomicInstr(c) \/ GetMutex(c) \/ NoMutex(c) \/ LockMemory(c)
       PROVE  UNCHANGED Atomic!avars
  <2>1. c \in Agents /\ UNCHANGED <<op, acc, reg>> /\ Alone(c)
    BY <1>1, <1>10, Zenon DEF LockAtomicInstr, GetMutex, NoMutex, LockMemory, To, TypeOK, Alone
  <2>2. ~Did(c) /\ ~Did(c)'
    BY <1>1, <1>10, Zenon DEF LockAtomicInstr, GetMutex, NoMutex, LockMemory, To, TypeOK, Did
  <2> QED
    BY <1>5, <2>1, <2>2, InnerAtomic, Zenon
<1>11. ASSUME NEW g \in Agents, AdlSimLock(g) \/ Load(g) \/ NewChild(g) \/ CompareExchange(g)
       PROVE  UNCHANGED Atomic!avars
  <2>1. UNCHANGED <<op, acc, reg>> /\ Alone(g)
    BY <1>1, <1>11, SMTT(30) DEF AdlSimLock, Load, NewChild, CompareExchange, To, TypeOK, Alone
  <2>2. ~Did(g) /\ ~Did(g)'
    BY <1>1, <1>11 DEF AdlSimLock, Load, NewChild, CompareExchange, To, TypeOK, Did
  <2> QED
    BY <1>5, <2>1, <2>2, InnerAtomic, Zenon
<1>12. ASSUME NEW g \in Agents, ReadCell(g) PROVE Atomic!ANext \/ UNCHANGED Atomic!avars
  BY <1>5, <1>12, ReadAtomic, Zenon DEF Atomic!ANext
<1>13. ASSUME NEW g \in Agents, Unlock(g) PROVE Atomic!ANext \/ UNCHANGED Atomic!avars
  <2>1. Alone(g) /\ pc[g] = "unlock"
    BY <1>1, <1>13, Unlocking, Zenon DEF Alone
  <2>2. CASE op[g].kind # "update"
    <3>1. pc'[g] = "idle" /\ op' = [op EXCEPT ![g] = None]
      BY <1>1, <1>13, <2>2, Zenon DEF Unlock, Idle, To, TypeOK
    <3> QED
      BY <1>5, <2>1, <3>1, ReturnAtomic, ZenonT(40) DEF Atomic!ANext
  <2>3. CASE op[g].kind = "update"
    <3>1. UNCHANGED <<op, reg>>
      BY <1>13, <2>3, Zenon DEF Unlock
    <3>2. Did(g)' <=> Did(g)
      BY <1>1, <1>13, <2>3, Unlocking, Zenon DEF Did
    <3> QED
      BY <1>5, <2>1, <3>1, <3>2, InnerAtomic, Zenon
  <2> QED
    BY <2>2, <2>3, Zenon
<1> QED
  BY <1>4, <1>6, <1>7, <1>8, <1>9, <1>10, <1>11, <1>12, <1>13 DEF Next, Own, Access

\* Any number of threads that walk, grow and lock the sparse memory as Node::get(),
\* setMem(), getMem() and the generated accesses do see an atomic memory: each access
\* takes effect once, between its call and its return, and an atomic instruction's
\* read and write are one.
THEOREM MemoryIsAtomic == Spec => IsAtomicMemory
<1>1. Init => Atomic!AInit
  BY InitAtomic, Zenon
<1>2. Inv /\ [Next]_vars => [Atomic!ANext]_(Atomic!avars)
  BY StepAtomic, Zenon
<1> QED
  BY <1>1, <1>2, Invariant, PTL DEF Spec, IsAtomicMemory, Atomic!ASpec
=============================================================================
