---------------------------- MODULE SharedMemory ----------------------------
(***************************************************************************)
(* The memory that the cores of a multi-threaded simulation share          *)
(* (iss/Memory.h with THREAD_SAFE_MEMORY) and the locks that a generated   *)
(* core takes around its accesses (iss/MemoryLocks.h, iss/GenMems.C,       *)
(* iss/GenInstrs.C).                                                       *)
(*                                                                         *)
(* The memory is a tree.  A node of a level above 0 holds pointers to      *)
(* nodes of the next lower level, a node of level 0 is a page of cells.    *)
(* Nodes come into being when an access first needs them: the accessing    *)
(* thread makes one and puts it in its place by compare-and-exchange;      *)
(* if another thread was faster it frees its own.                          *)
(*                                                                         *)
(* Three kinds of locks: the mutex of atomic instructions, one for all     *)
(* cores; a mutex per core, held through each of its accesses and by       *)
(* setMem() and getMem(), which the user's thread calls; and mutexes       *)
(* chosen by address, from a hash shared by all cores, each of which keeps *)
(* the pointers it has got in a hash of its own.                           *)
(***************************************************************************)
EXTENDS Naturals, FiniteSets

CONSTANTS
    Cores,         \* the cores, each simulated by a thread
    User,          \* the thread that calls setMem() and getMem()
    Addrs,         \* the addresses that are accessed
    Program,       \* per agent, the requests it makes
    Levels,        \* MEM_LOOKUP_LEVELS, the levels of the tree with the pages
    Size,          \* pointers in an inner node
    PageSize,      \* cells in a page
    LockPageSize,  \* LockedMutexHash::PageSize
    MaxValue,      \* cells hold 0..MaxValue
    LockedMem,     \* the cores whose model is built with mt_locked_mem
    Nodes,         \* objects the tree is made of: at least one a slot and a thread
    Root,          \* the node that is part of the memory object
    Mutexes,       \* objects of the shared hash
    None

Agents == Cores \cup {User}
Values == 0..MaxValue
Modify == [v \in Values |-> IF v = MaxValue THEN 0 ELSE v + 1]

Top == Levels - 1
Index(a, l) == (a \div (PageSize * Size^(l - 1))) % Size
pageOffset(a) == a % PageSize

\* The key of the mutexes: a & PageMask, what remains of an address when its
\* page number is masked out.
get_page(a) == a % LockPageSize
Keys == {get_page(a) : a \in Addrs}

Requests == [kind : {"read", "write", "update"}, addr : Addrs, val : Values]

ASSUME TreeAssumption ==
    /\ Levels \in Nat /\ Levels >= 2
    /\ Size \in Nat \ {0}
    /\ PageSize \in Nat \ {0}
    /\ LockPageSize \in Nat \ {0}
    /\ MaxValue \in Nat
    /\ Addrs \subseteq Nat
    /\ LockedMem \subseteq Cores

ASSUME IdentityAssumption ==
    /\ Root \in Nodes
    /\ None \notin Nodes \cup Mutexes \cup Agents \cup Requests
    /\ User \notin Cores

\* Only instructions are atomic, and an address that one of them updates is written in
\* no other way: ordering plain stores is left to the simulated software.
ASSUME ProgramAssumption ==
    /\ Program \in [Agents -> SUBSET Requests]
    /\ \A r \in Program[User] : r.kind # "update"
    /\ \A g, h \in Agents : \A r \in Program[g], q \in Program[h] :
          r.kind = "update" /\ q.kind = "write" => r.addr # q.addr

\* The addresses fit the tree: no two of them have the same cell.
ASSUME CellsAssumption ==
    /\ \A a \in Addrs, l \in 1..Top : Index(a, l) \in 0..(Size - 1)
    /\ \A a, b \in Addrs :
          /\ \A l \in 1..Top : Index(a, l) = Index(b, l)
          /\ pageOffset(a) = pageOffset(b)
          => a = b

VARIABLES
    live,    \* the nodes that exist
    level,   \* per node, its level
    slot,    \* per node, its pointers
    page,    \* per node, its cells
    spans,   \* history: per node in the tree, the addresses whose way leads through it
    shared,  \* LockedMutexHash: key to mutex
    private, \* PrivateMutexHash of each core: key to mutex
    holder,  \* who holds each of those mutexes
    memMutex,    \* who holds each core's mutex
    instrMutex,  \* who holds the mutex of atomic instructions
    flag,    \* per core, _atomic_instr_flag
    pc,      \* per agent, where it is
    op,      \* per agent, its request, or None
    via,     \* per agent, the core whose interface it uses
    acc,     \* per agent, the access under way: "read" or "write"
    cur,     \* per agent, the node it has come to
    new,     \* per agent, new_item
    reg      \* per agent, what its request has read

tree == <<live, level, slot, page, spans>>
locks == <<shared, private, holder, memMutex, instrMutex, flag>>
walk == <<cur, new>>
vars == <<tree, locks, pc, op, via, acc, walk, reg>>

Pcs == {"idle", "instr", "core", "mutex", "lock", "walk", "cas", "unlock", "leave"}

\* Every variable holds what its declaration in the code allows; in particular a walk
\* never comes to a null pointer (cur).
TypeOK ==
    /\ live \subseteq Nodes
    /\ level \in [Nodes -> 0..Top]
    /\ slot \in [Nodes -> [0..(Size - 1) -> Nodes \cup {None}]]
    /\ page \in [Nodes -> [0..(PageSize - 1) -> Values]]
    /\ spans \in [Nodes -> SUBSET Addrs]
    /\ shared \in [Keys -> Mutexes \cup {None}]
    /\ private \in [Cores -> [Keys -> Mutexes \cup {None}]]
    /\ holder \in [Mutexes -> Cores \cup {None}]
    /\ memMutex \in [Cores -> Agents \cup {None}]
    /\ instrMutex \in Cores \cup {None}
    /\ flag \in [Cores -> BOOLEAN]
    /\ pc \in [Agents -> Pcs]
    /\ op \in [Agents -> Requests \cup {None}]
    /\ via \in [Agents -> Cores \cup {None}]
    /\ acc \in [Agents -> {"read", "write"}]
    /\ cur \in [Agents -> Nodes]
    /\ new \in [Agents -> Nodes \cup {None}]
    /\ reg \in [Agents -> Values]

EmptyNode == [i \in 0..(Size - 1) |-> None]
EmptyPage == [o \in 0..(PageSize - 1) |-> 0]

Init ==
    /\ live = {Root}
    /\ level = [n \in Nodes |-> Top]
    /\ slot = [n \in Nodes |-> EmptyNode]
    /\ page = [n \in Nodes |-> EmptyPage]
    /\ spans = [n \in Nodes |-> IF n = Root THEN Addrs ELSE {}]
    /\ shared = [k \in Keys |-> None]
    /\ private = [c \in Cores |-> [k \in Keys |-> None]]
    /\ holder = [x \in Mutexes |-> None]
    /\ memMutex = [c \in Cores |-> None]
    /\ instrMutex = None
    /\ flag = [c \in Cores |-> FALSE]
    /\ pc = [g \in Agents |-> "idle"]
    /\ op = [g \in Agents |-> None]
    /\ via = [g \in Agents |-> None]
    /\ acc = [g \in Agents |-> "read"]
    /\ cur = [g \in Agents |-> Root]
    /\ new = [g \in Agents |-> None]
    /\ reg = [g \in Agents |-> 0]

-----------------------------------------------------------------------------
(* The thread of a core, and the user's, with its steps in order.           *)

To(g, p) == pc' = [pc EXCEPT ![g] = p]
key(g) == get_page(op[g].addr)
Idle(g) ==
    /\ To(g, "idle")
    /\ op' = [op EXCEPT ![g] = None]
    /\ via' = [via EXCEPT ![g] = None]
    /\ acc' = [acc EXCEPT ![g] = "read"]
    /\ reg' = [reg EXCEPT ![g] = 0]

\* An instruction of core c accesses the memory, or one that is atomic reads an
\* address and writes it.
Call(c) ==
    /\ pc[c] = "idle"
    /\ \E r \in Program[c] :
          /\ op' = [op EXCEPT ![c] = r]
          /\ To(c, IF r.kind = "update" THEN "instr" ELSE "core")
          /\ acc' = [acc EXCEPT ![c] = IF r.kind = "write" THEN "write" ELSE "read"]
    /\ via' = [via EXCEPT ![c] = c]
    /\ UNCHANGED <<tree, locks, walk, reg>>

\* setMem() and getMem() of a core, called by the user.
UserCall ==
    /\ pc[User] = "idle"
    /\ \E r \in Program[User], c \in Cores :
          /\ op' = [op EXCEPT ![User] = r]
          /\ via' = [via EXCEPT ![User] = c]
          /\ acc' = [acc EXCEPT ![User] = r.kind]
    /\ To(User, "core")
    /\ UNCHANGED <<tree, locks, walk, reg>>

\* Mutant: no mutex, as when there is no shared hash.
LockAtomicInstr_Free(c) ==
    /\ pc[c] = "instr"
    /\ flag' = [flag EXCEPT ![c] = TRUE]
    /\ To(c, "core")
    /\ UNCHANGED <<tree, shared, private, holder, memMutex, instrMutex, op, via, acc, walk, reg>>

LockAtomicInstr(c) ==
    /\ pc[c] = "instr"
    /\ instrMutex = None
    /\ instrMutex' = c
    /\ flag' = [flag EXCEPT ![c] = TRUE]
    /\ To(c, "core")
    /\ UNCHANGED <<tree, shared, private, holder, memMutex, op, via, acc, walk, reg>>

\* The core's own mutex.
AdlSimLock(g) ==
    /\ pc[g] = "core"
    /\ memMutex[via[g]] = None
    /\ memMutex' = [memMutex EXCEPT ![via[g]] = g]
    /\ To(g, IF g = User THEN "walk" ELSE "mutex")
    /\ UNCHANGED <<tree, shared, private, holder, instrMutex, flag, op, via, acc, walk, reg>>

\* Mutant: the mutex of atomic instructions is kept.
Throw_Keeps(c) ==
    /\ pc[c] = "mutex"
    /\ memMutex' = [memMutex EXCEPT ![c] = None]
    /\ flag' = [flag EXCEPT ![c] = FALSE]
    /\ Idle(c)
    /\ UNCHANGED <<tree, shared, private, holder, instrMutex, walk>>

\* The address cannot be translated: the exception's way out of the instruction
\* gives all locks back.
Throw(c) ==
    /\ pc[c] = "mutex"
    /\ memMutex' = [memMutex EXCEPT ![c] = None]
    /\ flag' = [flag EXCEPT ![c] = FALSE]
    /\ instrMutex' = IF op[c].kind = "update" THEN None ELSE instrMutex
    /\ Idle(c)
    /\ UNCHANGED <<tree, shared, private, holder, walk>>

\* LockedMutexHash::get(): the mutex of a key, made on first use.  The hash's own
\* mutex makes this one step.
Unused == {x \in Mutexes : \A k \in Keys : shared[k] # x}
Shared_New(k) == CHOOSE x \in Unused : TRUE
Shared(k) == IF shared[k] # None THEN shared[k] ELSE CHOOSE x \in Unused : TRUE

\* PrivateMutexHash::get(): asks the shared hash once a key.
get(c, k) == IF private[c][k] # None THEN private[c][k] ELSE Shared(k)

GetMutex(c) ==
    /\ pc[c] = "mutex"
    /\ flag[c] \/ c \in LockedMem
    /\ shared[key(c)] # None \/ Unused # {}
    /\ private' = [private EXCEPT ![c][key(c)] = get(c, key(c))]
    /\ shared' = IF private[c][key(c)] # None THEN shared ELSE [shared EXCEPT ![key(c)] = Shared(key(c))]
    /\ To(c, "lock")
    /\ UNCHANGED <<tree, holder, memMutex, instrMutex, flag, op, via, acc, walk, reg>>

\* Neither an atomic instruction nor mt_locked_mem: no lock by address.
NoMutex(c) ==
    /\ pc[c] = "mutex"
    /\ ~(flag[c] \/ c \in LockedMem)
    /\ To(c, "walk")
    /\ UNCHANGED <<tree, locks, op, via, acc, walk, reg>>

LockMemory(c) ==
    /\ pc[c] = "lock"
    /\ holder[private[c][key(c)]] = None
    /\ holder' = [holder EXCEPT ![private[c][key(c)]] = c]
    /\ To(c, "walk")
    /\ UNCHANGED <<tree, shared, private, memMutex, instrMutex, flag, op, via, acc, walk, reg>>

-----------------------------------------------------------------------------
(* Node::get() and getPage(), level by level.                               *)

index(g) == Index(op[g].addr, level[cur[g]])
next(g) == slot[cur[g]][index(g)]

Descend(g, n) == cur' = [cur EXCEPT ![g] = n]

\* The pointer is there.
Load(g) ==
    /\ pc[g] = "walk"
    /\ level[cur[g]] > 0
    /\ next(g) # None
    /\ Descend(g, next(g))
    /\ UNCHANGED <<tree, locks, pc, op, via, acc, new, reg>>

\* It is not; the thread makes the object it will try to put there.  Which one the
\* allocator returns makes no difference.
NewChild(g) ==
    /\ pc[g] = "walk"
    /\ level[cur[g]] > 0
    /\ next(g) = None
    /\ Nodes \ live # {}
    /\ LET n == CHOOSE m \in Nodes : m \notin live
       IN  /\ new' = [new EXCEPT ![g] = n]
           /\ live' = live \cup {n}
           /\ level' = [level EXCEPT ![n] = level[cur[g]] - 1]
           /\ slot' = [slot EXCEPT ![n] = EmptyNode]
           /\ page' = [page EXCEPT ![n] = EmptyPage]
    /\ To(g, "cas")
    /\ UNCHANGED <<spans, locks, op, via, acc, cur, reg>>

\* The addresses of node n that lead to its i-th child.
Through(n, i) == {a \in spans[n] : Index(a, level[n]) = i}

\* Mutants: an exchange that may fail although nobody was faster, and one that leaves the
\* loser's node.
CompareExchange_Weak(g) ==
    /\ pc[g] = "cas"
    /\ live' = live \ {new[g]}
    /\ Descend(g, next(g))
    /\ new' = [new EXCEPT ![g] = None]
    /\ To(g, "walk")
    /\ UNCHANGED <<level, slot, spans, page, locks, op, via, acc, reg>>
Discard_Leak(g) == Descend(g, next(g)) /\ UNCHANGED <<live, slot, spans>>

\* compare_exchange_weak() where it does not fail spuriously.
Install(g) ==
    /\ slot' = [slot EXCEPT ![cur[g]][index(g)] = new[g]]
    /\ spans' = [spans EXCEPT ![new[g]] = Through(cur[g], index(g))]
    /\ Descend(g, new[g])
    /\ UNCHANGED live
Discard(g) ==
    /\ live' = live \ {new[g]}
    /\ Descend(g, next(g))
    /\ UNCHANGED <<slot, spans>>

CompareExchange(g) ==
    /\ pc[g] = "cas"
    /\ \/ next(g) = None /\ Install(g)
       \/ next(g) # None /\ Discard(g)
    /\ new' = [new EXCEPT ![g] = None]
    /\ To(g, "walk")
    /\ UNCHANGED <<level, page, locks, op, via, acc, reg>>

cell(g) == pageOffset(op[g].addr)

\* The next access starts at the root again.
Found(g) ==
    /\ cur' = [cur EXCEPT ![g] = Root]
    /\ To(g, "unlock")
    /\ UNCHANGED new

\* The page is found and its cell read or written; an atomic instruction keeps what
\* it reads and writes what it makes of that.
ReadCell(g) ==
    /\ pc[g] = "walk"
    /\ level[cur[g]] = 0
    /\ acc[g] = "read"
    /\ reg' = [reg EXCEPT ![g] = page[cur[g]][cell(g)]]
    /\ Found(g)
    /\ UNCHANGED <<tree, locks, op, via, acc>>

WriteCell(g) ==
    /\ pc[g] = "walk"
    /\ level[cur[g]] = 0
    /\ acc[g] = "write"
    /\ page' = [page EXCEPT ![cur[g]][cell(g)] =
                    IF op[g].kind = "update" THEN Modify[reg[g]] ELSE op[g].val]
    /\ Found(g)
    /\ UNCHANGED <<live, level, slot, spans, locks, op, via, acc, reg>>

-----------------------------------------------------------------------------
(* The end of an access and of an instruction.                              *)

\* The destructors of the locks of one access.
Unlock(g) ==
    /\ pc[g] = "unlock"
    /\ holder' = IF g = User THEN holder
                 ELSE [x \in Mutexes |-> IF holder[x] = g THEN None ELSE holder[x]]
    /\ memMutex' = [memMutex EXCEPT ![via[g]] = None]
    /\ \/ /\ op[g].kind = "update"
          /\ acc[g] = "read"
          /\ acc' = [acc EXCEPT ![g] = "write"]
          /\ To(g, "core")
          /\ UNCHANGED <<op, via, reg>>
       \/ /\ op[g].kind = "update"
          /\ acc[g] = "write"
          /\ To(g, "leave")
          /\ UNCHANGED <<op, via, acc, reg>>
       \/ /\ op[g].kind # "update"
          /\ Idle(g)
    /\ UNCHANGED <<tree, shared, private, instrMutex, flag, walk>>

\* The destructors of LockAtomicInstr.
Leave(c) ==
    /\ pc[c] = "leave"
    /\ flag' = [flag EXCEPT ![c] = FALSE]
    /\ instrMutex' = None
    /\ Idle(c)
    /\ UNCHANGED <<tree, shared, private, holder, memMutex, walk>>

\* resetGlobal(), called while no core runs.
reset ==
    /\ \A g \in Agents : pc[g] = "idle"
    /\ live' = {Root}
    /\ level' = [n \in Nodes |-> Top]
    /\ slot' = [n \in Nodes |-> EmptyNode]
    /\ page' = [n \in Nodes |-> EmptyPage]
    /\ spans' = [n \in Nodes |-> IF n = Root THEN Addrs ELSE {}]
    /\ UNCHANGED <<locks, pc, op, via, acc, walk, reg>>

\* The steps an agent takes by itself once it has called.
Own(c) == LockAtomicInstr(c) \/ GetMutex(c) \/ NoMutex(c) \/ LockMemory(c) \/ Leave(c)
Access(g) == AdlSimLock(g) \/ Load(g) \/ NewChild(g) \/ CompareExchange(g) \/ ReadCell(g) \/ WriteCell(g) \/ Unlock(g)

Next ==
    \/ reset
    \/ UserCall
    \/ \E c \in Cores : Call(c) \/ Throw(c) \/ Own(c)
    \/ \E g \in Agents : Access(g)

Spec == Init /\ [][Next]_vars

\* Threads that can go on do, and the host's mutexes starve no thread.
Fairness ==
    /\ \A c \in Cores : SF_vars(Access(c) \/ Own(c))
    /\ SF_vars(Access(User))
FairSpec == Spec /\ Fairness

-----------------------------------------------------------------------------
(* Properties                                                               *)

\* Every node but the root hangs in exactly one place: it is the child of one slot
\* of a node that exists, or the new_item of one thread that has not yet tried to
\* put it in its place.  Node::get() leaks no page, frees none that is in use and
\* installs none twice, however many threads race for a slot.
NodesHeldOnce ==
    LET Places == live \X (0..(Size - 1))
        Child(s) == slot[s[1]][s[2]]
    IN  /\ \A s, t \in Places : Child(s) = Child(t) /\ Child(s) # None => s = t
        /\ \A g, h \in Agents : new[g] = new[h] /\ new[g] # None => g = h
        /\ \A g \in Agents : new[g] # None => \A s \in Places : Child(s) # new[g]
        /\ live \ {Root} = ({Child(s) : s \in Places} \cup {new[g] : g \in Agents}) \ {None}

\* Two cores never are within locked accesses to one address at a time, nor to two
\* addresses of one key, although each looks the mutex up in a hash of its own.
Locked(c) == (flag[c] \/ c \in LockedMem) /\ pc[c] \in {"walk", "cas", "unlock"}
LockedAccessesExclude ==
    \A c, d \in Cores :
        c # d /\ Locked(c) /\ Locked(d) => key(c) # key(d)

\* The cells as the tree holds them: the page that address a leads to, if there is one
\* yet, has its cell.
Pages(a) == {n \in live : level[n] = 0 /\ a \in spans[n]}
Cells == [a \in Addrs |->
            IF Pages(a) = {} THEN 0 ELSE page[CHOOSE n \in Pages(a) : TRUE][pageOffset(a)]]

\* A request has taken effect once its last access has been made.
Performed == [g \in Agents |->
    \/ pc[g] = "leave"
    \/ pc[g] = "unlock" /\ (op[g].kind = "update" => acc[g] = "write")]

\* What a plain read has returned.
Read == [g \in Agents |-> IF op[g] # None /\ op[g].kind = "read" THEN reg[g] ELSE 0]

Atomic == INSTANCE AtomicMemory WITH
    Zero <- 0, mem <- Cells, req <- op, done <- Performed, got <- Read

\* The threads see one memory in which each access takes effect once and at once, and
\* no write comes between the read and the write of an atomic instruction: neither
\* the race for a new page nor the walk through nodes that others are adding loses or
\* misplaces a write.
IsAtomicMemory == Atomic!ASpec

\* Every access ends: the three kinds of locks are taken in an order that cannot
\* deadlock, and all ways out of an instruction release them.
AccessesEnd == \A g \in Agents : pc[g] # "idle" ~> pc[g] = "idle"
=============================================================================
