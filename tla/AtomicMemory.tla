---------------------------- MODULE AtomicMemory ----------------------------
(***************************************************************************)
(* What a memory shared by the cores of a multi-threaded simulation should *)
(* look like to them: every access takes effect once, at one moment        *)
(* between its call and its return, and an atomic instruction's read and   *)
(* write are one access.  An access may also end in an exception, without  *)
(* an effect.                                                              *)
(***************************************************************************)
CONSTANTS
    Agents,     \* who accesses the memory
    Addrs,      \* addresses
    Values,     \* what a cell holds
    Zero,       \* what it holds at first
    Requests,   \* the accesses: records with kind, addr and val
    None,       \* no access
    Modify      \* what an atomic instruction makes of the value it reads

VARIABLES
    mem,   \* the cells
    req,   \* per agent, its access under way, or None
    done,  \* per agent, whether that has taken effect
    got    \* per agent, what its read has returned

avars == <<mem, req, done, got>>

AInit ==
    /\ mem = [a \in Addrs |-> Zero]
    /\ req = [g \in Agents |-> None]
    /\ done = [g \in Agents |-> FALSE]
    /\ got = [g \in Agents |-> Zero]

Call(g) ==
    /\ req[g] = None
    /\ \E r \in Requests : req' = [req EXCEPT ![g] = r]
    /\ UNCHANGED <<mem, done, got>>

Perform(g) ==
    /\ req[g] # None
    /\ ~done[g]
    /\ \/ /\ req[g].kind = "read"
          /\ got' = [got EXCEPT ![g] = mem[req[g].addr]]
          /\ UNCHANGED mem
       \/ /\ req[g].kind = "write"
          /\ mem' = [mem EXCEPT ![req[g].addr] = req[g].val]
          /\ UNCHANGED got
       \/ /\ req[g].kind = "update"
          /\ mem' = [mem EXCEPT ![req[g].addr] = Modify[@]]
          /\ UNCHANGED got
    /\ done' = [done EXCEPT ![g] = TRUE]
    /\ UNCHANGED req

\* The access returns; one that has not taken effect ends in an exception.
Return(g) ==
    /\ req[g] # None
    /\ req' = [req EXCEPT ![g] = None]
    /\ done' = [done EXCEPT ![g] = FALSE]
    /\ got' = [got EXCEPT ![g] = Zero]
    /\ UNCHANGED mem

\* All cells are cleared while no access is under way.
Clear ==
    /\ \A g \in Agents : req[g] = None
    /\ mem' = [a \in Addrs |-> Zero]
    /\ UNCHANGED <<req, done, got>>

ANext == Clear \/ \E g \in Agents : Call(g) \/ Perform(g) \/ Return(g)
ASpec == AInit /\ [][ANext]_avars
=============================================================================
