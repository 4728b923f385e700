--------------------------- MODULE SequentialCore ---------------------------
(***************************************************************************)
(* What a pipelined core promises: the program runs as if one instruction  *)
(* executed after another.  The program has one register of Fields; each   *)
(* instruction reads some of them, writes its own address to some of them, *)
(* and goes on with the next instruction, or elsewhere.                     *)
(***************************************************************************)
EXTENDS Integers

CONSTANTS
    N,              \* addresses 0 .. N - 1 hold the program
    Programs,       \* the programs, a kind of instruction for every address
    Fields,         \* the fields of the register
    Sources(_), Targets(_),     \* the fields a kind of instruction reads, writes
    Follows(_, _)               \* the address after an instruction of a kind

VARIABLES
    prog,           \* the program: a kind for every address
    reg,            \* the register
    pc,             \* address of the next instruction to execute
    retired         \* the last instruction executed, with the values it read

vars == <<prog, reg, pc, retired>>

Init ==
    /\ prog \in Programs
    /\ reg = [f \in Fields |-> N]
    /\ pc = 0
    /\ retired = <<>>

Execute ==
    /\ pc < N
    /\ LET k == prog[pc]
       IN  /\ retired' = <<pc, [f \in Sources(k) |-> reg[f]]>>
           /\ reg' = [f \in Fields |-> IF f \in Targets(k) THEN pc ELSE reg[f]]
           /\ pc' = Follows(k, pc)
    /\ UNCHANGED prog

Spec == Init /\ [][Execute]_vars
=============================================================================
