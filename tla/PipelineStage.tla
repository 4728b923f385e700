--------------------------- MODULE PipelineStage ---------------------------
(***************************************************************************)
(* uadl/PipelineStage.h: the fixed ring of instruction slots behind every  *)
(* pipeline stage of a generated model.  A stage is a record of the slots, *)
(* the count, the head and the tail, exactly the members of the class;     *)
(* Contents is what the ring stands for, the instructions in order of age. *)
(***************************************************************************)
EXTENDS Integers, Sequences, FiniteSets

CONSTANTS
    Capacity,       \* the template argument: how many instructions fit
    NoInstr         \* the null instruction pointer

ASSUME CapacityAssumption == Capacity \in Nat \ {0}

Index == 0 .. Capacity - 1

(* reset(): every slot null, count, head and tail zero. *)
EmptyStage == [instrs |-> [i \in Index |-> NoInstr], count |-> 0, head |-> 0, tail |-> 0]

(* pos(): a position relative to the head, as an index. *)
pos(s, i) == (s.head + i) % Capacity

(* operator[]: the instruction at a position, null if there is none. *)
At(s, i) == s.instrs[pos(s, i)]

has_space(s, n) == s.count + n <= Capacity

(* add_instr(): the assertion on the count is a precondition of the callers. *)
add_instr(s, x) ==
    [instrs |-> [s.instrs EXCEPT ![s.tail] = x], count |-> s.count + 1,
     head |-> s.head, tail |-> (s.tail + 1) % Capacity]

(* remove_instr(): the head leaves. *)
remove_instr(s) ==
    [instrs |-> [s.instrs EXCEPT ![s.head] = NoInstr], count |-> s.count - 1,
     head |-> (s.head + 1) % Capacity, tail |-> s.tail]

(* The moves of a whole lock-step stage, one after the other: every        *)
(* instruction leaves this stage, the oldest first; some enter another.     *)
remove_all(s) ==
    [instrs |-> [i \in Index |-> NoInstr], count |-> 0,
     head |-> (s.head + s.count) % Capacity, tail |-> s.tail]

add_all(s, seq) ==
    [instrs |-> [i \in Index |-> LET j == (i + Capacity - s.tail) % Capacity
                                 IN  IF j < Len(seq) THEN seq[j + 1] ELSE s.instrs[i]],
     count |-> s.count + Len(seq), head |-> s.head,
     tail |-> (s.tail + Len(seq)) % Capacity]

(* update_tail(): the tail after the last of count instructions. *)
update_tail(s) == [s EXCEPT !.tail = (s.head + s.count) % Capacity]

(* The loop of taken_flush_<stage>() over its own stage: remove_instr(i) for *)
(* every position behind p, which empties the slot and leaves head and tail *)
(* alone, then update_tail().                                                *)
flush_behind(s, p) ==
    LET gone == {k \in p + 1 .. Capacity - 1 : At(s, k) # NoInstr}
    IN  update_tail([instrs |-> [i \in Index |-> IF \E k \in gone : i = pos(s, k)
                                                THEN NoInstr ELSE s.instrs[i]],
                     count |-> s.count - Cardinality(gone),
                     head |-> s.head, tail |-> s.tail])

(* What the ring stands for: its instructions, oldest first. *)
Contents(s) == [k \in 1 .. s.count |-> At(s, k - 1)]

(* A ring is consistent when exactly the first count positions from the head *)
(* hold an instruction and the tail is the position after them.              *)
Consistent(s) ==
    /\ s.count \in 0 .. Capacity /\ s.head \in Index
    /\ s.tail = (s.head + s.count) % Capacity
    /\ \A k \in Index : At(s, k) # NoInstr <=> k < s.count
=============================================================================
