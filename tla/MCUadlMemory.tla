----------------------------- MODULE MCUadlMemory -----------------------------
(* Instances of UadlMemory for TLC. *)
EXTENDS UadlMemory

CONSTANTS i1, i2

MCInstrs   == {i1, i2}
SlowSecondPort == [p \in Ports |-> IF p = 1 THEN 2 ELSE 0]
NoPortLatency == [p \in Ports |-> 0]

=============================================================================
