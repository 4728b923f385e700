--------------------------- MODULE MCThreadedKernel ---------------------------
(* Instances of ThreadedKernel for TLC. *)
EXTENDS ThreadedKernel

CONSTANTS c1, c2, c3

TwoCores   == {c1, c2}
ThreeCores == {c1, c2, c3}

=============================================================================
