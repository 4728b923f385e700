---------------------------- MODULE MCFetchUnit ----------------------------
(***************************************************************************)
(* Instances of FetchUnit: a program of one- and two-entry instructions    *)
(* with two branches, one of which crosses the boundary of a small fetch,  *)
(* on pages of four entries of which the last may not be executable, over  *)
(* configurations the generator produces.                                  *)
(***************************************************************************)
EXTENDS FetchUnit

Base == [nEntries |-> 4, sizes |-> <<2>>, min |-> 0, maxCount |-> 2, predictor |-> FALSE, lazy |-> TRUE,
         flushFetch |-> TRUE, reuse |-> FALSE, cancel |-> FALSE, pause |-> FALSE, preempt |-> FALSE,
         bad |-> 8 .. 11]

\* Two-entry branch at 1 (crosses the fetch at 0), one-entry branch at 4.
Sizes == [a \in 0 .. NAddr - 1 |-> IF a \in {1, 5} THEN 2 ELSE 1]
Targets == [a \in {1, 4} |-> IF a = 1 THEN 5 ELSE 0]

Sound ==
    { [Base EXCEPT !.predictor = TRUE],
      [Base EXCEPT !.predictor = TRUE, !.preempt = TRUE, !.bad = {}],
      [Base EXCEPT !.predictor = TRUE, !.sizes = <<4, 2>>, !.lazy = FALSE, !.flushFetch = FALSE],
      [Base EXCEPT !.sizes = <<2, 1>>, !.reuse = TRUE, !.cancel = TRUE],
      [Base EXCEPT !.predictor = TRUE, !.pause = TRUE, !.preempt = TRUE],
      [Base EXCEPT !.min = 3] }
=============================================================================
