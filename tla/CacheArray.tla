---------------------------- MODULE CacheArray ----------------------------
(***************************************************************************)
(* The tag and data array the ISS generator writes for a transactional     *)
(* cache (iss/GenCache.C): one set of it, as operators.  The doubly linked *)
(* list of a set's ways is the sequence of its ways from its head.  Locked *)
(* ways are left out.                                                      *)
(***************************************************************************)
EXTENDS Integers, Sequences, FiniteSetsExt

CONSTANTS Ways, WordsPerLine, NoLine

Words == 0 .. WordsPerLine - 1

\* A way: tag, valid and dirty of the ISS; hasData is the performance model's
\* mark that the line's data has arrived.
EmptyWay == [tag |-> NoLine, valid |-> FALSE, dirty |-> FALSE, hasData |-> FALSE,
             data |-> [w \in Words |-> 0]]

\* reset(): every way empty, in the order of their numbers.
EmptySet == [order |-> [i \in 1 .. Ways |-> i], way |-> [w \in 1 .. Ways |-> EmptyWay]]

find(S, line) == {w \in 1 .. Ways : S.way[w].valid /\ S.way[w].tag = line}

\* The way replace() takes is the head of the list, which becomes its tail.
Replaced(S) == Head(S.order)
Rotated(S)  == Append(Tail(S.order), Head(S.order))

flush_line_needed(S, w) == S.way[w].valid /\ S.way[w].dirty

\* access(): the set after a lookup, what the lookup found, and the way. The
\* tag of the replaced line is overwritten here, before the line is evicted.
access(S, line, isWrite) ==
    IF find(S, line) # {}
    THEN [set |-> S, action |-> "hit", way |-> Min(find(S, line))]
    ELSE LET w == Replaced(S) IN
         [set |-> [order |-> Rotated(S),
                   way |-> [S.way EXCEPT ![w] =
                       [@ EXCEPT !.tag = line, !.valid = TRUE, !.dirty = isWrite]]],
          action |-> IF flush_line_needed(S, w) THEN "evict" ELSE "miss",
          way |-> w]

\* end() of a read or write: a line that missed is valid and clean, and dirty
\* after a write unless the description's write_through says otherwise.
end(S, w, action, isWrite, through) ==
    [S EXCEPT !.way[w].valid = @ \/ action \in {"miss", "evict"},
              !.way[w].dirty = (@ /\ action \notin {"miss", "evict"}) \/ (isWrite /\ ~through)]

invalidate(S, w) == [S EXCEPT !.way[w].valid = FALSE]
flush_line(S, w) == [S EXCEPT !.way[w].dirty = FALSE]
=============================================================================
