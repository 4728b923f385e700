---------------------------- MODULE LinefillBuf ----------------------------
(***************************************************************************)
(* The line-fill and eviction buffers of a uADL cache, classes LinefillBuf *)
(* and EvictBuf of uadl/Cache.{h,C}, as operators on their values.  An     *)
(* address counts words; an entry of a buffer is a word                    *)
(* (linefill_access_width), what one request to the next level transfers.  *)
(***************************************************************************)
EXTENDS CacheArray, SequencesExt

LineOf(a) == a \div WordsPerLine
WordOf(a) == a % WordsPerLine
AddrOf(line, w) == line * WordsPerLine + w

NoData == [w \in Words |-> 0]

\* got and sent are the entries with hasData and requestSent; crit is
\* _criticalIds; extra is the entry requested ahead for the next line fill.
EmptyFill ==
    [empty |-> TRUE, line |-> NoLine, way |-> 1, id |-> 0, sent |-> {}, got |-> {},
     data |-> NoData, crit |-> <<>>, critical |-> 0, started |-> FALSE, received |-> FALSE,
     hasExtra |-> FALSE, extraSent |-> FALSE, extraAddr |-> 0]

EmptyEvict == [empty |-> TRUE, line |-> NoLine, id |-> 0, sent |-> 0, pushed |-> 0, data |-> NoData]

\* clear(): what an empty buffer still holds is not looked at again, except for
\* its data, which requests may point to, and the rest of these.
clear(f) == [EmptyFill EXCEPT !.data = f.data, !.received = f.received, !.hasExtra = f.hasExtra,
                              !.extraSent = f.extraSent, !.extraAddr = f.extraAddr]

loaded(f)      == ~f.empty /\ f.got = Words
quiet(f, lazy) == f.empty \/ (lazy /\ loaded(f))
hasEntry(f, a) == ~f.empty /\ LineOf(a) = f.line
hasData(f, a)  == hasEntry(f, a) /\ WordOf(a) \in f.got
allRequestsSent(f) == ~f.empty /\ f.sent = Words

\* addCriticalAddr(): the word asked for, those after it, those before it.
addCriticalAddr(w) == [i \in 1 .. WordsPerLine |-> (w + i - 1) % WordsPerLine]

\* init() for the miss of request id at address a. A request that was sent
\* ahead for one of the line's entries counts as sent.
init(f, id, a, way, criticalFirst) ==
    [f EXCEPT !.empty = FALSE, !.line = LineOf(a), !.way = way, !.id = id,
              !.sent = {w \in Words : f.hasExtra /\ f.extraSent /\ f.extraAddr = AddrOf(LineOf(a), w)},
              !.got = {},
              !.crit = IF criticalFirst THEN addCriticalAddr(WordOf(a)) ELSE <<>>,
              !.critical = WordOf(a),
              !.started = FALSE, !.received = FALSE, !.hasExtra = FALSE]

setupExtra(f, a, criticalFirst) ==
    [f EXCEPT !.hasExtra = TRUE, !.extraSent = FALSE,
              !.extraAddr = IF criticalFirst THEN a ELSE AddrOf(LineOf(a), 0)]

\* The order in which loadData() and sendRequest() visit the entries: the
\* critical ones, which hold every entry without data while there are any.
Visit(f) == IF f.crit = <<>> THEN [i \in 1 .. WordsPerLine |-> i - 1] ELSE f.crit

\* The entry loadData() waits for, and those sendRequest() has to send.
Missing(f) == SelectSeq(Visit(f), LAMBDA w : w \notin f.got)
Unsent(f)  == SelectSeq(Visit(f), LAMBDA w : w \notin f.sent)

\* loadData() in a cycle in which the words ws arrive, with these values.
loadData(f, ws, data) ==
    LET got  == f.got \cup ws
        rest == {i \in 1 .. Len(f.crit) : f.crit[i] \notin got}
    IN  [f EXCEPT !.got = got,
                  !.data = [w \in Words |-> IF w \in ws THEN data[w] ELSE @[w]],
                  !.received = f.crit # <<>> /\ Head(f.crit) = f.critical /\ f.critical \in got,
                  !.crit = IF rest = {} THEN <<>> ELSE SubSeq(f.crit, Min(rest), Len(f.crit))]

\* EvictBuf: init() copies a line, its words are sent and pushed in order.
initEvict(id, line, data) ==
    [empty |-> FALSE, line |-> line, id |-> id, sent |-> 0, pushed |-> 0, data |-> data]
evicted(e) == ~e.empty /\ e.pushed = WordsPerLine
=============================================================================
