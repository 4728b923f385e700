------------------------------ MODULE MCCache ------------------------------
(***************************************************************************)
(* Instances of Cache for TLC.                                             *)
(***************************************************************************)
EXTENDS Cache

Base ==
    [readLatency |-> 1, writeLatency |-> 1, fillReadLatency |-> 0, fillWriteLatency |-> 0,
     takenLatency |-> 0, nextLatency |-> 0, commandLatency |-> 1,
     lockCycle |-> 0, holdoff |-> 1, evictLockCycle |-> 0, lockOnValid |-> FALSE,
     criticalWordFirst |-> TRUE, lazy |-> FALSE, consecutive |-> FALSE, block |-> FALSE,
     through |-> TRUE, allocate |-> TRUE, storeBuf |-> TRUE, storeBufSize |-> 0,
     types |-> {"Read", "Write"}, addrs |-> Addr, uncached |-> {}, commands |-> {}, cancels |-> FALSE, prompt |-> TRUE,
     requests |-> MaxRequests]

\* A write-through cache that allocates for stores, with lookup locks and a
\* small store buffer: one line, or the write-allocation would evict.
Through == [Base EXCEPT !.lockCycle = 1, !.storeBufSize = 1, !.nextLatency = 1, !.addrs = {0, 1},
                        !.cancels = TRUE, !.requests = MaxRequests - 1]

\* Stores that miss go around the cache, past the store buffer. Two lines share
\* the only way; the third is not cached.
Around == [Base EXCEPT !.allocate = FALSE, !.storeBuf = FALSE, !.addrs = {0, 2, 4}, !.uncached = {2},
                       !.commands = {"Invalidate"}]

\* The same with the store buffer, and a line-fill buffer that keeps its line.
Lazy == [Around EXCEPT !.storeBuf = TRUE, !.lazy = TRUE, !.addrs = {0, 1, 2}, !.uncached = {},
                       !.commands = {"Touch"}]

\* A write-back cache whose lines fit, written out by flushes.
Back == [Base EXCEPT !.through = FALSE, !.addrs = {0, 1}, !.commands = {"Flush"}, !.block = TRUE,
                     !.criticalWordFirst = FALSE]

\* An instruction cache that asks for the next line ahead.
Fetching == [Base EXCEPT !.types = {"Read"}, !.addrs = {0, 1, 3}, !.consecutive = TRUE, !.lockCycle = 2,
                         !.holdoff = 2, !.lockOnValid = TRUE]

Sound == {Through, Around, Lazy, Back, Fetching}

\* A write-back cache in which lines replace each other.
Evicting == {[Back EXCEPT !.addrs = {0, 2}, !.commands = {}]}
=============================================================================
