--------------------------- MODULE MCSharedMemory ---------------------------
(* Instances of SharedMemory for TLC.                                       *)
EXTENDS SharedMemory

CONSTANTS c1, c2

Request(k, a, v) == [kind |-> k, addr |-> a, val |-> v]

\* Two addresses of one page, whose mutex is the same.  Both cores update the first
\* atomically and read the second, which the user writes; one core is built with
\* mt_locked_mem and locks its reads too.
UpdateAndRead ==
    [g \in Agents |->
        IF g \in Cores THEN {Request("update", 0, 0), Request("read", 1, 0)}
        ELSE {Request("write", 1, 1)}]
=============================================================================
