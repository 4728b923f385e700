---------------------------- MODULE TraceStream ----------------------------
(***************************************************************************)
(* What the multi-threaded logging manager promises its clients: one trace *)
(* in which every core's instructions appear whole and in program order,   *)
(* interleaved instruction by instruction.                                 *)
(***************************************************************************)
EXTENDS Naturals, Sequences

CONSTANT Core

VARIABLES
    logged,   \* per core, the instructions it has finished logging (each a sequence of events)
    written,  \* per core, how many of them the clients have received
    trace     \* what the clients have received

tvars == <<logged, written, trace>>

TInit ==
    /\ logged = [c \in Core |-> <<>>]
    /\ written = [c \in Core |-> 0]
    /\ trace = <<>>

\* A core finishes an instruction; nothing reaches the clients yet.
Finish ==
    /\ \E c \in Core :
          /\ Len(logged'[c]) = Len(logged[c]) + 1
          /\ logged' = [logged EXCEPT ![c] = Append(@, logged'[c][Len(@) + 1])]
    /\ UNCHANGED <<written, trace>>

\* The clients receive a core's oldest unwritten instruction as one block.
Write ==
    /\ \E c \in Core :
          /\ written[c] < Len(logged[c])
          /\ trace' = trace \o logged[c][written[c] + 1]
          /\ written' = [written EXCEPT ![c] = @ + 1]
    /\ UNCHANGED logged

TNext == Finish \/ Write
TSpec == TInit /\ [][TNext]_tvars
=============================================================================
