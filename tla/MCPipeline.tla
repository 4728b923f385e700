----------------------------- MODULE MCPipeline -----------------------------
(***************************************************************************)
(* Instances of Pipeline: programs of four instructions that begin with a  *)
(* writer whose result comes late or in part and end with a reader, which  *)
(* is also the exception handler.                                          *)
(***************************************************************************)
EXTENDS Pipeline

Writers ==
    {p \in [0 .. N - 1 -> Kinds] : p[0] \in {"load", "half"} /\ p[N - 1] \in {"add", "test"}}

NoPaths == <<>>
=============================================================================
