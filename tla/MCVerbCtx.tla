----------------------------- MODULE MCVerbCtx -----------------------------
(***************************************************************************)
(* VerbCtx with two threads that register keys on the shared UMR QP.  One  *)
(* of them uses pipelined memory, the other builds graphs.  Alone, a       *)
(* thread builds a graph.                                                  *)
(***************************************************************************)
EXTENDS VerbCtx

MCThreads == {"t1", "t2"}
MCUses ==
  [t \in MCThreads |-> IF t = "t1" THEN {"pipe", "key"} ELSE {"user", "key", "graph"}]

OneThread == {"t1"}
OneUses == [t \in OneThread |-> {"graph"}]
=============================================================================
