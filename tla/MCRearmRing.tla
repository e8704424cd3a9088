---------------------------- MODULE MCRearmRing ----------------------------
(***************************************************************************)
(* RearmRing on small rings: three instructions, the first and the last    *)
(* of them with a counter.                                                 *)
(***************************************************************************)
EXTENDS RearmRing

(* A wait that precedes the polled completion and one that follows it. *)
SplitTasks == {0, 2}
(* Only instructions that precede it. *)
EarlyTasks == {0, 1}

(* Counters near the word's end, so that they wrap in the rounds run. *)
MCBase == [t \in Tasks |-> IF t = 0 THEN Word - 1 ELSE t]
MCInc == [t \in Tasks |-> IF t = 0 THEN 1 ELSE 3]
=============================================================================
