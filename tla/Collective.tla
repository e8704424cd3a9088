----------------------------- MODULE Collective -----------------------------
(***************************************************************************)
(* What the author of a graph may rely on (abstract specification).  The   *)
(* list of calls he made, in order, is carried out by every rank, once for *)
(* every time the application calls db(): an operation of a round is done  *)
(* when the waits written before it are satisfied, and operations of one   *)
(* QP are done in their order.  There are no queues here, no indices, no   *)
(* counters and no doorbells.                                              *)
(***************************************************************************)
EXTENDS Integers, Sequences

CONSTANTS
  Ranks,
  Data,    \* the QPs
  Pair,    \* Pair[q]: what q is called at the other end
  Far,     \* Far[r][q]: the rank at the other end of r's q
  OwnCq    \* the QPs with a CQ of their own for what they send

DataOps == {"sendCredit", "write", "writeCmpl", "reduce_write", "reduce_write_cmpl"}
CmplOps == {"writeCmpl", "reduce_write_cmpl"}

VARIABLES
  list,    \* the calls, in order: [op, qp]
  called,  \* called[r]: how often rank r has called db()
  done,    \* done[r][i]: in how many rounds rank r has done operation i
  ended    \* ended[r]: how many rounds have ended at rank r

vars == <<list, called, done, ended>>

Ops == {i \in 1 .. Len(list) : list[i].op \in DataOps}
Waits == {i \in 1 .. Len(list) : list[i].op \in {"wait", "wait_send"}}

Init ==
  /\ list = <<>>
  /\ called = [r \in Ranks |-> 0]
  /\ done = [r \in Ranks |-> <<>>]
  /\ ended = [r \in Ranks |-> 0]

(* finish(): the graph is built. *)
Build ==
  /\ list = <<>>
  /\ list' # <<>>
  /\ done' = [r \in Ranks |-> [i \in 1 .. Len(list') |-> 0]]
  /\ UNCHANGED <<called, ended>>

Call(r) ==
  /\ called' = [called EXCEPT ![r] = @ + 1]
  /\ UNCHANGED <<list, done, ended>>

(* What wait w is about: operations of the other end's QP that arrive, or  *)
(* signalled operations of the own QP.                                     *)
Arriving(w) ==
  IF list[w].op = "wait" \/ list[w].qp \notin OwnCq
    THEN {i \in Ops : i < w /\ Pair[list[i].qp] = list[w].qp}
    ELSE {}
Leaving(w) ==
  IF list[w].op = "wait_send" \/ list[w].qp \notin OwnCq
    THEN {i \in Ops : i < w /\ list[i].qp = list[w].qp /\ list[i].op \in CmplOps}
    ELSE {}

(* In round n of rank r the wait w is satisfied. *)
Satisfied(r, w, n) ==
  /\ \A i \in Arriving(w) : done[Far[r][list[w].qp]][i] > n
  /\ \A i \in Leaving(w) : done[r][i] > n

(* Rank r does operation i of its next round. *)
Do(r, i) ==
  LET n == done[r][i]
  IN  /\ n < called[r]
      /\ \A w \in Waits : w < i => Satisfied(r, w, n)
      /\ \A j \in Ops : list[j].qp = list[i].qp =>
           IF j < i THEN done[r][j] = n + 1 ELSE done[r][j] = n
      /\ done' = [done EXCEPT ![r][i] = n + 1]
      /\ UNCHANGED <<list, called, ended>>

(* A round ends when all its waits are satisfied. *)
End(r) ==
  /\ ended[r] < called[r]
  /\ \A w \in Waits : Satisfied(r, w, ended[r])
  /\ ended' = [ended EXCEPT ![r] = @ + 1]
  /\ UNCHANGED <<list, called, done>>

Next == Build \/ \E r \in Ranks : Call(r) \/ End(r) \/ \E i \in Ops : Do(r, i)

Spec == Init /\ [][Next]_vars
=============================================================================
