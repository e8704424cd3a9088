----------------------------- MODULE MCGraphRun -----------------------------
(***************************************************************************)
(* GraphRun on two ranks, with collectives of the kinds src/README.md      *)
(* speaks of: ring steps with credits and reductions, and a doubling step. *)
(***************************************************************************)
EXTENDS GraphRun

CONSTANTS left, right, loop, dbl, mqp

Power2 == {1, 2, 4, 8, 16, 32, 64, 128, 256}
MCSqSlots ==
  [n \in 0 .. 60 |-> CHOOSE p \in Power2 :
                        p >= 3 * n /\ \A s \in Power2 : s >= 3 * n => p <= s]

MCData == {left, right, loop, dbl}
MCKind ==
  [q \in MCData |-> IF q = loop THEN "loopback" ELSE IF q = dbl THEN "doubling" ELSE "ring"]
MCPair == [q \in MCData |-> IF q = left THEN right ELSE IF q = right THEN left ELSE q]

MCRanks == 0 .. 1
MCFar == [r \in MCRanks |-> [q \in MCData |-> IF q = loop THEN r ELSE 1 - r]]

New(q) == <<Ins("recv_enable", q)>>
Call(op, q) == <<Ins(op, q), Ins("send_enable", q)>>
Await(q) == <<Ins("wait", q)>>

(* One step around the ring; the credit gives the buffer back. *)
RingStep ==
  New(left) \o New(right) \o Call("write", right) \o Await(left)
    \o Call("sendCredit", left) \o Await(right)

(* A buffer that is used again once it has been sent, then a reduction. *)
ReduceStep ==
  New(left) \o New(right) \o Call("writeCmpl", right) \o <<Ins("wait_send", right)>>
    \o Call("reduce_write", right) \o Await(left) \o Call("sendCredit", left) \o Await(right)

(* Copies to the own memory around a doubling step. *)
DoublingStep ==
  New(loop) \o New(dbl) \o Call("writeCmpl", loop) \o Await(loop) \o Call("write", dbl)
    \o Await(dbl) \o Call("write", loop) \o <<Ins("wait_send", loop)>>

MCScripts == {RingStep, ReduceStep, DoublingStep}

(* What the theorems ask of an author and of the provider is met here.     *)
ASSUME Premises == ~ LateQps /\ ScriptsAim /\ GivesTwice
=============================================================================
