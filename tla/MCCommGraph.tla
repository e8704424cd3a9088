---------------------------- MODULE MCCommGraph ----------------------------
(***************************************************************************)
(* CommGraph with the queue sizes of the mlx5 provider: a power of two     *)
(* with room for three times the WQEs that were asked for.                 *)
(***************************************************************************)
EXTENDS CommGraph

CONSTANTS left, right, loop, dbl, mqp

Power2 == {1, 2, 4, 8, 16, 32, 64, 128, 256}

MCSqSlots ==
  [n \in 0 .. 60 |-> CHOOSE p \in Power2 :
                        p >= 3 * n /\ \A s \in Power2 : s >= 3 * n => p <= s]

(* What the theorems ask of the provider is what mlx5 gives.               *)
ASSUME Provider == GivesTwice

RingData == {left, right}
RingKind == [q \in RingData |-> "ring"]
RingOther == [q \in RingData |-> IF q = left THEN right ELSE left]

KingData == {loop, dbl}
KingKind == [q \in KingData |-> IF q = loop THEN "loopback" ELSE "doubling"]
KingPair == [q \in KingData |-> q]

DblData == {dbl}
DblKind == [q \in DblData |-> "doubling"]
DblPair == [q \in DblData |-> q]
=============================================================================
