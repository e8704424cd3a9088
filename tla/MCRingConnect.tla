--------------------------- MODULE MCRingConnect ---------------------------
(***************************************************************************)
(* RingConnect with the graphs that the examples named in src/README.md    *)
(* build: a ring, and recursive doubling over log N steps.                 *)
(***************************************************************************)
EXTENDS RingConnect

CONSTANTS ring, king

(* The rank that differs in bit k - 1. *)
Flip(r, k) == IF (r \div 2 ^ (k - 1)) % 2 = 0 THEN r + 2 ^ (k - 1) ELSE r - 2 ^ (k - 1)

MCDblPeer == [g \in Doublings |-> [k \in Legs(g) |-> [r \in Ranks |-> Flip(r, k)]]]

OneRing == {ring}
OneKing == {king}
None == {}
MCTag ==
  [g \in Graphs |-> IF g = ring THEN <<1, 2>> ELSE IF N = 2 THEN <<5>> ELSE <<5, 6>>]
=============================================================================
