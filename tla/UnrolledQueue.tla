--------------------------- MODULE UnrolledQueue ---------------------------
(***************************************************************************)
(* What a persistent management queue promises the author of a collective: *)
(* the queue behaves as if his instruction list had been written out once  *)
(* for every round, each wait and enable instruction carrying the counter  *)
(* of its own round.  There is no ring, no copy and no re-arming here.     *)
(*                                                                         *)
(* The first round carries the counters the constructor wrote; each later  *)
(* round carries them advanced by what the instruction's slave queue moves *)
(* in one round (RearmTasks::add is called with that increment).           *)
(***************************************************************************)
EXTENDS Integers

CONSTANTS
  Wqes,   \* instructions in one round, the padding included (at least one)
  Tasks,  \* the slots, of 0 .. Wqes - 1, whose instruction carries a counter
  Base,   \* Base[t]: the counter written for slot t when the queue was built
  Inc,    \* Inc[t]: how far the counter of slot t moves from round to round
  Word    \* counters are kept modulo Word (2^32 in the program)

VARIABLES
  round,  \* the round the device is in
  slot,   \* instructions of that round it has executed
  sent    \* the instruction executed last, with the counter it carried

uvars == <<round, slot, sent>>

(* The counter that slot t must carry in round n. *)
Index(t, n) == (Base[t] + n * Inc[t]) % Word

(* The counter field of an instruction that has none. *)
NoIndex == -1

Nothing == [round |-> 0, slot |-> 0, index |-> NoIndex]

Init == round = 0 /\ slot = 0 /\ sent = Nothing

Exec ==
  /\ slot < Wqes
  /\ sent' = [round |-> round, slot |-> slot,
              index |-> IF slot \in Tasks THEN Index(slot, round) ELSE NoIndex]
  /\ slot' = slot + 1
  /\ UNCHANGED round

NextRound ==
  /\ slot = Wqes
  /\ round' = round + 1
  /\ slot' = 0
  /\ UNCHANGED sent

Next == Exec \/ NextRound

Spec == Init /\ [][Next]_uvars
=============================================================================
