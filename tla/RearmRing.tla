----------------------------- MODULE RearmRing -----------------------------
(***************************************************************************)
(* The send queue of the management QP as a ring of Dups copies of one     *)
(* instruction list (qp_ctx in dv_mgr.cc).  The host fills block 0, fin()  *)
(* copies it into the other blocks and re-arms some of them ahead of time; *)
(* from then on the application rings one round (db), re-arms one block    *)
(* (rearm) and polls for the end of a round, while the device walks the    *)
(* ring on its own and executes whatever the doorbell has released.        *)
(*                                                                         *)
(* rearm() stores into memory the device may be executing from.  Nothing   *)
(* in the code synchronises the two but the application's polling, so      *)
(* Window and PollSlot, which the code leaves to its caller, are           *)
(* parameters here, and Envelope says for which of them the ring is safe.  *)
(***************************************************************************)
EXTENDS Integers

CONSTANTS
  Wqes,         \* qp_ctx::wqes: instructions of one block, padding included
  Tasks,        \* the slots given to tasks.add: their counter is re-armed
  Base,         \* Base[t]: the counter the cd_ call wrote into block 0
  Inc,          \* Inc[t]: the increment given to tasks.add
  Word,         \* 2^32 in the program: width of counters and of fin's loop
  Dups,         \* qp_ctx::number_of_duplicates = sq.wqe_cnt / wqes
  RecvEnables,  \* what finish() rings with db(recv_enables)
  PollSlot,     \* instructions of a round that precede the completion the
                \* application polls for
  Window,       \* rounds the application rings ahead of what it has polled
  MaxRounds     \* bound: rounds rung in all

ASSUME RingShape ==
  /\ Wqes \in Nat \ {0}
  /\ Tasks \subseteq 0 .. Wqes - 1
  /\ Word \in Nat \ {0}
  /\ Base \in [Tasks -> 0 .. Word - 1]
  /\ Inc \in [Tasks -> Nat]
  /\ Dups \in Nat \ {0}
  /\ RecvEnables \in 0 .. Wqes
  /\ PollSlot \in 0 .. Wqes
  /\ Window \in Nat \ {0}
  /\ MaxRounds \in Nat

VARIABLES
  counter,  \* counter[b][t]: the index field of slot t in block b
  phase,    \* qp_ctx::phase, the block rearm reads from
  pc,       \* where the host is
  dups,     \* the loop variable of fin
  todo,     \* the tasks the rearm call under way has still to store
  ready,    \* finish has rung the first doorbell
  rung,     \* exe_cnt / wqes: rounds rung by db()
  polled,   \* rounds the application has seen complete
  round, slot, sent  \* the device, as in UnrolledQueue

hostVars == <<counter, phase, pc, dups, todo, ready, rung, polled>>
hwVars == <<round, slot, sent>>
vars == <<hostVars, hwVars>>

(* The promise this ring has to keep. *)
Unrolled == INSTANCE UnrolledQueue

Blocks == 0 .. Dups - 1

(* Mutant: the loop of fin arms one block more. *)
ArmOneMore == (Dups - 1) % Word

(* "number_of_duplicates - 2" is an unsigned subtraction. *)
ArmBound == (Dups - 2) % Word

(* The number of rearm() calls of fin's loop. *)
PreArms == IF ArmBound >= 1 THEN ArmBound - 1 ELSE 0
-----------------------------------------------------------------------------
Init ==
  /\ counter = [b \in Blocks |-> [t \in Tasks |-> IF b = 0 THEN Base[t] ELSE 0]]
  /\ phase = 0
  /\ pc = "copy"
  /\ dups = 1
  /\ todo = {}
  /\ ready = FALSE
  /\ rung = 0
  /\ polled = 0
  /\ Unrolled!Init

(* fin: the memcpy of block 0 into every other block. *)
FinCopy ==
  /\ pc = "copy"
  /\ counter' = [b \in Blocks |-> counter[0]]
  /\ pc' = "loop"
  /\ UNCHANGED <<phase, dups, todo, ready, rung, polled, hwVars>>

(* fin: one turn of the loop that calls rearm. *)
FinLoop ==
  /\ pc = "loop"
  /\ dups < ArmBound
  /\ pc' = "arm"
  /\ todo' = Tasks
  /\ UNCHANGED <<counter, phase, dups, ready, rung, polled, hwVars>>

(* finish: db(recv_enables) once fin has left its loop. *)
FinRing ==
  /\ pc = "loop"
  /\ ~ (dups < ArmBound)
  /\ pc' = "run"
  /\ ready' = TRUE
  /\ UNCHANGED <<counter, phase, dups, todo, rung, polled, hwVars>>

(* rearm, before its stores: the application's own call. *)
Rearm ==
  /\ pc = "due"
  /\ pc' = "arm"
  /\ todo' = Tasks
  /\ UNCHANGED <<counter, phase, dups, ready, rung, polled, hwVars>>

(* Mutant: the counter does not wrap. *)
ArmUnwrapped(t) ==
  /\ pc = "arm"
  /\ t \in todo
  /\ counter' = [counter EXCEPT ![(phase + 1) % Dups][t] = counter[phase][t] + Inc[t]]
  /\ todo' = todo \ {t}
  /\ UNCHANGED <<phase, pc, dups, ready, rung, polled, hwVars>>

(* ValRearmTasks::exec: one store, read from block phase, written to the   *)
(* block after it.                                                         *)
ArmTask(t) ==
  /\ pc = "arm"
  /\ t \in todo
  /\ counter' = [counter EXCEPT ![(phase + 1) % Dups][t] =
                                    (counter[phase][t] + Inc[t]) % Word]
  /\ todo' = todo \ {t}
  /\ UNCHANGED <<phase, pc, dups, ready, rung, polled, hwVars>>

(* Mutant: the next rearm starts from the same block. *)
ArmEndStuck ==
  /\ pc = "arm"
  /\ todo = {}
  /\ IF ready THEN pc' = "run" /\ UNCHANGED dups
              ELSE pc' = "loop" /\ dups' = dups + 1
  /\ UNCHANGED <<counter, phase, todo, ready, rung, polled, hwVars>>

(* rearm, after its stores; in fin the loop goes on. *)
ArmEnd ==
  /\ pc = "arm"
  /\ todo = {}
  /\ phase' = (phase + 1) % Dups
  /\ IF ready THEN pc' = "run" /\ UNCHANGED dups
              ELSE pc' = "loop" /\ dups' = dups + 1
  /\ UNCHANGED <<counter, todo, ready, rung, polled, hwVars>>

(* db(): one more round is released to the device. *)
Db ==
  /\ pc = "run"
  /\ rung - polled < Window
  /\ rung < MaxRounds
  /\ rung' = rung + 1
  /\ pc' = "due"
  /\ UNCHANGED <<counter, phase, dups, todo, ready, polled, hwVars>>

(* Mutant: the application takes the start of a round for its end. *)
PollEarly ==
  /\ pc \in {"run", "due"}
  /\ polled < rung
  /\ round >= polled
  /\ polled' = polled + 1
  /\ UNCHANGED <<counter, phase, pc, dups, todo, ready, rung, hwVars>>

(* The application finds the completion of the next round it waits for. *)
Poll ==
  /\ pc \in {"run", "due"}
  /\ polled < rung
  /\ round > polled \/ (round = polled /\ slot >= PollSlot)
  /\ polled' = polled + 1
  /\ UNCHANGED <<counter, phase, pc, dups, todo, ready, rung, hwVars>>

(* The first n instructions of round r are the device's to execute. *)
Granted(r, s) == r < rung \/ (ready /\ r = 0 /\ s < RecvEnables)

(* The device executes the next instruction, as it stands in the ring. *)
HwExec ==
  /\ slot < Wqes
  /\ Granted(round, slot)
  /\ sent' = [round |-> round, slot |-> slot,
              index |-> IF slot \in Tasks THEN counter[round % Dups][slot]
                                          ELSE Unrolled!NoIndex]
  /\ slot' = slot + 1
  /\ UNCHANGED <<round, hostVars>>

(* The device goes on to the next block of the ring. *)
HwNextRound ==
  /\ slot = Wqes
  /\ round + 1 < rung
  /\ round' = round + 1
  /\ slot' = 0
  /\ UNCHANGED <<sent, hostVars>>

(* All MaxRounds rounds are over. *)
Idle ==
  /\ pc = "run"
  /\ polled = MaxRounds
  /\ UNCHANGED vars

Next ==
  \/ FinCopy \/ FinLoop \/ FinRing
  \/ Rearm \/ (\E t \in Tasks : ArmTask(t)) \/ ArmEnd
  \/ Db \/ Poll
  \/ HwExec \/ HwNextRound
  \/ Idle

Spec == Init /\ [][Next]_vars
-----------------------------------------------------------------------------
TypeOK ==
  /\ counter \in [Blocks -> [Tasks -> 0 .. Word - 1]]
  /\ phase \in Blocks
  /\ pc \in {"copy", "loop", "arm", "run", "due"}
  /\ dups \in Nat \ {0}
  /\ todo \subseteq Tasks
  /\ ready \in BOOLEAN
  /\ rung \in Nat
  /\ polled \in Nat
  /\ round \in Nat
  /\ slot \in 0 .. Wqes

(* Every task precedes the completion that is polled, so a polled round    *)
(* has no re-armed instruction left to execute.                            *)
TailSafe == \A t \in Tasks : t < PollSlot

(* The ring keeps enough distance between the block that is re-armed and   *)
(* the blocks the device may be in.                                        *)
Envelope == Window + (IF TailSafe THEN 0 ELSE 1) + PreArms < Dups

(* Slot t of round n is released and the device has not executed it. *)
Pending(n, t) ==
  /\ Granted(n, t)
  /\ n > round \/ (n = round /\ t >= slot)

(* Block n % Dups holds what slot t must carry in round n. *)
Holds(n, t) == counter[n % Dups][t] = Unrolled!Index(t, n)

(* Whatever the device may fetch now carries the counter of its own round: *)
(* rearm() has reached every released block, and none has been armed again *)
(* for a later round while instructions of this one are outstanding        *)
(* (dv_mgr.cc, rearm against db).                                          *)
RungArmed ==
  \A n \in 0 .. rung : \A t \in Tasks : Pending(n, t) => Holds(n, t)

(* No store of rearm() changes the counter of an instruction that is       *)
(* released and not yet executed: the code has no lock between the two, so *)
(* a device fetch may fall on either side of the store.                    *)
NoLiveOverwrite ==
  [][\A n \in 0 .. rung : \A t \in Tasks :
        Pending(n, t) => counter'[n % Dups][t] = counter[n % Dups][t]]_vars

(* The device sees the list as if it had been written out once per round   *)
(* (what the rearm scheme of dv_mgr.cc stands in for).                     *)
KeepsPromise == Unrolled!Spec
-----------------------------------------------------------------------------
(* The inductive invariant of the proofs in RearmRingProofs. *)

(* The last round some block is fully armed for. *)
Armed ==
  IF ready THEN PreArms + rung - (IF pc \in {"due", "arm"} THEN 1 ELSE 0)
           ELSE dups - 1

(* The rounds the Dups blocks hold; the one being armed holds none. *)
InRing(n) ==
  /\ n >= 0
  /\ n <= Armed
  /\ n > Armed - Dups + (IF pc = "arm" THEN 1 ELSE 0)

HostInv ==
  /\ phase = Armed % Dups
  /\ pc = "copy" => dups = 1 /\ counter[0] = Base
  /\ pc # "arm" => todo = {}
  /\ pc \in {"copy", "loop"} => ~ ready
  /\ pc \in {"run", "due"} => ready
  /\ (pc = "due" \/ (pc = "arm" /\ ready)) => rung >= 1
  /\ ~ ready => rung = 0 /\ dups <= PreArms + 1
  /\ (pc = "arm" /\ ~ ready) => dups <= PreArms

(* The device stays within what was rung, the application within what the  *)
(* device did.                                                             *)
DeviceInv ==
  /\ round < rung \/ (round = 0 /\ rung = 0 /\ slot <= RecvEnables)
  /\ ~ ready => slot = 0
  /\ polled <= rung
  /\ rung <= polled + Window
  /\ polled <= round \/ (polled = round + 1 /\ slot >= PollSlot)

ArmedInv ==
  /\ pc # "copy" => \A n \in 0 .. Armed : InRing(n) => \A t \in Tasks : Holds(n, t)
  /\ pc = "arm" => \A t \in Tasks \ todo : Holds(Armed + 1, t)

IInv == TypeOK /\ HostInv /\ DeviceInv /\ ArmedInv
=============================================================================
