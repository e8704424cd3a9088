------------------------------- MODULE CqPoll -------------------------------
(***************************************************************************)
(* How the application learns that a round is over: qp_ctx::poll looks at  *)
(* the one entry of the completion ring where the last completion of the   *)
(* next round will be written (dv_mgr.cc).  The CQ is created to ignore    *)
(* overrun, so the device writes whatever the released rounds complete and *)
(* nothing tells it what the application has read.                         *)
(***************************************************************************)
EXTENDS Integers

CONSTANTS
  CqeCnt,    \* cq->cqe_cnt, a power of two
  Cqes,      \* qp_ctx::cqes: completions of one round
  Word,      \* 2^32 in the program: poll_cnt wraps there
  Window,    \* rounds the application rings ahead of what it has polled
  MaxRounds  \* bound: rounds rung in all

ASSUME CqShape ==
  /\ CqeCnt \in Nat \ {0}
  /\ Cqes \in 1 .. CqeCnt
  /\ Word \in Nat \ {0}
  /\ Word % (2 * CqeCnt) = 0
  /\ Window \in Nat \ {0}
  /\ MaxRounds \in Nat

VARIABLES
  entry,    \* entry[s]: the op_own byte of slot s
  written,  \* completions the device has written
  rung,     \* rounds released to the device
  pollCnt,  \* qp_ctx::poll_cnt
  curCqe,   \* qp_ctx::cur_cqe, as the number of its slot
  pc,       \* "idle", or "owner" between the two reads of op_own
  polled    \* how often poll has returned 1

hwVars == <<entry, written>>
appVars == <<pollCnt, curCqe, pc, polled>>
vars == <<hwVars, rung, appVars>>

Slots == 0 .. CqeCnt - 1

(* The owner bit flips each time around the ring. *)
Lap(n) == (n \div CqeCnt) % 2

(* The driver's initial entry: no opcode, owned by the device. *)
Blank == [op |-> "invalid", owner |-> 1]

Init ==
  /\ entry = [s \in Slots |-> Blank]
  /\ written = 0
  /\ rung = 0
  /\ pollCnt = Cqes - 1
  /\ curCqe = (Cqes - 1) % CqeCnt
  /\ pc = "idle"
  /\ polled = 0

(* db(): one more round. *)
Ring ==
  /\ pc = "idle"
  /\ rung - polled < Window
  /\ rung < MaxRounds
  /\ rung' = rung + 1
  /\ UNCHANGED <<hwVars, appVars>>

(* The device completes one more operation of a released round.            *)
HwWrite ==
  /\ written < rung * Cqes
  /\ entry' = [entry EXCEPT ![written % CqeCnt] =
                 [op |-> "done", owner |-> Lap(written)]]
  /\ written' = written + 1
  /\ UNCHANGED <<rung, appVars>>

(* poll: the first read of op_own; an invalid opcode makes it return 0.    *)
PollOpcode ==
  /\ pc = "idle"
  /\ entry[curCqe].op # "invalid"
  /\ pc' = "owner"
  /\ UNCHANGED <<hwVars, rung, pollCnt, curCqe, polled>>

(* Mutant: the count does not wrap. *)
PollDoneUnwrapped ==
  /\ pc = "owner"
  /\ entry[curCqe].owner = Lap(pollCnt)
  /\ pollCnt' = pollCnt + Cqes
  /\ curCqe' = pollCnt' % CqeCnt
  /\ polled' = polled + 1
  /\ pc' = "idle"
  /\ UNCHANGED <<hwVars, rung>>

(* Mutant: the owner bit is not looked at. *)
PollDoneAnyOwner ==
  /\ pc = "owner"
  /\ pollCnt' = (pollCnt + Cqes) % Word
  /\ curCqe' = pollCnt' % CqeCnt
  /\ polled' = polled + 1
  /\ pc' = "idle"
  /\ UNCHANGED <<hwVars, rung>>

(* Mutant: cur_cqe is taken from the count before it moves. *)
PollDoneStale ==
  /\ pc = "owner"
  /\ entry[curCqe].owner = Lap(pollCnt)
  /\ pollCnt' = (pollCnt + Cqes) % Word
  /\ curCqe' = pollCnt % CqeCnt
  /\ polled' = polled + 1
  /\ pc' = "idle"
  /\ UNCHANGED <<hwVars, rung>>

(* poll: the second read shows the owner bit of this lap; it returns 1.    *)
PollDone ==
  /\ pc = "owner"
  /\ entry[curCqe].owner = Lap(pollCnt)
  /\ pollCnt' = (pollCnt + Cqes) % Word
  /\ curCqe' = pollCnt' % CqeCnt
  /\ polled' = polled + 1
  /\ pc' = "idle"
  /\ UNCHANGED <<hwVars, rung>>

(* poll: the owner bit is still that of the lap before; it returns 0.      *)
PollMiss ==
  /\ pc = "owner"
  /\ entry[curCqe].owner # Lap(pollCnt)
  /\ pc' = "idle"
  /\ UNCHANGED <<hwVars, rung, pollCnt, curCqe, polled>>

(* Everything rung has been polled. *)
Idle ==
  /\ polled = MaxRounds
  /\ UNCHANGED vars

Poll == PollOpcode \/ PollDone \/ PollMiss

Next == Ring \/ HwWrite \/ Poll \/ Idle

(* The application polls until it sees the round it has rung; the device   *)
(* completes what it was given.                                            *)
Spec == Init /\ [][Next]_vars /\ WF_vars(HwWrite) /\ WF_vars(Poll)
-----------------------------------------------------------------------------
TypeOK ==
  /\ entry \in [Slots -> [op : {"invalid", "done"}, owner : {0, 1}]]
  /\ written \in Nat
  /\ rung \in Nat
  /\ pollCnt \in 0 .. Word - 1
  /\ curCqe \in Slots
  /\ pc \in {"idle", "owner"}
  /\ polled \in Nat

(* The application does not let the device run a whole ring ahead. *)
Pace == (Window - 1) * Cqes < CqeCnt

(* poll returns 1 only for a round whose completions have all been         *)
(* written: neither an entry of an earlier lap nor the driver's blank one  *)
(* passes for it, though op_own is read twice (poll of dv_mgr.cc).         *)
NoFalseCompletion == polled * Cqes <= written

(* No completion the application waits for is written over: when the       *)
(* completions of the next round are all there, the entry poll looks at    *)
(* says so (the CQ ignores overrun, cd_create_cq of qps.cc).               *)
CompletionStays ==
  written >= (polled + 1) * Cqes =>
    entry[curCqe] = [op |-> "done", owner |-> Lap(pollCnt)]

(* The inductive invariant of the proof in CqPollProofs: the entry that    *)
(* poll looks at is that of the last completion of the next round,         *)
Awaited == (polled + 1) * Cqes - 1

PollInv ==
  /\ pollCnt = Awaited % Word
  /\ curCqe = Awaited % CqeCnt
  /\ polled * Cqes <= written
  /\ pc = "owner" => entry[curCqe].op # "invalid"

(* and the ring holds the last completions written, the rest being blank.  *)
EntryInv ==
  /\ \A n \in 0 .. written - 1 :
        n >= written - CqeCnt =>
          entry[n % CqeCnt] = [op |-> "done", owner |-> Lap(n)]
  /\ \A s \in Slots : s >= written => entry[s] = Blank

(* The device stays within what is rung, that within the window.           *)
RungInv == written <= rung * Cqes /\ rung <= polled + Window

IInv == TypeOK /\ PollInv /\ EntryInv /\ RungInv

(* Every round that is rung is seen complete. *)
EveryRoundSeen == \A n \in 1 .. MaxRounds : rung >= n ~> polled >= n
=============================================================================
