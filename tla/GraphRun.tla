------------------------------ MODULE GraphRun ------------------------------
(***************************************************************************)
(* A compiled graph at work.  Every rank has built the same graph (module  *)
(* CommGraph) and its device walks the queues: the management queue waits  *)
(* for counts of completions and releases slots of the data queues, the    *)
(* data queues write to the QPs at their other ends, whose completion      *)
(* counts move.  The CPU only calls db() for each round.                   *)
(*                                                                         *)
(* The device fetches the unrolled queue: in round n the counter of an     *)
(* instruction has moved n times by its increment.  That the re-armed ring *)
(* is this queue is what RearmRing shows; that the QPs of different ranks  *)
(* are connected the way Far and Pair say is what RingConnect shows.       *)
(***************************************************************************)
EXTENDS CommGraph

CONSTANTS
  Ranks,
  Far,       \* Far[r][q]: the rank at the other end of r's q
  Scripts,   \* the lists of calls (as queued on iq) that an author may make
  Window,    \* rounds called and not ended, the pace RearmRing asks for
  MaxRounds  \* bound: rounds

ASSUME RunShape ==
  /\ Far \in [Ranks -> [Data -> Ranks]]
  /\ \A r \in Ranks : \A q \in Data :
       /\ Far[Far[r][q]][Pair[q]] = r
       /\ Kind[q] = "loopback" => Far[r][q] = r
  /\ Window \in Nat \ {0}
  /\ MaxRounds \in Nat

VARIABLES
  live,       \* the ranks whose finish() has rung the receive enables
  rounds,     \* rounds[r]: how often db() has been called
  step,       \* step[r]: management instructions executed
  released,   \* released[r][q]: slots of the data queue released
  receives,   \* receives[r][q]: receives enabled
  sent,       \* sent[r][q]: WQEs executed, which is arrived at the other end
  signalled   \* signalled[r][q]: completions of q's own sends

device == <<live, rounds, step, released, receives, sent, signalled>>
runVars == <<vars, device>>

(* The instructions of a block that do something, which fin's padding      *)
(* comes behind, and the n-th of the unrolled queue (from 0).              *)
Block(q) ==
  [k \in 1 .. Cardinality({j \in 1 .. Len(prog[q]) : prog[q][j].op # "nop"}) |-> prog[q][k]]
Nth(q, n) == Block(q)[(n % Len(Block(q))) + 1]
RoundOf(q, n) == IF Block(q) = <<>> THEN 0 ELSE n \div Len(Block(q))

(* What the two CQs of r's q have counted. *)
ScqCount(r, q) == signalled[r][q]
CqCount(r, q) ==
  sent[Far[r][q]][Pair[q]] + (IF HasScq(q) THEN 0 ELSE signalled[r][q])

(* Signalled WQEs among the first n of the unrolled queue. *)
SignalledIn(q, n) ==
  LET upTo(k) == Cardinality({j \in 1 .. k : Block(q)[j].op \in CmplOps})
  IN  IF n = 0 THEN 0
      ELSE RoundOf(q, n) * upTo(Len(Block(q))) + upTo(n % Len(Block(q)))

RunInit ==
  /\ Init
  /\ live = {}
  /\ rounds = [r \in Ranks |-> 0]
  /\ step = [r \in Ranks |-> 0]
  /\ released = [r \in Ranks |-> [q \in Data |-> 0]]
  /\ receives = [r \in Ranks |-> [q \in Data |-> 0]]
  /\ sent = [r \in Ranks |-> [q \in Data |-> 0]]
  /\ signalled = [r \in Ranks |-> [q \in Data |-> 0]]

(* The author keeps to one of the scripts, then calls finish(). *)
Author ==
  /\ \/ /\ Building
        /\ \E s \in Scripts : Len(iq') <= Len(s) /\ \A i \in 1 .. Len(iq') : iq'[i] = s[i]
     \/ Finish /\ iq \in Scripts
  /\ UNCHANGED device

Compile == Finishing /\ UNCHANGED device

(* The end of finish() at rank r: db(recv_enables). *)
GoLive(r) ==
  /\ stage = "ready"
  /\ r \notin live
  /\ live' = live \union {r}
  /\ UNCHANGED <<vars, rounds, step, released, receives, sent, signalled>>

Ended(r) == RoundOf(Mqp, step[r])

(* CommGraph::db, at the pace of the application. *)
Db(r) ==
  /\ r \in live
  /\ rounds[r] < MaxRounds
  /\ rounds[r] - Ended(r) < Window
  /\ rounds' = [rounds EXCEPT ![r] = @ + 1]
  /\ UNCHANGED <<vars, live, step, released, receives, sent, signalled>>

(* The next management instruction of r is op, released, with counter c.   *)
AtCd(r, ops) ==
  /\ r \in live
  /\ Nth(Mqp, step[r]).op \in ops
  /\ RoundOf(Mqp, step[r]) < rounds[r] \/ (step[r] < Len(Block(Mqp))
                                           /\ Nth(Mqp, step[r]).at < rung)
Slave(r) == Nth(Mqp, step[r]).slave
Counter(r) == Nth(Mqp, step[r]).index + RoundOf(Mqp, step[r]) * Nth(Mqp, step[r]).inc

HwRecvEnable(r) ==
  /\ AtCd(r, {"recv_enable"})
  /\ receives' = [receives EXCEPT ![r][Slave(r)] = Counter(r)]
  /\ step' = [step EXCEPT ![r] = @ + 1]
  /\ UNCHANGED <<vars, live, rounds, released, sent, signalled>>

HwSendEnable(r) ==
  /\ AtCd(r, {"send_enable"})
  /\ released' = [released EXCEPT ![r][Slave(r)] = Counter(r)]
  /\ step' = [step EXCEPT ![r] = @ + 1]
  /\ UNCHANGED <<vars, live, rounds, receives, sent, signalled>>

(* A wait is passed when its CQ has the completion with the index given. *)
HwWait(r) ==
  /\ AtCd(r, WaitOps)
  /\ IF Nth(Mqp, step[r]).op = "wait_send" /\ HasScq(Slave(r))
       THEN ScqCount(r, Slave(r)) > Counter(r)
       ELSE CqCount(r, Slave(r)) > Counter(r)
  /\ step' = [step EXCEPT ![r] = @ + 1]
  /\ UNCHANGED <<vars, live, rounds, released, receives, sent, signalled>>

(* A data queue executes its next released WQE, if the other end has a     *)
(* receive for it (else the sender tries again).  NOPs are skipped.        *)
HwSend(r, q) ==
  /\ Len(Block(q)) > 0
  /\ LET w == Nth(q, sent[r][q])
     IN  RoundOf(q, sent[r][q]) * ctx[q].wqes + w.at + w.size <= released[r][q]
  /\ sent[r][q] < receives[Far[r][q]][Pair[q]]
  /\ sent' = [sent EXCEPT ![r][q] = @ + 1]
  /\ UNCHANGED <<vars, live, rounds, step, released, receives, signalled>>

(* Mutant: a completion for a WQE that was not executed. *)
HwAckEarly(r, q) ==
  /\ q \in Registered /\ signalled[r][q] < MaxRounds
  /\ signalled' = [signalled EXCEPT ![r][q] = @ + 1]
  /\ UNCHANGED <<vars, live, rounds, step, released, receives, sent>>

(* The acknowledgement of a signalled WQE is back. *)
HwAck(r, q) ==
  /\ signalled[r][q] < SignalledIn(q, sent[r][q])
  /\ signalled' = [signalled EXCEPT ![r][q] = @ + 1]
  /\ UNCHANGED <<vars, live, rounds, step, released, receives, sent>>

Device(r) ==
  /\ stage = "ready"
  /\ \/ HwRecvEnable(r) \/ HwSendEnable(r) \/ HwWait(r)
     \/ \E q \in Data \intersect Registered : HwSend(r, q) \/ HwAck(r, q)

(* All rounds that will be called have ended. *)
Rest ==
  /\ stage = "ready"
  /\ \A r \in Ranks : r \in live /\ Ended(r) = MaxRounds
  /\ UNCHANGED runVars

RunNext == Author \/ Compile \/ (\E r \in Ranks : GoLive(r) \/ Db(r) \/ Device(r)) \/ Rest

(* Devices execute what is released to them; a collective is called the    *)
(* same number of times by all ranks.                                      *)
RunSpec ==
  /\ RunInit
  /\ [][RunNext]_runVars
  /\ WF_runVars(Compile)
  /\ \A r \in Ranks : WF_runVars(GoLive(r)) /\ WF_runVars(Db(r)) /\ WF_runVars(Device(r))
-----------------------------------------------------------------------------
RunTypeOK ==
  /\ live \subseteq Ranks
  /\ rounds \in [Ranks -> 0 .. MaxRounds]
  /\ step \in [Ranks -> Nat]
  /\ \A r \in Ranks : \A q \in Data :
       /\ released[r][q] \in Nat
       /\ receives[r][q] \in Nat
       /\ sent[r][q] \in Nat
       /\ signalled[r][q] \in 0 .. sent[r][q]

(* In how many rounds r has executed the call that iq has at i. *)
Times(r, i) ==
  LET q == iq[i].qp
      b == Block(q)
      k == CHOOSE j \in 1 .. Len(b) : b[j].ins = i
  IN  (sent[r][q] + Len(b) - k) \div Len(b)

(* What the author sees of a graph, and of the rounds it is called for.    *)
Built == IF stage = "ready" THEN iq ELSE <<>>
Done ==
  [r \in Ranks |->
    IF stage # "ready" THEN <<>>
    ELSE [i \in 1 .. Len(iq) |-> IF iq[i].op \in DataOps THEN Times(r, i) ELSE 0]]
RoundsEnded == [r \in Ranks |-> Ended(r)]
OwnCqs == {q \in Data : HasScq(q)}

AuthorView ==
  INSTANCE Collective WITH
    OwnCq <- OwnCqs, list <- Built, called <- rounds, done <- Done, ended <- RoundsEnded

(* The devices do what the author wrote: through all the counting of the   *)
(* compiler, on every rank and in every round, no operation is executed    *)
(* before the waits in front of it have seen the operations that they      *)
(* stand behind, at the other end and in the same round.                   *)
AsWritten == AuthorView!Spec

(* What the proof of it asks of the author: he does not wait for the sends *)
(* of a DoublingQp, whose writeCmpl counts no completion.                  *)
ScriptsAim ==
  \A s \in Scripts : \A i \in 1 .. Len(s) :
    s[i].op = "wait_send" => Kind[s[i].qp] # "doubling"

(* The collective does not get stuck: every round that all ranks call ends *)
(* on all of them, whatever their relative speed.                          *)
RoundsEnd == (stage = "ready") ~> (\A r \in Ranks : Ended(r) = MaxRounds)
=============================================================================
