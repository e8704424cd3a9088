----------------------------- MODULE CommGraph -----------------------------
(***************************************************************************)
(* How a collective is compiled (qps.cc, and the qp_ctx calls of dv_mgr.cc *)
(* that it makes).  The author constructs queue pairs and calls operations *)
(* on them; each call counts the WQEs and completions it will need and     *)
(* queues instructions.  finish() then creates every queue with the counts *)
(* reached, drains the instructions into the queues, pads and copies every *)
(* queue, and releases the receive enables of the management queue.        *)
(*                                                                         *)
(* Two passes have to agree: what the calls counted sizes the rings and    *)
(* gives the increments of RearmRing, what the drain counts gives the      *)
(* indices.  The completions the device really produces are given by the   *)
(* instruction list itself (CqCqes and Signals below): every rank runs the *)
(* same list, so a write of this rank's queue stands for one that arrives  *)
(* on its pair.                                                            *)
(***************************************************************************)
EXTENDS Integers, Sequences, FiniteSets

CONSTANTS
  Data,      \* the data QPs the author may construct
  Mqp,       \* the management QP
  Kind,      \* Kind[q]: "loopback", "ring" or "doubling"
  Pair,      \* Pair[q]: PcxQp::pair, the other QP of a RingPair or q itself
  SqSlots,   \* SqSlots[n]: the sq.wqe_cnt the provider gives for n WQEs
  Word,      \* the number of WQEs is passed on modulo Word (2^16 in the program)
  PadSize,   \* pad_size of fin, 8 in the program
  LateQps,   \* the author constructs QPs after his first operation
  MaxIns     \* bound: instructions queued

QPs == Data \union {Mqp}

ASSUME GraphShape ==
  /\ Mqp \notin Data
  /\ Kind \in [Data -> {"loopback", "ring", "doubling"}]
  /\ Pair \in [Data -> Data]
  /\ \A q \in Data :
       IF Kind[q] = "ring" THEN /\ Pair[q] # q
                                /\ Kind[Pair[q]] = "ring"
                                /\ Pair[Pair[q]] = q
                           ELSE Pair[q] = q
  /\ \A n \in DOMAIN SqSlots : SqSlots[n] \in Nat /\ SqSlots[n] >= n
  /\ 0 .. 2 * MaxIns \subseteq DOMAIN SqSlots
  /\ PadSize \in Nat \ {0}
  /\ Word \in Nat \ {0}
  /\ LateQps \in BOOLEAN
  /\ MaxIns \in Nat

VARIABLES
  stage,        \* where the life of the graph is
  qps,          \* CommGraph::qps, in order of construction
  iq,           \* CommGraph::iq, kept whole
  drained,      \* how many instructions of iq have been executed and popped
  cursor,       \* the iterator of finish's loops over qps
  wqeCount, cqeCount, scqeCount,  \* the counts of the PcxQps
  recvEnables,  \* ManagementQp::recv_enables
  ctx,          \* ctx[q]: the counters of the qp_ctx, once init made it
  prog,         \* prog[q]: the WQEs in block 0 of the send queue
  rung          \* what the device has been given of the management queue

counts == <<wqeCount, cqeCount, scqeCount, recvEnables>>
vars == <<stage, qps, iq, drained, cursor, counts, ctx, prog, rung>>

HasScq(q) == q # Mqp /\ Kind[q] \in {"ring", "doubling"}

(* Operations that post a WQE on a data QP, each with an immediate that    *)
(* completes on the receive queue of the peer.                             *)
DataOps == {"sendCredit", "write", "writeCmpl", "reduce_write", "reduce_write_cmpl"}
(* Those whose WQE is signalled on the sender's side, too. *)
CmplOps == {"writeCmpl", "reduce_write_cmpl"}
(* What the author writes on the management queue himself. *)
WaitOps == {"wait", "wait_send"}

(* A vector calculation takes two slots of the send queue. *)
Size(op) == IF op \in {"reduce_write", "reduce_write_cmpl"} THEN 2 ELSE 1

Registered == {qps[i] : i \in 1 .. Len(qps)}

Ins(op, q) == [op |-> op, qp |-> q]

NoCtx == [pair |-> "none"]

Plus(f, q, n) == [f EXCEPT ![q] = @ + n]
-----------------------------------------------------------------------------
(* CommGraph's constructor makes the management QP, which registers first. *)
Init ==
  /\ stage = "build"
  /\ qps = <<Mqp>>
  /\ iq = <<>>
  /\ drained = 0
  /\ cursor = 0
  /\ wqeCount = [q \in QPs |-> 0]
  /\ cqeCount = [q \in QPs |-> 0]
  /\ scqeCount = [q \in QPs |-> 0]
  /\ recvEnables = 0
  /\ ctx = [q \in QPs |-> NoCtx]
  /\ prog = [q \in QPs |-> <<>>]
  /\ rung = 0

Room(n) == Len(iq) + n <= MaxIns

(* A constructor: regQp, then ManagementQp::cd_recv_enable. *)
Construct(news) ==
  /\ stage = "build"
  /\ Room(Len(news))
  /\ LateQps \/ \A i \in 1 .. Len(iq) : iq[i].op = "recv_enable"
  /\ qps' = qps \o news
  /\ iq' = iq \o [i \in 1 .. Len(news) |-> Ins("recv_enable", news[i])]
  /\ wqeCount' = Plus(wqeCount, Mqp, Len(news))
  /\ recvEnables' = recvEnables + Len(news)
  /\ UNCHANGED <<stage, drained, cursor, cqeCount, scqeCount, ctx, prog, rung>>

(* LoopbackQp and DoublingQp. *)
NewQp(q) ==
  /\ q \notin Registered
  /\ Kind[q] # "ring"
  /\ Construct(<<q>>)

(* RingPair: the rank's parity decides which of the two comes first. *)
NewPair(q) ==
  /\ q \notin Registered
  /\ Kind[q] = "ring"
  /\ Construct(<<q, Pair[q]>>)

(* Mutant: the completion is counted on the QP itself, not on its pair. *)
OwnCounted(q, op, ownCq, ownScq) ==
  /\ stage = "build"
  /\ q \in Registered \ {Mqp}
  /\ Room(2)
  /\ wqeCount' = Plus(Plus(wqeCount, q, Size(op)), Mqp, 1)
  /\ cqeCount' = Plus(Plus(cqeCount, q, 1), q, ownCq)
  /\ scqeCount' = Plus(scqeCount, q, ownScq)
  /\ iq' = iq \o <<Ins(op, q), Ins("send_enable", q)>>
  /\ UNCHANGED <<stage, qps, drained, cursor, recvEnables, ctx, prog, rung>>

(* What every operation on a data QP does: it counts its WQE and the       *)
(* peer's completion, queues the posting, and has the management QP enable *)
(* it.  ownCq and ownScq count its own send completion.                    *)
Operation(q, op, ownCq, ownScq) ==
  /\ stage = "build"
  /\ q \in Registered \ {Mqp}
  /\ Room(2)
  /\ wqeCount' = Plus(Plus(wqeCount, q, Size(op)), Mqp, 1)
  /\ cqeCount' = Plus(Plus(cqeCount, Pair[q], 1), q, ownCq)
  /\ scqeCount' = Plus(scqeCount, q, ownScq)
  /\ iq' = iq \o <<Ins(op, q), Ins("send_enable", q)>>
  /\ UNCHANGED <<stage, qps, drained, cursor, recvEnables, ctx, prog, rung>>

SendCredit(q) == Operation(q, "sendCredit", 0, 0)

Write(q) == Operation(q, "write", 0, 0)

(* Mutant: the send completion is not counted. *)
UncountedWriteCmpl(q) == Kind[q] # "doubling" /\ Operation(q, "writeCmpl", 0, 0)

(* PcxQp::writeCmpl and RcQp::writeCmpl. *)
WriteCmpl(q) ==
  /\ Kind[q] # "doubling"
  /\ IF HasScq(q) THEN Operation(q, "writeCmpl", 0, 1)
                  ELSE Operation(q, "writeCmpl", 1, 0)

(* DoublingQp::writeCmpl counts no completion of its own. *)
DoublingWriteCmpl(q) ==
  /\ Kind[q] = "doubling"
  /\ Operation(q, "writeCmpl", 0, 0)

ReduceWrite(q) == Operation(q, "reduce_write", 0, 0)

(* RcQp only, so on a RingQp. *)
ReduceWriteCmpl(q) ==
  /\ Kind[q] = "ring"
  /\ IF HasScq(q) THEN Operation(q, "reduce_write_cmpl", 0, 1)
                  ELSE Operation(q, "reduce_write_cmpl", 1, 0)

(* CommGraph::wait and wait_send. *)
Wait(q, op) ==
  /\ stage = "build"
  /\ q \in Registered \ {Mqp}
  /\ Room(1)
  /\ wqeCount' = Plus(wqeCount, Mqp, 1)
  /\ iq' = Append(iq, Ins(op, q))
  /\ UNCHANGED <<stage, qps, drained, cursor, cqeCount, scqeCount, recvEnables,
                 ctx, prog, rung>>

Finish ==
  /\ stage = "build"
  /\ stage' = "init"
  /\ UNCHANGED <<qps, iq, drained, cursor, counts, ctx, prog, rung>>
-----------------------------------------------------------------------------
(* The slots of the ring of a QP that is to hold n WQEs, which             *)
(* create_management_qp and rc_qp_create take as a uint16_t.               *)
Granted(n) == SqSlots[n % Word]

(* The provider rounds up so that two blocks have room.  A graph runs      *)
(* without it; what the proofs of its layout ask for.                      *)
GivesTwice == \A n \in DOMAIN SqSlots : n # 0 => SqSlots[n] % 2 = 0 /\ SqSlots[n] >= 2 * n

(* The least divisor of the ring's slots that n instructions fit in. *)
Rounded(n) ==
  CHOOSE r \in n .. Granted(n) :
    /\ Granted(n) % r = 0
    /\ \A s \in n .. r - 1 : Granted(n) % s # 0

(* Mutant: the block keeps the size asked for. *)
UnroundedCtx(q) ==
  LET n == wqeCount[q]
  IN  [pair |-> q, slots |-> Granted(n), wqes |-> n, dups |-> Granted(n) \div n,
       cqes |-> cqeCount[q], scqes |-> scqeCount[q],
       written |-> 0, cmpl |-> 0, scmpl |-> 0]

(* The constructor of qp_ctx. *)
NewCtx(q) ==
  LET n == wqeCount[q]
  IN  [pair    |-> q,
       slots   |-> Granted(n),
       wqes    |-> Rounded(n),
       dups    |-> Granted(n) \div Rounded(n),
       cqes    |-> cqeCount[q],
       scqes   |-> scqeCount[q],
       written |-> 0,
       cmpl    |-> 0,
       scmpl   |-> 0]

(* A QP that qp_ctx's constructor can size its blocks for. *)
Fits(q) == wqeCount[q] > 0 /\ wqeCount[q] <= Granted(wqeCount[q])

(* init of the next QP.  RingQp::init links the contexts of the pair when  *)
(* the second of them is made.                                             *)
InitQp ==
  /\ stage = "init"
  /\ cursor < Len(qps)
  /\ LET q == qps[cursor + 1]
         peer == IF q = Mqp THEN q ELSE Pair[q]
     IN  /\ Fits(q)
         /\ ctx' = IF peer # q /\ ctx[peer] # NoCtx
                     THEN [ctx EXCEPT ![q] = [NewCtx(q) EXCEPT !.pair = peer],
                                      ![peer].pair = q]
                     ELSE [ctx EXCEPT ![q] = NewCtx(q)]
  /\ cursor' = cursor + 1
  /\ UNCHANGED <<stage, qps, iq, drained, counts, prog, rung>>

(* A QP without a WQE: qp_ctx divides the size of its ring by zero.  A QP  *)
(* that its ring is too small for: qp_ctx complains and returns with its   *)
(* fields unset.                                                           *)
InitTrap ==
  /\ stage = "init"
  /\ cursor < Len(qps)
  /\ ~ Fits(qps[cursor + 1])
  /\ stage' = "trapped"
  /\ UNCHANGED <<qps, iq, drained, cursor, counts, ctx, prog, rung>>

InitDone ==
  /\ stage = "init"
  /\ cursor = Len(qps)
  /\ stage' = "drain"
  /\ cursor' = 0
  /\ UNCHANGED <<qps, iq, drained, counts, ctx, prog, rung>>

(* qp_ctx::sendCredit, write, writeCmpl, reduce_write, reduce_write_cmpl. *)
Posted(c, q, op) ==
  LET own   == IF op \notin CmplOps THEN c
               ELSE IF HasScq(q) THEN [c EXCEPT ![q].scmpl = @ + 1]
               ELSE [c EXCEPT ![q].cmpl = @ + 1]
      wrote == [own EXCEPT ![q].written = @ + Size(op)]
  IN  [wrote EXCEPT ![c[q].pair].cmpl = @ + 1]

PostData(i) ==
  LET q == iq[i].qp
      op == iq[i].op
  IN  /\ op \in DataOps
      /\ prog' = [prog EXCEPT ![q] = Append(@,
                    [op |-> op, ins |-> i, at |-> ctx[q].written % ctx[q].slots,
                     size |-> Size(op)])]
      /\ ctx' = Posted(ctx, q, op)

(* A coredirect instruction of the management queue: its slave, the index  *)
(* of the first round and the increment of each later one.                 *)
PostCd(i, index, inc) ==
  /\ prog' = [prog EXCEPT ![Mqp] = Append(@,
                [op |-> iq[i].op, ins |-> i, at |-> ctx[Mqp].written % ctx[Mqp].slots,
                 size |-> 1, slave |-> iq[i].qp, index |-> index, inc |-> inc])]
  /\ ctx' = [ctx EXCEPT ![Mqp].written = @ + 1]

(* Mutant: the index names the last WQE instead of the one after it. *)
CdSendEnableShort(i) ==
  /\ iq[i].op = "send_enable"
  /\ PostCd(i, ctx[iq[i].qp].written - 1, ctx[iq[i].qp].wqes)

CdSendEnable(i) ==
  /\ iq[i].op = "send_enable"
  /\ PostCd(i, ctx[iq[i].qp].written, ctx[iq[i].qp].wqes)

(* 0x6fff: every receive the queue will ever hold. *)
AllReceives == 28671

CdRecvEnable(i) ==
  /\ iq[i].op = "recv_enable"
  /\ PostCd(i, AllReceives, ctx[iq[i].qp].cqes)

(* Mutant: the wait takes the count for the index. *)
CdWaitUnshifted(i) ==
  /\ iq[i].op = "wait" \/ (iq[i].op = "wait_send" /\ ~ HasScq(iq[i].qp))
  /\ PostCd(i, ctx[iq[i].qp].cmpl, ctx[iq[i].qp].cqes)

(* A cd_wait_send of a QP without a send CQ is a cd_wait. *)
CdWait(i) ==
  /\ iq[i].op = "wait" \/ (iq[i].op = "wait_send" /\ ~ HasScq(iq[i].qp))
  /\ PostCd(i, ctx[iq[i].qp].cmpl - 1, ctx[iq[i].qp].cqes)

CdWaitSend(i) ==
  /\ iq[i].op = "wait_send" /\ HasScq(iq[i].qp)
  /\ PostCd(i, ctx[iq[i].qp].scmpl - 1, ctx[iq[i].qp].scqes)

(* finish: the front of iq is executed and popped. *)
Drain ==
  /\ stage = "drain"
  /\ drained < Len(iq)
  /\ LET i == drained + 1
     IN  PostData(i) \/ CdSendEnable(i) \/ CdRecvEnable(i) \/ CdWait(i) \/ CdWaitSend(i)
  /\ drained' = drained + 1
  /\ UNCHANGED <<stage, qps, iq, cursor, counts, rung>>

DrainDone ==
  /\ stage = "drain"
  /\ drained = Len(iq)
  /\ stage' = "fin"
  /\ UNCHANGED <<qps, iq, drained, cursor, counts, ctx, prog, rung>>

(* Mutant: whole pads only. *)
WholePads(q) ==
  LET c == ctx[q]
      full == (c.wqes - c.written + PadSize - 1) \div PadSize
  IN  [i \in 1 .. full |-> [op |-> "nop", ins |-> 0,
        at |-> (c.written + (i - 1) * PadSize) % c.slots, size |-> PadSize]]

(* Mutant: the rest is taken for one pad less than there are. *)
ShortRestPads(q) ==
  LET c == ctx[q]
      rest == c.wqes - c.written
      full == IF rest > PadSize THEN rest \div PadSize ELSE 0
  IN  [i \in 1 .. full + 1 |-> [op |-> "nop", ins |-> 0,
        at |-> (c.written + (i - 1) * PadSize) % c.slots,
        size |-> IF i <= full THEN PadSize ELSE rest - (full + 1) * PadSize]]

(* fin fills the block with NOPs of PadSize slots and one of the rest; it  *)
(* writes that last one even when no slot is left for it.                  *)
Pads(q) ==
  LET c == ctx[q]
      rest == c.wqes - c.written
      full == IF rest > PadSize THEN (rest - 1) \div PadSize ELSE 0
  IN  [i \in 1 .. full + 1 |->
        [op |-> "nop", ins |-> 0, at |-> (c.written + (i - 1) * PadSize) % c.slots,
         size |-> IF i <= full THEN PadSize ELSE rest - full * PadSize]]

(* Mutant: fin's loop misses the QP made last. *)
FinQpShort ==
  /\ stage = "fin"
  /\ cursor + 1 < Len(qps)
  /\ prog' = [prog EXCEPT ![qps[cursor + 1]] = @ \o Pads(qps[cursor + 1])]
  /\ ctx' = [ctx EXCEPT ![qps[cursor + 1]].written = @ + 1]
  /\ cursor' = cursor + 1
  /\ UNCHANGED <<stage, qps, iq, drained, counts, rung>>

FinQp ==
  /\ stage = "fin"
  /\ cursor < Len(qps)
  /\ LET q == qps[cursor + 1]
     IN  /\ prog' = [prog EXCEPT ![q] = @ \o Pads(q)]
         /\ ctx' = [ctx EXCEPT ![q].written = ctx[q].wqes]
  /\ cursor' = cursor + 1
  /\ UNCHANGED <<stage, qps, iq, drained, counts, rung>>

(* Mutant: db() in the place of db(recv_enables). *)
FinishDbAll ==
  /\ stage = "fin"
  /\ cursor = Len(qps)
  /\ rung' = ctx[Mqp].wqes
  /\ stage' = "ready"
  /\ UNCHANGED <<qps, iq, drained, cursor, counts, ctx, prog>>

(* finish: mqp->db(mqp->recv_enables). *)
FinishDb ==
  /\ stage = "fin"
  /\ cursor = Len(qps)
  /\ rung' = recvEnables
  /\ stage' = "ready"
  /\ UNCHANGED <<qps, iq, drained, cursor, counts, ctx, prog>>

(* The graph is built, or its construction has died. *)
Over ==
  /\ stage \in {"ready", "trapped"}
  /\ UNCHANGED vars

Building ==
  \E q \in Data :
    \/ NewQp(q) \/ NewPair(q)
    \/ SendCredit(q) \/ Write(q) \/ WriteCmpl(q) \/ DoublingWriteCmpl(q)
    \/ ReduceWrite(q) \/ ReduceWriteCmpl(q)
    \/ \E op \in WaitOps : Wait(q, op)

Finishing ==
  InitQp \/ InitTrap \/ InitDone \/ Drain \/ DrainDone \/ FinQp \/ FinishDb

Next == Building \/ Finish \/ Finishing \/ Over

(* finish() is one call that nothing interrupts. *)
Spec == Init /\ [][Next]_vars /\ WF_vars(Finishing)
-----------------------------------------------------------------------------
Wqe == [op : DataOps \union {"nop"}, ins : Nat, at : Nat, size : Nat]
CdWqe == [op : WaitOps \union {"send_enable", "recv_enable"}, ins : Nat, at : Nat,
          size : {1}, slave : Data, index : Nat \union {-1}, inc : Nat]
Ctx == [pair : QPs, slots : Nat, wqes : Nat, dups : Nat, cqes : Nat, scqes : Nat,
        written : Nat, cmpl : Nat, scmpl : Nat]

TypeOK ==
  /\ stage \in {"build", "init", "drain", "fin", "ready", "trapped"}
  /\ qps \in Seq(QPs)
  /\ iq \in Seq([op : DataOps \union WaitOps \union {"send_enable", "recv_enable"},
                 qp : Data])
  /\ drained \in 0 .. Len(iq)
  /\ cursor \in 0 .. Len(qps)
  /\ wqeCount \in [QPs -> Nat]
  /\ cqeCount \in [QPs -> Nat]
  /\ scqeCount \in [QPs -> Nat]
  /\ recvEnables \in Nat
  /\ ctx \in [QPs -> Ctx \union {NoCtx}]
  /\ DOMAIN prog = QPs
  /\ \A q \in Data : prog[q] \in Seq(Wqe)
  /\ prog[Mqp] \in Seq(Wqe \union CdWqe)
  /\ rung \in Nat

(* What the device completes in the first n instructions of a round: the   *)
(* sends of q that are signalled, the writes that arrive at q, and what of *)
(* it goes to the CQ of q.                                                 *)
Signals(q, n) == Cardinality({i \in 1 .. n : iq[i].op \in CmplOps /\ iq[i].qp = q})
Arrivals(q, n) == Cardinality({i \in 1 .. n : iq[i].op \in DataOps /\ Pair[iq[i].qp] = q})
CqCqes(q, n) == Arrivals(q, n) + (IF HasScq(q) THEN 0 ELSE Signals(q, n))

Written(q, ops) == {k \in 1 .. Len(prog[q]) : prog[q][k].op \in ops}

(* A wait on the receive side waits for the last completion that the       *)
(* operations before it cause, in every round: its index is the number of  *)
(* these completions less one and it moves by a whole round's completions  *)
(* (cmpl_cnt, counted by the drain, against cqe_count, by the calls).      *)
WaitsAim ==
  \A k \in Written(Mqp, WaitOps) :
    LET w == prog[Mqp][k]
    IN  w.op = "wait" \/ ~ HasScq(w.slave) =>
          /\ w.index = CqCqes(w.slave, w.ins) - 1
          /\ w.inc = CqCqes(w.slave, Len(iq))

(* The same of a wait for the queue's own sends, where there is a send CQ  *)
(* (scq->cmpl_cnt against scqe_count).                                     *)
SendWaitsAim ==
  \A k \in Written(Mqp, {"wait_send"}) :
    LET w == prog[Mqp][k]
    IN  HasScq(w.slave) =>
          /\ w.index = Signals(w.slave, w.ins) - 1
          /\ w.inc = Signals(w.slave, Len(iq))

(* An enable releases just the WQEs that were written before it, in this   *)
(* round and in every later one (cd_send_enable against the posting        *)
(* operations and the padding of the data queue).                          *)
EnablesCover ==
  stage = "ready" =>
    \A k \in Written(Mqp, {"send_enable"}) :
      LET e == prog[Mqp][k]
          q == e.slave
      IN  /\ e.inc = ctx[q].wqes
          /\ \A j \in Written(q, DataOps) :
               LET w == prog[q][j]
               IN  IF w.ins < e.ins THEN w.at + w.size <= e.index ELSE e.index <= w.at

(* The slots a WQE of block 0 takes; an empty NOP still writes a header. *)
Slots(w) == w.at .. (w.at + (IF w.size = 0 THEN 1 ELSE w.size) - 1)

(* When the queues are ready every slot of a block belongs to exactly one  *)
(* WQE: what the calls counted is what the drain wrote, and the padding    *)
(* fills the rest without touching it (wqe_count, write_cnt and fin).      *)
BlockTiled ==
  stage = "ready" =>
    \A q \in Registered :
      LET block == {k \in 1 .. Len(prog[q]) : prog[q][k].at < ctx[q].wqes}
      IN  /\ UNION {Slots(prog[q][k]) : k \in block} = 0 .. ctx[q].wqes - 1
          /\ \A j, k \in block :
               j # k => Slots(prog[q][j]) \intersect Slots(prog[q][k]) = {}

(* What finish() rings is the receive enables of all QPs and nothing that  *)
(* would start the collective (the order of iq against recv_enables).      *)
RecvEnablesFirst ==
  stage = "ready" =>
    {<<prog[Mqp][k].op, prog[Mqp][k].slave>> : k \in {j \in 1 .. Len(prog[Mqp]) :
        prog[Mqp][j].op # "nop" /\ prog[Mqp][j].at < rung}}
      = {<<"recv_enable", q>> : q \in Registered \ {Mqp}}

(* The queue handed over has the shape that RearmRing assumes of it, with  *)
(* two blocks at least.                                                    *)
FeedsRing ==
  stage = "ready" =>
    /\ ctx[Mqp].wqes * ctx[Mqp].dups = ctx[Mqp].slots
    /\ ctx[Mqp].dups >= 2
    /\ rung <= ctx[Mqp].wqes
    /\ \A k \in Written(Mqp, WaitOps \union {"send_enable", "recv_enable"}) :
         prog[Mqp][k].at < ctx[Mqp].wqes

(* finish() returns for every graph that gives each of its QPs work to do, *)
(* and less than the 16 bits of the queue size can tell (qp_ctx's          *)
(* constructor, create_management_qp, and finish's three loops).           *)
Finishes ==
  (stage = "init" /\ \A q \in Registered : wqeCount[q] \in 1 .. Word - 1) ~> stage = "ready"
=============================================================================
