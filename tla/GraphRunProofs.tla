--------------------------- MODULE GraphRunProofs ---------------------------
(***************************************************************************)
(* The devices do what the author wrote, for every list of calls, every    *)
(* number of ranks and rounds and whatever their relative speed: a graph   *)
(* that is compiled and run (GraphRun) implements the collective that its  *)
(* author called (Collective).                                             *)
(***************************************************************************)
EXTENDS GraphRun, CommBlockProofs

-----------------------------------------------------------------------------
(* How many of the first n calls are instructions of queue q; that of an   *)
(* instruction is where it lies in the block.                              *)

Mine(q, i) ==
  IF q = Mqp THEN iq[i].op \in CdOps /\ iq[i].qp \in Data
             ELSE iq[i].op \in DataOps /\ iq[i].qp = q
Nr(q, n) == IF q = Mqp THEN CountIn(iq, CdOps, Data, n) ELSE CountIn(iq, DataOps, {q}, n)

LEMMA NrIs ==
  ASSUME NEW q, NEW n \in Nat
  PROVE  /\ Nr(q, n) \in Nat /\ Nr(q, n) <= n
         /\ Nr(q, 0) = 0
         /\ Nr(q, n + 1) = Nr(q, n) + (IF Mine(q, n + 1) THEN 1 ELSE 0)
<1>1. CASE q = Mqp
  BY <1>1, ChosenFinite, CountZero, CountStep DEF Nr, Mine
<1>2. CASE q # Mqp
  BY <1>2, ChosenFinite, CountZero, CountStep DEF Nr, Mine
<1> QED
  BY <1>1, <1>2

LEMMA NrGrows ==
  ASSUME NEW q, NEW m \in Nat, NEW n \in Nat, m <= n
  PROVE  Nr(q, m) <= Nr(q, n)
BY CountGrows DEF Nr

(* Instructions of a queue are told apart by their numbers.                *)
LEMMA NrTells ==
  ASSUME NEW q, NEW i \in Nat \ {0}, NEW n \in Nat, Mine(q, i)
  PROVE  /\ i <= n <=> Nr(q, i) <= Nr(q, n)
         /\ Nr(q, i) = Nr(q, i - 1) + 1
<1>1. PICK j \in Nat : j + 1 = i
  <2>1. i - 1 \in Nat /\ (i - 1) + 1 = i
    OBVIOUS
  <2> QED
    BY <2>1
<1>2. Nr(q, i) = Nr(q, j) + 1 /\ Nr(q, j) \in Nat
  BY <1>1, NrIs
<1>3. CASE i <= n
  BY <1>1, <1>2, <1>3, NrGrows
<1>4. CASE n < i
  <2>1. Nr(q, n) <= Nr(q, j) /\ Nr(q, n) \in Nat
    BY <1>1, <1>4, NrGrows, NrIs
  <2> QED
    BY <1>1, <1>2, <1>4, <2>1
<1> QED
  BY <1>3, <1>4
-----------------------------------------------------------------------------
(* The invariant of the compiler that says so.                             *)

OrderOf(q) ==
  /\ Nr(q, drained) <= Len(prog[q])
  /\ \A k \in 1 .. Len(prog[q]) : prog[q][k].op # "nop" <=> k <= Nr(q, drained)
  /\ \A k \in 1 .. Nr(q, drained) : Nr(q, prog[q][k].ins) = k
  /\ stage \notin {"fin", "ready"} => Len(prog[q]) = Nr(q, drained)

RecvIndex ==
  \A k \in 1 .. Len(prog[Mqp]) :
    prog[Mqp][k].op = "recv_enable" => prog[Mqp][k].index = AllReceives

OrderInv == RecvIndex /\ \A q \in QPs : OrderOf(q)

LEMMA OrderStart ==
  ASSUME drained = 0, Mqp \in QPs, \A q \in QPs : prog[q] = <<>>
  PROVE  OrderInv
<1>1. \A q \in QPs : Nr(q, drained) = 0 /\ Len(prog[q]) = 0
  BY NrIs
<1> QED
  BY <1>1 DEF OrderInv, OrderOf, RecvIndex

LEMMA OrderNone ==
  ASSUME drained' = 0, \A q \in QPs : prog'[q] = <<>>
  PROVE  OrderInv'
<1>1. ASSUME NEW q \in QPs
      PROVE  Nr(q, drained)' = 0 /\ Len(prog'[q]) = 0
  <2>1. Nr(q, 0)' = 0
    BY CountZero DEF Nr
  <2> QED
    BY <2>1
<1>2. Len(prog'[Mqp]) = 0
  BY <1>1 DEF QPs
<1>3. RecvIndex'
  BY <1>2 DEF RecvIndex
<1>4. ASSUME NEW q \in QPs
      PROVE  OrderOf(q)'
  BY <1>1 DEF OrderOf
<1> QED
  BY <1>3, <1>4 DEF OrderInv

LEMMA OrderKept ==
  ASSUME OrderInv, UNCHANGED <<iq, drained, prog>>,
         stage' \in {"fin", "ready"} \/ stage' = stage
  PROVE  OrderInv'
<1>1. \A q, n : Nr(q, n)' = Nr(q, n)
  BY DEF Nr, CountIn, Chosen
<1>2. RecvIndex'
  BY DEF OrderInv, RecvIndex
<1>3. ASSUME NEW q \in QPs
      PROVE  OrderOf(q)'
  BY <1>1 DEF OrderInv, OrderOf
<1> QED
  BY <1>2, <1>3 DEF OrderInv

(* A queue gets its next instruction.                                      *)
LEMMA OrderPosted ==
  ASSUME IInv, OrderInv, stage = "drain", UNCHANGED <<stage, iq>>, drained' = drained + 1,
         NEW p \in QPs, NEW w, w \in Wqe \union CdWqe,
         prog' = [prog EXCEPT ![p] = Append(@, w)],
         w.op # "nop", w.ins = drained + 1,
         \A q \in QPs : Mine(q, drained + 1) <=> q = p,
         w.op = "recv_enable" => w.index = AllReceives
  PROVE  OrderInv'
<1> DEFINE W == Wqe \union CdWqe
<1>1. DOMAIN prog = QPs /\ \A x \in QPs : prog[x] \in Seq(W)
  BY DEF IInv, TypeOK, QPs
<1>2. PICK d \in Nat : d = drained
  BY DEF IInv, TypeOK
<1>3. \A q, n : Nr(q, n)' = Nr(q, n)
  BY DEF Nr, CountIn, Chosen
<1>4. PICK n \in Nat : n = Len(prog[p])
  BY <1>1
<1>5. /\ Len(prog'[p]) = n + 1
      /\ \A k \in 1 .. n : prog'[p][k] = prog[p][k]
      /\ prog'[p][n + 1] = w
  <2>1. prog'[p] = Append(prog[p], w) /\ prog[p] \in Seq(W) /\ w \in W
    BY <1>1
  <2> QED
    BY <1>4, <2>1
<1>6. \A q \in QPs : q # p => prog'[q] = prog[q]
  BY <1>1
<1>7. RecvIndex'
  <2> SUFFICES ASSUME Mqp = p
               PROVE  RecvIndex'
    BY <1>6 DEF OrderInv, RecvIndex, QPs
  <2>1. \A k \in 1 .. n + 1 : k \in 1 .. n \/ k = n + 1
    OBVIOUS
  <2> QED
    BY <1>4, <1>5, <2>1 DEF OrderInv, RecvIndex
<1>8. ASSUME NEW q \in QPs
      PROVE  OrderOf(q)'
  <2>1. OrderOf(q)
    BY DEF OrderInv
  <2>2. Nr(q, d) \in Nat /\ Nr(q, d + 1) = Nr(q, d) + (IF q = p THEN 1 ELSE 0)
    BY <1>2, NrIs
  <2>3. CASE q # p
    <3>1. prog'[q] = prog[q] /\ Nr(q, d + 1) = Nr(q, d)
      BY <1>6, <2>2, <2>3
    <3> QED
      BY <1>2, <1>3, <2>1, <3>1 DEF OrderOf
  <2>4. CASE q = p
    <3>1. PICK m \in Nat : m = Nr(p, d) /\ Nr(p, d + 1) = m + 1
      BY <2>2, <2>4
    <3>2. n = m
      BY <1>2, <1>4, <2>1, <2>4, <3>1 DEF OrderOf
    <3>3. /\ Nr(p, drained)' = m + 1 /\ Len(prog'[p]) = m + 1
          /\ \A k \in 1 .. m : prog'[p][k] = prog[p][k]
          /\ prog'[p][m + 1] = w
      BY <1>2, <1>3, <1>5, <3>1, <3>2
    <3>4. \A k \in 1 .. m : prog[p][k].op # "nop" /\ Nr(p, prog[p][k].ins) = k
      <4>1. /\ \A k \in 1 .. m : k <= m
            /\ Nr(p, drained) = m /\ Len(prog[p]) = m
        BY <1>2, <1>4, <3>1, <3>2
      <4> QED
        BY <2>1, <2>4, <4>1 DEF OrderOf
    <3>5. Nr(p, w.ins) = m + 1 /\ w.op # "nop"
      BY <1>2, <3>1
    <3>6. \A k \in 1 .. m + 1 : /\ k \in 1 .. m \/ k = m + 1
                                /\ k <= m + 1
      OBVIOUS
    <3>7. \A k \in 1 .. m + 1 : prog'[p][k].op # "nop" /\ Nr(p, prog'[p][k].ins) = k
      BY <3>3, <3>4, <3>5, <3>6
    <3>8. Nr(p, drained)' <= Len(prog'[p])
      BY <3>3
    <3> QED
      BY <1>3, <2>4, <3>3, <3>6, <3>7, <3>8 DEF OrderOf
  <2> QED
    BY <2>3, <2>4
<1> QED
  BY <1>7, <1>8 DEF OrderInv

LEMMA OrderDrain == ASSUME IInv, OrderInv, Drain PROVE OrderInv'
<1> DEFINE i == drained + 1
<1>1. /\ stage = "drain" /\ drained < Len(iq)
      /\ drained' = i /\ UNCHANGED <<stage, iq>>
  BY DEF Drain
<1>2. PICK q, op : q = iq[i].qp /\ op = iq[i].op
  OBVIOUS
<1>3. /\ q \in Data /\ op \in DataOps \union CdOps /\ i \in Nat
      /\ q \in QPs /\ Mqp \in QPs /\ q # Mqp
      /\ ctx[q] \in Ctx /\ ctx[Mqp] \in Ctx /\ ctx[q].slots \in Nat \ {0}
      /\ ctx[Mqp].slots \in Nat \ {0}
  <2>1. /\ i \in 1 .. Len(iq) /\ q \in Data /\ op \in DataOps \union CdOps
        /\ q \in QPs /\ Mqp \in QPs /\ ctx[q] \in Ctx /\ ctx[Mqp] \in Ctx
    BY <1>1, <1>2, Draining
  <2>2. ctx[q] # NoCtx /\ ctx[Mqp] # NoCtx
    BY <2>1, NoCtxIsNone
  <2>3. 0 \in Nat /\ 0 <= Len(iq)
    BY DEF IInv, TypeOK
  <2> QED
    BY <2>1, <2>2, <2>3, RoomInBlock, PairOfPair
<1> HIDE DEF i
<1>4. \A x \in QPs : Mine(x, i) <=> x = IF op \in DataOps THEN q ELSE Mqp
  <2>1. \A o \in DataOps : o \notin CdOps
    BY DEF DataOps, CdOps, WaitOps, EnableOps
  <2> QED
    BY <1>2, <1>3, <2>1 DEF Mine
<1>5. CASE PostData(i)
  <2>1. PICK at : at = ctx[q].written % ctx[q].slots
    OBVIOUS
  <2>2. PICK w : w = [op |-> op, ins |-> i, at |-> at, size |-> Size(op)]
    OBVIOUS
  <2>3. op \in DataOps /\ prog' = [prog EXCEPT ![q] = Append(@, w)]
    BY <1>2, <1>5, <2>1, <2>2 DEF PostData
  <2>4. at \in Nat
    <3>1. ctx[q].written \in Nat
      BY <1>3 DEF Ctx
    <3> QED
      BY <1>3, <2>1, <3>1
  <2>5. w \in Wqe
    BY <1>3, <2>2, <2>3, <2>4 DEF Wqe, Size
  <2>6. w.op # "nop" /\ w.ins = i /\ w.op # "recv_enable"
    BY <2>2, <2>3 DEF DataOps
  <2> QED
    BY <1>1, <1>3, <1>4, <2>3, <2>5, <2>6, OrderPosted DEF i
<1>6. CASE ~ PostData(i)
  <2>1. PICK index \in Nat \union {-1}, inc \in Nat :
          /\ PostCd(i, index, inc) /\ op \in CdOps
          /\ op = "recv_enable" => index = AllReceives
    <3>0. /\ ctx[q].written \in Nat /\ ctx[q].wqes \in Nat
          /\ ctx[q].cqes \in Nat /\ ctx[q].scqes \in Nat
          /\ ctx[q].cmpl - 1 \in Nat \union {-1} /\ ctx[q].scmpl - 1 \in Nat \union {-1}
      BY <1>3 DEF Ctx
    <3>1. CASE CdSendEnable(i)
      BY <1>2, <3>0, <3>1 DEF CdSendEnable, CdOps, EnableOps
    <3>2. CASE CdRecvEnable(i)
      <4>1. AllReceives \in Nat
        BY DEF AllReceives
      <4> QED
        BY <1>2, <3>0, <3>2, <4>1 DEF CdRecvEnable, CdOps, EnableOps
    <3>3. CASE CdWait(i)
      BY <1>2, <3>0, <3>3 DEF CdWait, CdOps, WaitOps
    <3>4. CASE CdWaitSend(i)
      BY <1>2, <3>0, <3>4 DEF CdWaitSend, CdOps, WaitOps
    <3> QED
      BY <1>6, <3>1, <3>2, <3>3, <3>4 DEF Drain, i
  <2>2. PICK at : at = ctx[Mqp].written % ctx[Mqp].slots
    OBVIOUS
  <2>3. PICK w : w = [op |-> op, ins |-> i, at |-> at, size |-> 1, slave |-> q,
                      index |-> index, inc |-> inc]
    OBVIOUS
  <2>4. prog' = [prog EXCEPT ![Mqp] = Append(@, w)]
    BY <1>2, <2>1, <2>2, <2>3 DEF PostCd
  <2>5. at \in Nat
    <3>1. ctx[Mqp].written \in Nat
      BY <1>3 DEF Ctx
    <3> QED
      BY <1>3, <2>2, <3>1
  <2>6. w \in CdWqe
    BY <1>3, <2>1, <2>3, <2>5 DEF CdWqe, CdOps, EnableOps
  <2>7. /\ w.op # "nop" /\ w.ins = i /\ op \notin DataOps
        /\ w.op = "recv_enable" => w.index = AllReceives
    BY <2>1, <2>3 DEF CdOps, EnableOps, WaitOps, DataOps
  <2> QED
    BY <1>1, <1>3, <1>4, <2>4, <2>6, <2>7, OrderPosted DEF i
<1> QED
  BY <1>5, <1>6

(* The padding comes behind the instructions.                              *)
LEMMA OrderPadded == ASSUME IInv, OrderInv, FinQp PROVE OrderInv'
<1> DEFINE W == Wqe \union CdWqe
<1>1. PICK p : p = qps[cursor + 1]
  OBVIOUS
<1>2. /\ stage = "fin" /\ UNCHANGED <<stage, iq, drained>>
      /\ prog' = [prog EXCEPT ![p] = @ \o Pads(p)]
  BY <1>1 DEF FinQp
<1>3. p \in QPs /\ p \in Registered
  <2>1. cursor + 1 \in 1 .. Len(qps)
    <3>1. cursor < Len(qps) /\ cursor \in 0 .. Len(qps) /\ Len(qps) \in Nat
      BY DEF FinQp, IInv, TypeOK
    <3> QED
      BY <3>1
  <2>2. p \in Registered
    BY <1>1, <2>1 DEF Registered
  <2> QED
    BY <2>2, RegisteredAre DEF IInv, TypeOK
<1>4. Pads(p) \in Seq(Wqe) /\ \A k \in 1 .. Len(Pads(p)) : Pads(p)[k].op = "nop"
  <2>1. ctx[p] # NoCtx
    BY <1>2, <1>3 DEF IInv, StageInv
  <2>2. ctx[p] \in Ctx /\ CtxOf(p)
    BY <1>3, <2>1 DEF IInv, TypeOK, CtxInv
  <2>3. ctx[p].slots # 0
    <3>1. 0 \in Nat /\ 0 <= Len(iq)
      BY DEF IInv, TypeOK
    <3> QED
      BY <1>3, <2>1, <3>1, RoomInBlock
  <2>4. ctx[p].written <= ctx[p].wqes
    BY <2>2 DEF CtxOf
  <2> QED
    BY <2>2, <2>3, <2>4, PadsAreNops
<1>5. DOMAIN prog = QPs /\ \A x \in QPs : prog[x] \in Seq(W)
  BY DEF IInv, TypeOK, QPs
<1>6. \A q, n : Nr(q, n)' = Nr(q, n)
  BY <1>2 DEF Nr, CountIn, Chosen
<1>7. PICK m \in Nat, n \in Nat : m = Len(prog[p]) /\ n = Len(Pads(p))
  BY <1>3, <1>4, <1>5
<1>8. /\ Len(prog'[p]) = m + n
      /\ \A k \in 1 .. m : prog'[p][k] = prog[p][k]
      /\ \A k \in m + 1 .. m + n : prog'[p][k].op = "nop"
  <2>1. PICK a \in Seq(W), b \in Seq(W) : a = prog[p] /\ b = Pads(p)
    BY <1>3, <1>4, <1>5
  <2>2. prog'[p] = a \o b /\ m = Len(a) /\ n = Len(b)
    BY <1>2, <1>3, <1>5, <1>7, <2>1
  <2>3. /\ Len(a \o b) = m + n
        /\ \A k \in 1 .. m : (a \o b)[k] = a[k]
        /\ \A k \in m + 1 .. m + n : (a \o b)[k] = b[k - m] /\ k - m \in 1 .. n
    BY <1>7, <2>2
  <2>4. \A k \in m + 1 .. m + n : prog'[p][k].op = "nop"
    BY <1>4, <2>1, <2>2, <2>3
  <2> QED
    BY <2>1, <2>2, <2>3, <2>4
<1>9. \A x \in QPs : x # p => prog'[x] = prog[x]
  BY <1>2, <1>5
<1>10. \A k \in 1 .. m + n : k \in 1 .. m \/ k \in m + 1 .. m + n
  OBVIOUS
<1>11. RecvIndex'
  <2>1. CASE p # Mqp
    BY <1>9, <2>1 DEF OrderInv, RecvIndex, QPs
  <2>2. CASE p = Mqp
    <3>1. ASSUME NEW k \in 1 .. m + n, prog'[p][k].op = "recv_enable"
          PROVE  prog'[p][k].index = AllReceives
      <4>1. k \in 1 .. m
        BY <1>8, <1>10, <3>1
      <4> QED
        BY <1>7, <1>8, <2>2, <3>1, <4>1 DEF OrderInv, RecvIndex
    <3> QED
      BY <1>8, <2>2, <3>1 DEF RecvIndex
  <2> QED
    BY <2>1, <2>2
<1>12. ASSUME NEW q \in QPs
       PROVE  OrderOf(q)'
  <2>1. OrderOf(q)
    BY DEF OrderInv
  <2>2. PICK c \in Nat : c = Nr(q, drained) /\ Nr(q, drained)' = c
    <3>1. drained \in Nat
      BY DEF IInv, TypeOK
    <3> QED
      BY <1>2, <1>6, <3>1, NrIs
  <2>3. CASE q # p
    BY <1>2, <1>6, <1>9, <2>1, <2>2, <2>3 DEF OrderOf
  <2>4. CASE q = p
    <3>1. /\ c <= m
          /\ \A k \in 1 .. m : prog[p][k].op # "nop" <=> k <= c
          /\ \A k \in 1 .. c : Nr(p, prog[p][k].ins) = k
      BY <1>7, <2>1, <2>2, <2>4 DEF OrderOf
    <3>2. \A k \in 1 .. m + n : prog'[p][k].op # "nop" <=> k <= c
      BY <1>8, <1>10, <3>1
    <3>3. \A k \in 1 .. c : Nr(p, prog'[p][k].ins) = k
      BY <1>8, <3>1
    <3>4. c <= Len(prog'[p])
      BY <1>8, <3>1
    <3> QED
      BY <1>2, <1>6, <1>8, <2>2, <2>4, <3>2, <3>3, <3>4 DEF OrderOf
  <2> QED
    BY <2>3, <2>4
<1> QED
  BY <1>11, <1>12 DEF OrderInv

LEMMA OrderStep == ASSUME IInv, OrderInv, [Next]_vars PROVE OrderInv'
<1>1. IInv'
  BY NextStep
<1>2. Mqp \in QPs
  BY DEF QPs
<1>3. CASE stage' \in {"build", "init", "trapped"}
  BY <1>1, <1>3, OrderNone DEF IInv, StageInv
<1>4. CASE InitDone
  <2>1. drained' = 0 /\ \A q \in QPs : prog'[q] = <<>>
    BY <1>4 DEF InitDone, IInv, StageInv
  <2> QED
    BY <2>1, OrderNone
<1>5. CASE Drain
  BY <1>5, OrderDrain
<1>6. CASE FinQp
  BY <1>6, OrderPadded
<1>7. CASE DrainDone \/ FinishDb \/ UNCHANGED vars
  BY <1>7, OrderKept DEF DrainDone, FinishDb, vars
<1>8. CASE Building \/ Finish \/ InitQp \/ InitTrap
  <2>1. stage' \in {"build", "init", "trapped"}
    <3>1. CASE Finish \/ InitQp \/ InitTrap
      BY <3>1 DEF Finish, InitQp, InitTrap
    <3>2. CASE Building
      BY <3>2 DEF Building, NewQp, NewPair, Construct, SendCredit, Write, WriteCmpl,
                  DoublingWriteCmpl, ReduceWrite, ReduceWriteCmpl, Operation, Wait
    <3> QED
      BY <1>8, <3>1, <3>2
  <2> QED
    BY <1>3, <2>1
<1> QED
  BY <1>4, <1>5, <1>6, <1>7, <1>8 DEF Next, Finishing, Over
-----------------------------------------------------------------------------
(* What is compiled: each queue has its instructions in the order of the   *)
(* calls, an instruction where its number says.                            *)

BlockIs(q) ==
  /\ Len(Block(q)) \in Nat /\ Len(Block(q)) = Nr(q, Len(iq))
  /\ \A k \in 1 .. Len(Block(q)) :
       /\ Block(q)[k] = prog[q][k] /\ k \in 1 .. Len(prog[q]) /\ prog[q][k].op # "nop"
       /\ Block(q)[k].ins \in 1 .. Len(iq)
       /\ Mine(q, Block(q)[k].ins) /\ Nr(q, Block(q)[k].ins) = k
  /\ \A i \in 1 .. Len(iq) : Mine(q, i) =>
       Nr(q, i) \in 1 .. Len(Block(q)) /\ Block(q)[Nr(q, i)].ins = i

LEMMA Drained ==
  ASSUME IInv, OrderInv, stage \in {"fin", "ready"}, NEW q \in QPs
  PROVE  BlockIs(q)
<1> DEFINE W == Wqe \union CdWqe
<1>1. PICK L \in Nat : L = Len(iq) /\ drained = L
  BY DEF IInv, TypeOK, StageInv
<1>2. PICK s \in Seq(W), m \in Nat : s = prog[q] /\ m = Len(s)
  <2>1. prog[q] \in Seq(W)
    BY DEF IInv, TypeOK, QPs
  <2> QED
    BY <2>1
<1>3. PICK n \in Nat : n = Nr(q, L) /\ n <= m
  BY <1>1, <1>2, NrIs DEF OrderInv, OrderOf
<1>4. \A k \in 1 .. m : s[k].op # "nop" <=> k <= n
  BY <1>1, <1>2, <1>3 DEF OrderInv, OrderOf
<1>5. \A k \in 1 .. n : k \in 1 .. m /\ k <= n
  BY <1>3
<1>6. Cardinality({k \in 1 .. m : s[k].op # "nop"}) = n
  <2>1. {k \in 1 .. m : s[k].op # "nop"} = 1 .. n
    BY <1>4, <1>5
  <2>2. Cardinality(1 .. n) = n
    <3>1. Cardinality(1 .. n) = IF 1 > n THEN 0 ELSE n - 1 + 1
      BY FS_Interval
    <3> QED
      BY <3>1
  <2> QED
    BY <2>1, <2>2, Zenon
<1>7. Block(q) = [k \in 1 .. n |-> s[k]]
  BY <1>2, <1>6 DEF Block
<1>8. Block(q) \in Seq(W) /\ Len(Block(q)) = n
  <2>1. \A k \in 1 .. n : s[k] \in W
    BY <1>2, <1>5
  <2> HIDE DEF W
  <2>2. [k \in 1 .. n |-> s[k]] \in Seq(W)
    BY <2>1
  <2>3. DOMAIN [k \in 1 .. n |-> s[k]] = 1 .. n
    OBVIOUS
  <2> QED
    BY <1>7, <2>2, <2>3
<1>9. ASSUME NEW k \in 1 .. n
      PROVE  /\ Block(q)[k] = s[k] /\ k \in 1 .. m /\ s[k].op # "nop"
             /\ s[k].ins \in 1 .. L /\ Mine(q, s[k].ins) /\ Nr(q, s[k].ins) = k
  <2>1. Block(q)[k] = s[k] /\ k \in 1 .. m /\ s[k].op # "nop"
    BY <1>4, <1>5, <1>7
  <2>2. Nr(q, s[k].ins) = k
    BY <1>1, <1>2, <1>3 DEF OrderInv, OrderOf
  <2>3. CASE q = Mqp
    <3>1. CdOf(s[k])
      BY <1>2, <2>1, <2>3 DEF IInv, ProgInv
    <3> QED
      BY <1>1, <2>1, <2>2, <2>3, <3>1 DEF CdOf, Mine, Ins
  <2>4. CASE q # Mqp
    <3>1. DataOf(q, s[k])
      BY <1>2, <2>1, <2>4 DEF IInv, ProgInv, QPs
    <3> QED
      BY <1>1, <2>1, <2>2, <2>4, <3>1 DEF DataOf, Mine, Ins
  <2> QED
    BY <2>3, <2>4
<1>10. ASSUME NEW i \in 1 .. L, Mine(q, i)
       PROVE  Nr(q, i) \in 1 .. n /\ s[Nr(q, i)].ins = i
  <2>1. PICK k \in Nat : k = Nr(q, i) /\ k <= n /\ k >= 1
    <3>1. Nr(q, i) <= Nr(q, L) /\ Nr(q, i) = Nr(q, i - 1) + 1
      BY <1>10, NrTells
    <3>2. Nr(q, i - 1) \in Nat
      BY NrIs
    <3> QED
      BY <1>3, <3>1, <3>2
  <2>2. k \in 1 .. n
    BY <2>1
  <2>3. PICK j \in 1 .. L : j = s[k].ins /\ Mine(q, j) /\ Nr(q, j) = k
    BY <1>9, <2>2
  <2>4. i <= j /\ j <= i
    <3>1. i \in Nat \ {0} /\ j \in Nat \ {0} /\ Nr(q, i) <= Nr(q, j) /\ Nr(q, j) <= Nr(q, i)
      BY <2>1, <2>3
    <3> QED
      BY <1>10, <2>3, <3>1, NrTells
  <2> QED
    BY <2>1, <2>2, <2>3, <2>4
<1> QED
  BY <1>1, <1>2, <1>3, <1>8, <1>9, <1>10 DEF BlockIs

LEMMA Compiled ==
  ASSUME IInv, OrderInv, stage = "ready", NEW q \in QPs
  PROVE  BlockIs(q)
BY Drained
-----------------------------------------------------------------------------
(* Rounds of b instructions.                                               *)

LEMMA Turn ==
  ASSUME NEW b \in Nat \ {0}, NEW s \in Nat
  PROVE  /\ s \div b \in Nat /\ s % b \in 0 .. b - 1
         /\ (s \div b) * b \in Nat
         /\ s = (s \div b) * b + (s % b)
<1>1. PICK n \in Int, a \in 0 .. b - 1 : n = s \div b /\ a = s % b /\ s = b * n + a
  BY Division
<1>2. b * n = n * b /\ n * b \in Int
  OBVIOUS
<1>3. n >= 0
  <2> SUFFICES ASSUME n <= -1
               PROVE  FALSE
    BY <1>1
  <2>1. n * b <= (-1) * b /\ (-1) * b = -b
    BY TimesGrows
  <2> QED
    BY <1>1, <1>2, <2>1
<1>4. n * b >= 0
  <2>1. 0 * b <= n * b /\ 0 * b = 0
    BY <1>3, TimesGrows
  <2> QED
    BY <1>2, <2>1
<1> QED
  BY <1>1, <1>2, <1>3, <1>4

LEMMA Split ==
  ASSUME NEW b \in Nat \ {0}, NEW s \in Nat
  PROVE  \E n \in Nat, a \in Nat : s = n * b + a /\ a < b
<1>1. s \div b \in Nat /\ s % b \in 0 .. b - 1 /\ s = (s \div b) * b + (s % b)
  BY Turn
<1> QED
  BY <1>1

LEMMA TurnIs ==
  ASSUME NEW b \in Nat \ {0}, NEW n \in Nat, NEW a \in 0 .. b - 1
  PROVE  (n * b + a) \div b = n /\ (n * b + a) % b = a
<1>1. n * b + a = b * n + a
  OBVIOUS
<1>2. (b * n + a) \div b = n
  BY Quotient
<1>3. (b * n + a) % b = a
  BY Remainder
<1> QED
  BY <1>1, <1>2, <1>3

(* A later round lies behind all of an earlier one.                        *)
LEMMA LaterRound ==
  ASSUME NEW b \in Nat, NEW m \in Nat, NEW n \in Nat, m < n
  PROVE  m * b \in Nat /\ n * b \in Nat /\ m * b + b <= n * b
<1>1. CASE b = 0
  <2>1. m * 0 = 0 /\ n * 0 = 0
    OBVIOUS
  <2> QED
    BY <1>1, <2>1
<1>2. CASE b # 0
  <2>1. /\ (m + 1) * b = m * b + b /\ m * b \in Int /\ n * b \in Int
        /\ 0 * b = 0
    OBVIOUS
  <2>2. b \in Nat \ {0}
    BY <1>2
  <2>3. (m + 1) * b <= n * b
    BY <2>2, TimesGrows
  <2>4. 0 * b <= m * b
    BY <2>2, TimesGrows
  <2> QED
    BY <2>1, <2>3, <2>4
<1> QED
  BY <1>1, <1>2

LEMMA TimesNat ==
  ASSUME NEW x \in Nat, NEW y \in Nat, NEW n \in Nat, x <= y
  PROVE  x * n \in Nat /\ y * n \in Nat /\ x * n <= y * n
<1>1. CASE n = 0
  <2>1. x * 0 = 0 /\ y * 0 = 0
    OBVIOUS
  <2> QED
    BY <1>1, <2>1
<1>2. CASE n # 0
  <2>1. n \in Nat \ {0} /\ 0 * n = 0
    BY <1>2
  <2>2. x * n \in Int /\ y * n \in Int /\ x * n <= y * n /\ 0 * n <= x * n
    BY <2>1, TimesGrows
  <2> QED
    BY <2>1, <2>2
<1> QED
  BY <1>1, <1>2

(* In round n a instructions are executed: the k-th of them n + 1 times,   *)
(* if it is one of them, else n times.                                     *)
LEMMA RoundsDone ==
  ASSUME NEW b \in Nat \ {0}, NEW n \in Nat, NEW a \in 0 .. b, NEW k \in 1 .. b
  PROVE  (n * b + a + b - k) \div b = IF k <= a THEN n + 1 ELSE n
<1>1. PICK x \in Int : x = n * b /\ x = b * n
  OBVIOUS
<1>2. CASE k <= a
  <2>1. PICK c \in 0 .. b - 1 : c = a - k
    BY <1>2
  <2>2. b * (n + 1) = x + b
    BY <1>1
  <2>3. x + a + b - k = b * (n + 1) + c
    BY <2>1, <2>2
  <2>4. (b * (n + 1) + c) \div b = n + 1
    BY Quotient
  <2> QED
    BY <1>1, <1>2, <2>3, <2>4
<1>3. CASE ~ (k <= a)
  <2>1. PICK c \in 0 .. b - 1 : c = a + b - k
    BY <1>3
  <2>2. x + a + b - k = b * n + c
    BY <1>1, <2>1
  <2>3. (b * n + c) \div b = n
    BY Quotient
  <2> QED
    BY <1>1, <1>3, <2>2, <2>3
<1> QED
  BY <1>2, <1>3

(* Who is beyond the k-th instruction of round n has executed it more than *)
(* n times.                                                                *)
LEMMA RoundsPast ==
  ASSUME NEW b \in Nat \ {0}, NEW n \in Nat, NEW s \in Nat, NEW k \in 1 .. b, n * b + k <= s
  PROVE  (s + b - k) \div b > n
<1>1. PICK m \in Nat, a \in 0 .. b - 1 : s = m * b + a
  BY Turn
<1>2. (s + b - k) \div b = IF k <= a THEN m + 1 ELSE m
  <2>1. a \in 0 .. b /\ m * b \in Int
    OBVIOUS
  <2>2. (m * b + a + b - k) \div b = IF k <= a THEN m + 1 ELSE m
    BY <2>1, RoundsDone
  <2> QED
    BY <1>1, <2>2
<1>3. CASE m < n
  <2>1. m * b + b <= n * b /\ m * b \in Nat /\ n * b \in Nat
    BY <1>3, LaterRound
  <2> QED
    BY <1>1, <2>1
<1>4. CASE m = n
  <2>1. PICK x \in Int : x = n * b
    OBVIOUS
  <2>2. k <= a
    BY <1>1, <1>4, <2>1
  <2> QED
    BY <1>2, <1>4, <2>2
<1>5. CASE m > n
  BY <1>2, <1>5
<1> QED
  BY <1>3, <1>4, <1>5

(* Where an operation lies in the block of its queue.                      *)
LEMMA PlaceOf ==
  ASSUME IInv, OrderInv, stage \in {"fin", "ready"},
         NEW i \in 1 .. Len(iq), iq[i].op \in DataOps, NEW q, q = iq[i].qp
  PROVE  /\ q \in Data /\ q \in QPs /\ q # Mqp /\ Mine(q, i)
         /\ Nr(q, i) \in 1 .. Len(Block(q)) /\ Len(Block(q)) \in Nat \ {0}
         /\ (CHOOSE j \in 1 .. Len(Block(q)) : Block(q)[j].ins = i) = Nr(q, i)
<1>1. q \in Data /\ q \in QPs /\ q # Mqp
  <2>1. iq \in Seq(AllIns)
    BY AllInsIs DEF IInv, TypeOK
  <2>2. iq[i] \in AllIns
    BY <2>1
  <2> QED
    BY <2>2, PairOfPair DEF AllIns, QPs
<1>2. Mine(q, i)
  BY <1>1 DEF Mine
<1>3. BlockIs(q)
  BY <1>1, Drained
<1>4. PICK b \in Nat, k \in Nat :
        b = Len(Block(q)) /\ k = Nr(q, i) /\ k \in 1 .. b /\ Block(q)[k].ins = i
  BY <1>2, <1>3 DEF BlockIs
<1>5. \A j \in 1 .. b : Block(q)[j].ins = i => j = k
  BY <1>3, <1>4 DEF BlockIs
<1>6. k = CHOOSE j \in 1 .. b : Block(q)[j].ins = i
  BY <1>4, <1>5
<1>7. Nr(q, i) \in 1 .. Len(Block(q)) /\ Len(Block(q)) \in Nat \ {0}
  <2>1. b # 0
    BY <1>4
  <2> QED
    BY <1>4, <2>1
<1>8. (CHOOSE j \in 1 .. Len(Block(q)) : Block(q)[j].ins = i) = Nr(q, i)
  BY <1>4, <1>6, Zenon
<1> QED
  BY <1>1, <1>2, <1>7, <1>8

(* How often an operation is done is how far its queue has got.            *)
LEMMA TimesIs ==
  ASSUME IInv, OrderInv, stage = "ready", NEW i \in 1 .. Len(iq), iq[i].op \in DataOps,
         NEW q, q = iq[i].qp
  PROVE  /\ q \in Data /\ q \in QPs /\ q # Mqp /\ Mine(q, i)
         /\ Nr(q, i) \in 1 .. Len(Block(q)) /\ Len(Block(q)) \in Nat \ {0}
         /\ \A r : Times(r, i) = (sent[r][q] + Len(Block(q)) - Nr(q, i)) \div Len(Block(q))
<1>1. /\ q \in Data /\ q \in QPs /\ q # Mqp /\ Mine(q, i)
      /\ Nr(q, i) \in 1 .. Len(Block(q)) /\ Len(Block(q)) \in Nat \ {0}
      /\ (CHOOSE j \in 1 .. Len(Block(q)) : Block(q)[j].ins = i) = Nr(q, i)
  BY PlaceOf
<1> QED
  BY <1>1 DEF Times

(* A step that leaves the instructions and the calls alone. *)
LEMMA TimesNext ==
  ASSUME IInv, OrderInv, stage \in {"fin", "ready"}, UNCHANGED <<iq, prog>>,
         NEW i \in 1 .. Len(iq), iq[i].op \in DataOps, NEW q, q = iq[i].qp
  PROVE  \A r : Times(r, i)' =
                  (sent'[r][q] + Len(Block(q)) - Nr(q, i)) \div Len(Block(q))
<1>1. (CHOOSE j \in 1 .. Len(Block(q)) : Block(q)[j].ins = i) = Nr(q, i)
  BY PlaceOf
<1>2. \A p : Block(p)' = Block(p)
  BY DEF Block
<1> QED
  BY <1>1, <1>2 DEF Times
-----------------------------------------------------------------------------
(* How many of the instructions that a queue executed are signalled.       *)

UpTo(q, k) == Cardinality({j \in 1 .. k : Block(q)[j].op \in CmplOps})

LEMMA UpToIs ==
  ASSUME NEW q, NEW n \in Nat
  PROVE  /\ UpTo(q, n) \in Nat /\ UpTo(q, n) <= n
         /\ UpTo(q, 0) = 0
         /\ IsFiniteSet({j \in 1 .. n : Block(q)[j].op \in CmplOps})
<1> DEFINE T == {j \in 1 .. n : Block(q)[j].op \in CmplOps}
<1>1. IsFiniteSet(1 .. n) /\ Cardinality(1 .. n) = n
  <2>1. IsFiniteSet(1 .. n) /\ Cardinality(1 .. n) = IF 1 > n THEN 0 ELSE n - 1 + 1
    BY FS_Interval
  <2> QED
    BY <2>1
<1>2. T \in SUBSET (1 .. n)
  OBVIOUS
<1> HIDE DEF T
<1>3. IsFiniteSet(T) /\ Cardinality(T) <= n /\ Cardinality(T) \in Nat
  BY <1>1, <1>2, FS_Subset, FS_CardinalityType
<1>4. {j \in 1 .. 0 : Block(q)[j].op \in CmplOps} = {}
  OBVIOUS
<1>5. UpTo(q, 0) = 0
  BY <1>4, FS_EmptySet DEF UpTo
<1> QED
  BY <1>3, <1>5 DEF UpTo, T

LEMMA UpToGrows ==
  ASSUME NEW q, NEW m \in Nat, NEW n \in Nat, m <= n
  PROVE  UpTo(q, m) <= UpTo(q, n)
<1>1. {j \in 1 .. m : Block(q)[j].op \in CmplOps}
        \in SUBSET {j \in 1 .. n : Block(q)[j].op \in CmplOps}
  OBVIOUS
<1>2. IsFiniteSet({j \in 1 .. n : Block(q)[j].op \in CmplOps})
  BY UpToIs
<1> QED
  BY <1>1, <1>2, FS_Subset DEF UpTo

LEMMA SignalledIs ==
  ASSUME NEW q, NEW b \in Nat \ {0}, b = Len(Block(q)), NEW n \in Nat, NEW a \in 0 .. b
  PROVE  SignalledIn(q, n * b + a) = n * UpTo(q, b) + UpTo(q, a)
<1>1. Block(q) # <<>>
  OBVIOUS
<1>2. ASSUME NEW m \in Nat, NEW c \in 0 .. b - 1
      PROVE  SignalledIn(q, m * b + c) = m * UpTo(q, b) + UpTo(q, c)
  <2>1. PICK s \in Int : s = m * b + c
    OBVIOUS
  <2>2. s \div b = m /\ s % b = c
    BY <2>1, TurnIs
  <2>3. CASE s # 0
    BY <1>1, <2>1, <2>2, <2>3 DEF SignalledIn, RoundOf, UpTo
  <2>4. CASE s = 0
    <3>1. m = 0 /\ c = 0
      <4>1. 0 \div b = 0 /\ 0 % b = 0
        <5>1. 0 * b + 0 = 0 /\ 0 \in 0 .. b - 1
          OBVIOUS
        <5>2. (0 * b + 0) \div b = 0 /\ (0 * b + 0) % b = 0
          BY <5>1, TurnIs
        <5> QED
          BY <5>1, <5>2
      <4> QED
        BY <2>2, <2>4, <4>1
    <3>2. UpTo(q, 0) = 0 /\ UpTo(q, b) \in Nat
      BY UpToIs
    <3>3. 0 * UpTo(q, b) + 0 = 0
      BY <3>2
    <3> QED
      BY <2>1, <2>4, <3>1, <3>2, <3>3 DEF SignalledIn
  <2> QED
    BY <2>3, <2>4
<1>3. CASE a < b
  <2>1. a \in 0 .. b - 1
    BY <1>3
  <2> QED
    BY <1>2, <2>1
<1>4. CASE a = b
  <2>1. PICK U \in Nat : U = UpTo(q, b)
    BY UpToIs
  <2>2. SignalledIn(q, (n + 1) * b + 0) = (n + 1) * U + UpTo(q, 0)
    <3>1. n + 1 \in Nat /\ 0 \in 0 .. b - 1
      OBVIOUS
    <3> QED
      BY <1>2, <2>1, <3>1
  <2>3. UpTo(q, 0) = 0
    BY UpToIs
  <2>4. (n + 1) * b + 0 = n * b + b /\ (n + 1) * U + 0 = n * U + U
    BY <2>1
  <2> QED
    BY <1>4, <2>1, <2>2, <2>3, <2>4
<1> QED
  BY <1>3, <1>4

LEMMA SignalledGrows ==
  ASSUME NEW q, NEW b \in Nat \ {0}, b = Len(Block(q)), NEW s \in Nat, NEW t \in Nat, s <= t
  PROVE  /\ SignalledIn(q, s) \in Nat /\ SignalledIn(q, s) <= s
         /\ SignalledIn(q, s) <= SignalledIn(q, t)
<1>1. PICK m \in Nat, a \in Nat : s = m * b + a /\ a < b
  BY Split, Zenon
<1>2. PICK n \in Nat, c \in Nat : t = n * b + c /\ c < b
  BY Split, Zenon
<1>3. PICK U \in Nat, Ua \in Nat, Uc \in Nat :
        /\ U = UpTo(q, b) /\ Ua = UpTo(q, a) /\ Uc = UpTo(q, c)
  BY UpToIs
<1>4. U <= b /\ Ua <= a /\ Ua <= U /\ (a <= c => Ua <= Uc)
  <2>1. UpTo(q, b) <= b /\ UpTo(q, a) <= a
    BY UpToIs
  <2>2. a <= b
    BY <1>1
  <2>3. UpTo(q, a) <= UpTo(q, b)
    BY <2>2, UpToGrows
  <2>4. a <= c => UpTo(q, a) <= UpTo(q, c)
    BY UpToGrows
  <2> QED
    BY <1>3, <2>1, <2>3, <2>4
<1>5. SignalledIn(q, s) = m * U + Ua /\ SignalledIn(q, t) = n * U + Uc
  <2>1. a \in 0 .. b /\ c \in 0 .. b
    BY <1>1, <1>2
  <2>2. SignalledIn(q, m * b + a) = m * UpTo(q, b) + UpTo(q, a)
    BY <2>1, SignalledIs
  <2>3. SignalledIn(q, n * b + c) = n * UpTo(q, b) + UpTo(q, c)
    BY <2>1, SignalledIs
  <2> QED
    BY <1>1, <1>2, <1>3, <2>2, <2>3, Zenon
<1>6. PICK mb \in Nat, nb \in Nat, mU \in Nat, nU \in Nat :
        mb = m * b /\ nb = n * b /\ mU = m * U /\ nU = n * U
  <2>1. U * m \in Nat /\ b * m \in Nat /\ U * n \in Nat /\ b * n \in Nat
    BY TimesNat
  <2>2. U * m = m * U /\ b * m = m * b /\ U * n = n * U /\ b * n = n * b
    OBVIOUS
  <2> QED
    BY <2>1, <2>2
<1>7. mU <= mb
  <2>1. U * m <= b * m
    BY <1>4, TimesNat
  <2>2. U * m = m * U /\ b * m = m * b
    OBVIOUS
  <2> QED
    BY <1>6, <2>1, <2>2
<1>8. mU + Ua <= nU + Uc
  <2>1. CASE m < n
    <3>1. mU + U <= nU
      BY <1>6, <2>1, LaterRound
    <3> QED
      BY <1>4, <3>1
  <2>2. CASE m = n
    <3>1. mb = nb /\ mU = nU
      BY <1>6, <2>2
    <3>2. a <= c
      BY <1>1, <1>2, <1>6, <3>1
    <3> QED
      BY <1>4, <3>1, <3>2
  <2>3. CASE m > n
    <3>1. nb + b <= mb
      BY <1>6, <2>3, LaterRound
    <3> QED
      BY <1>1, <1>2, <1>6, <3>1
  <2> QED
    BY <2>1, <2>2, <2>3
<1>9. SignalledIn(q, s) = mU + Ua /\ SignalledIn(q, t) = nU + Uc /\ s = mb + a
  BY <1>1, <1>5, <1>6
<1> QED
  BY <1>4, <1>7, <1>8, <1>9

(* Those among the first k are among the calls before w, if these are.     *)
LEMMA UpToWithin ==
  ASSUME IInv, OrderInv, stage = "ready", NEW q \in Data,
         NEW w \in 0 .. Len(iq), NEW k \in Nat, k <= Nr(q, w)
  PROVE  UpTo(q, k) <= ScqesOf(iq, q, w)
<1> DEFINE S == {j \in 1 .. k : Block(q)[j].op \in CmplOps}
           T == Chosen(iq, CmplOps, {q}, w)
           f == [j \in S |-> Block(q)[j].ins]
<1>1. PICK L \in Nat : L = Len(iq) /\ w \in 0 .. L /\ w \in Nat
  BY DEF IInv, TypeOK
<1>2. q \in QPs /\ q # Mqp
  BY PairOfPair DEF QPs
<1>3. PICK b \in Nat : b = Len(Block(q)) /\ b = Nr(q, L)
  BY <1>1, <1>2, Compiled DEF BlockIs
<1>4. k <= b
  <2>1. Nr(q, w) <= Nr(q, L) /\ Nr(q, w) \in Nat
    BY <1>1, NrGrows, NrIs
  <2> QED
    BY <1>3, <2>1
<1>5. ASSUME NEW j \in S
      PROVE  f[j] \in T /\ Nr(q, f[j]) = j
  <2>1. j \in 1 .. b /\ j <= k
    BY <1>4
  <2>2. PICK i \in 1 .. L : /\ i = Block(q)[j].ins /\ Mine(q, i) /\ Nr(q, i) = j
                            /\ Block(q)[j] = prog[q][j] /\ j \in 1 .. Len(prog[q])
                            /\ prog[q][j].op # "nop"
    BY <1>1, <1>2, <1>3, <2>1, Compiled DEF BlockIs
  <2>3. DataOf(q, prog[q][j])
    BY <2>2 DEF IInv, ProgInv
  <2>4. iq[i].op = Block(q)[j].op /\ iq[i].qp = q
    BY <2>2, <2>3 DEF DataOf, Ins
  <2>5. i <= w
    <3>1. Nr(q, i) <= Nr(q, w)
      <4>1. Nr(q, w) \in Nat
        BY <1>1, NrIs
      <4> QED
        BY <2>1, <2>2, <4>1
    <3>2. i \in Nat \ {0}
      OBVIOUS
    <3> QED
      BY <1>1, <2>2, <3>1, <3>2, NrTells
  <2>6. i \in 1 .. w
    BY <1>1, <2>5
  <2> QED
    BY <2>2, <2>4, <2>6 DEF Chosen
<1>6. IsFiniteSet(S) /\ IsFiniteSet(T)
  BY <1>1, UpToIs, ChosenFinite
<1>7. f \in [S -> T]
  BY <1>5
<1>8. \A x, y \in S : x # y => f[x] # f[y]
  BY <1>5
<1> HIDE DEF S, T, f
<1>9. ~ (Cardinality(T) < Cardinality(S))
  BY <1>6, <1>7, <1>8, FS_PigeonHole
<1>10. Cardinality(T) \in Nat /\ Cardinality(S) \in Nat
  BY <1>6, FS_CardinalityType
<1>11. UpTo(q, k) = Cardinality(S) /\ ScqesOf(iq, q, w) = Cardinality(T)
  BY DEF UpTo, S, T, ScqesOf, CountIn
<1> QED
  BY <1>9, <1>10, <1>11

(* A queue that has not gone beyond the calls before w, of round n, has    *)
(* signalled no more than they are counted for.                            *)
LEMMA SignalledWithin ==
  ASSUME IInv, OrderInv, stage = "ready", NEW q \in Data,
         NEW b \in Nat \ {0}, b = Len(Block(q)),
         NEW w \in 0 .. Len(iq), NEW n \in Nat, NEW s \in Nat, s <= n * b + Nr(q, w)
  PROVE  /\ SignalledIn(q, s) <= n * ScqesOf(iq, q, Len(iq)) + ScqesOf(iq, q, w)
         /\ SignalledIn(q, s) \in Nat
<1>1. PICK L \in Nat : L = Len(iq) /\ w \in 0 .. L /\ w \in Nat
  BY DEF IInv, TypeOK
<1>2. q \in QPs
  BY DEF QPs
<1>3. b = Nr(q, L)
  BY <1>1, <1>2, Compiled DEF BlockIs
<1>4. PICK a \in Nat : a = Nr(q, w) /\ a <= b
  <2>1. Nr(q, w) <= Nr(q, L) /\ Nr(q, w) \in Nat
    BY <1>1, NrGrows, NrIs
  <2> QED
    BY <1>3, <2>1
<1>5. PICK S \in Nat, Sw \in Nat : S = ScqesOf(iq, q, L) /\ Sw = ScqesOf(iq, q, w)
  BY <1>1, SumsType
<1>6. PICK U \in Nat, Ua \in Nat : U = UpTo(q, b) /\ Ua = UpTo(q, a)
  BY UpToIs
<1>7. U <= S /\ Ua <= Sw
  <2>1. L \in 0 .. Len(iq) /\ b <= Nr(q, L) /\ a <= Nr(q, w)
    BY <1>1, <1>3, <1>4
  <2> QED
    BY <1>1, <1>5, <1>6, <2>1, UpToWithin
<1>8. PICK t \in Nat : t = n * b + a
  <2>1. n * b \in Nat
    BY TimesNat
  <2> QED
    BY <2>1
<1>9. SignalledIn(q, t) = n * U + Ua
  <2>1. a \in 0 .. b
    BY <1>4
  <2> QED
    BY <1>6, <1>8, <2>1, SignalledIs
<1>10. SignalledIn(q, s) <= SignalledIn(q, t) /\ SignalledIn(q, s) \in Nat
  <2>1. s <= t
    BY <1>4, <1>8
  <2> QED
    BY <2>1, SignalledGrows
<1>11. n * U \in Nat /\ n * S \in Nat /\ n * U <= n * S
  <2>1. U * n \in Nat /\ S * n \in Nat /\ U * n <= S * n
    BY <1>7, TimesNat
  <2>2. U * n = n * U /\ S * n = n * S
    OBVIOUS
  <2> QED
    BY <2>1, <2>2
<1>12. PICK nU \in Nat, nS \in Nat : nU = n * U /\ nS = n * S
  BY <1>11
<1>13. SignalledIn(q, s) <= nS + Sw
  BY <1>7, <1>9, <1>10, <1>11, <1>12
<1>14. nS + Sw = n * ScqesOf(iq, q, Len(iq)) + ScqesOf(iq, q, w)
  BY <1>1, <1>5, <1>12
<1> QED
  BY <1>10, <1>13, <1>14
-----------------------------------------------------------------------------
(* The invariant of the run.                                               *)

RunTypes ==
  /\ live \subseteq Ranks
  /\ rounds \in [Ranks -> 0 .. MaxRounds]
  /\ step \in [Ranks -> Nat]
  /\ released \in [Ranks -> [Data -> Nat]]
  /\ receives \in [Ranks -> [Data -> Nat]]
  /\ sent \in [Ranks -> [Data -> Nat]]
  /\ signalled \in [Ranks -> [Data -> Nat]]

(* What the author's list is like: no wait is for the sends of a           *)
(* DoublingQp, and who posts an operation has one enabled.                 *)
Enabled(s) ==
  (\E i \in 1 .. Len(s) : s[i].op \in DataOps) => \E i \in 1 .. Len(s) : s[i].op = "send_enable"

ListInv ==
  /\ \A i \in 1 .. Len(iq) : iq[i].op = "wait_send" => Kind[iq[i].qp] # "doubling"
  /\ Enabled(iq)

(* No device works before the graph is ready.                              *)
EarlyInv ==
  stage # "ready" =>
    /\ live = {}
    /\ rounds = [r \in Ranks |-> 0]
    /\ step = [r \in Ranks |-> 0]
    /\ released = [r \in Ranks |-> [q \in Data |-> 0]]
    /\ sent = [r \in Ranks |-> [q \in Data |-> 0]]
    /\ signalled = [r \in Ranks |-> [q \in Data |-> 0]]

(* What is acknowledged has been sent.                                     *)
SignalInv ==
  stage = "ready" => \A r \in Ranks : \A q \in Data :
    /\ signalled[r][q] <= SignalledIn(q, sent[r][q])
    /\ Len(Block(q)) = 0 => sent[r][q] = 0

(* What is released was released by an enable of a round that was called.  *)
ReleasedBy(r, q, m, p) ==
  /\ m < rounds[r]
  /\ m * Len(Block(Mqp)) + p <= step[r]
  /\ Block(Mqp)[p].op = "send_enable"
  /\ Block(Mqp)[p].slave = q
  /\ released[r][q] = Block(Mqp)[p].index + m * Block(Mqp)[p].inc

EnableInv ==
  stage = "ready" => \A r \in Ranks : \A q \in Data :
    released[r][q] = 0
      \/ \E m \in Nat : \E p \in 1 .. Len(Block(Mqp)) : ReleasedBy(r, q, m, p)

(* Rank r has executed the call at i in round n, and all of its queue that *)
(* is before it.                                                           *)
Reached(r, i, n) ==
  sent[r][iq[i].qp] >= n * Len(Block(iq[i].qp)) + Nr(iq[i].qp, i)

(* All that the wait at w of rank r is about has happened in round n.      *)
Seen(r, w, n) ==
  \A i \in 1 .. Len(iq) : i < w /\ iq[i].op \in DataOps =>
    /\ (iq[w].op = "wait" \/ ~ HasScq(iq[w].qp)) /\ Pair[iq[i].qp] = iq[w].qp =>
         Reached(Far[r][iq[w].qp], i, n)
    /\ (iq[w].op = "wait_send" \/ ~ HasScq(iq[w].qp)) /\ iq[i].qp = iq[w].qp
         /\ iq[i].op \in CmplOps => Reached(r, i, n)

(* A wait that has been passed has seen it.                                *)
WaitInv ==
  stage = "ready" => \A r \in Ranks : \A w \in 1 .. Len(iq) : \A n \in Nat :
    iq[w].op \in WaitOps /\ n * Len(Block(Mqp)) + Nr(Mqp, w) <= step[r] => Seen(r, w, n)

RunInv ==
  /\ IInv /\ BlockInv /\ OrderInv
  /\ RunTypes /\ ListInv /\ EarlyInv /\ SignalInv /\ EnableInv /\ WaitInv
-----------------------------------------------------------------------------
(* The waits.                                                              *)

(* What an instruction of the management queue is.                         *)
LEMMA CdReady ==
  ASSUME IInv, OrderInv, stage = "ready", NEW k \in 1 .. Len(Block(Mqp)),
         NEW w, w = Block(Mqp)[k]
  PROVE  /\ CdOf(w) /\ w.op \in CdOps /\ w.slave \in Data /\ w.slave \in Registered
         /\ w.ins \in 1 .. Len(iq) /\ w.ins \in Nat
         /\ iq[w.ins].op = w.op /\ iq[w.ins].qp = w.slave
         /\ Mine(Mqp, w.ins) /\ Nr(Mqp, w.ins) = k
         /\ w.inc \in Nat /\ k \in Nat
         /\ \E j \in 1 .. Len(prog[Mqp]) : w = prog[Mqp][j]
<1>1. Mqp \in QPs
  BY DEF QPs
<1>2. /\ k \in 1 .. Len(prog[Mqp]) /\ w = prog[Mqp][k] /\ w.op # "nop"
      /\ w.ins \in 1 .. Len(iq) /\ Mine(Mqp, w.ins) /\ Nr(Mqp, w.ins) = k
      /\ Len(Block(Mqp)) \in Nat
  BY <1>1, Compiled DEF BlockIs
<1>3. CdOf(w)
  BY <1>2 DEF IInv, ProgInv
<1>4. iq[w.ins].op = w.op /\ iq[w.ins].qp = w.slave
  BY <1>3 DEF CdOf, Ins
<1>5. w.op \in CdOps /\ w.slave \in Data
  BY <1>3 DEF CdOf
<1>6. w.inc \in Nat
  <2>1. w \in Wqe \union CdWqe
    <3>1. prog[Mqp] \in Seq(Wqe \union CdWqe)
      BY DEF IInv, TypeOK
    <3> QED
      BY <1>2, <3>1
  <2>2. w \notin Wqe
    BY <1>5 DEF Wqe, CdOps, WaitOps, EnableOps, DataOps
  <2> QED
    BY <2>1, <2>2 DEF CdWqe
<1>7. w.slave \in Registered
  BY <1>2, <1>4 DEF IInv, MemberInv
<1> QED
  BY <1>2, <1>3, <1>4, <1>5, <1>6, <1>7

(* What a CQ counts, by the queues that feed it.                           *)
LEMMA CqesAre ==
  ASSUME NEW q \in Data, NEW n \in Nat
  PROVE  /\ CqesOf(iq, q, n) =
              Nr(Pair[q], n) + (IF HasScq(q) THEN 0 ELSE ScqesOf(iq, q, n))
         /\ Nr(Pair[q], n) \in Nat /\ ScqesOf(iq, q, n) \in Nat
<1>1. Feeders(q) = {Pair[q]}
  BY PairOfPair DEF Feeders
<1>2. Pair[q] # Mqp
  BY PairOfPair
<1>3. CountIn(iq, DataOps, Feeders(q), n) = Nr(Pair[q], n)
  BY <1>1, <1>2 DEF Nr
<1> QED
  BY <1>3, NrIs, SumsType DEF CqesOf, ScqesOf

(* Who has got to the n-th call has executed those before it.              *)
LEMMA ReachedBefore ==
  ASSUME IInv, NEW r \in Ranks, NEW i \in 1 .. Len(iq), NEW w \in Nat, i < w,
         NEW q, q = iq[i].qp, NEW n \in Nat, NEW s \in Nat, s = sent[r][q],
         NEW b \in Nat, b = Len(Block(q)),
         s >= n * b + Nr(q, w)
  PROVE  Reached(r, i, n)
<1>0. i \in Nat /\ i <= w
  BY DEF IInv, TypeOK
<1>1. Nr(q, i) \in Nat /\ Nr(q, w) \in Nat
  BY <1>0, NrIs
<1>2. Nr(q, i) <= Nr(q, w)
  BY <1>0, NrGrows
<1>3. PICK x \in Nat : x = n * b
  BY TimesNat
<1>4. s >= x + Nr(q, i)
  BY <1>1, <1>2, <1>3
<1> QED
  BY <1>3, <1>4 DEF Reached

(* Wait w, in round n, is passed.                                          *)
Passes(r, w, n) ==
  IF w.op = "wait_send" /\ HasScq(w.slave)
    THEN ScqCount(r, w.slave) > w.index + n * w.inc
    ELSE CqCount(r, w.slave) > w.index + n * w.inc

(* The counting pays off: who passes a wait has seen what it is about.     *)
LEMMA WaitSees ==
  ASSUME IInv, OrderInv, stage = "ready", RunTypes, ListInv, SignalInv,
         NEW r \in Ranks, NEW k \in 1 .. Len(Block(Mqp)), NEW w, w = Block(Mqp)[k],
         w.op \in WaitOps, NEW n \in Nat, Passes(r, w, n)
  PROVE  Seen(r, w.ins, n)
<1>1. PICK L \in Nat : L = Len(iq)
  BY DEF IInv, TypeOK
<1>2. PICK q \in Data, e \in 1 .. L :
        /\ q = w.slave /\ e = w.ins /\ e \in Nat /\ CdOf(w)
        /\ iq[e].op = w.op /\ iq[e].qp = q
  BY <1>1, CdReady
<1>3. PICK p \in Data, f \in Ranks :
        /\ p = Pair[q] /\ Pair[p] = q /\ f = Far[r][q] /\ p \in QPs /\ q \in QPs
        /\ Kind[q] = "loopback" => f = r
  BY PairOfPair, RunShape DEF QPs
<1>4. PICK sp \in Nat, sq \in Nat, gq \in Nat, bp \in Nat, bq \in Nat :
        /\ sp = sent[f][p] /\ sq = sent[r][q] /\ gq = signalled[r][q]
        /\ bp = Len(Block(p)) /\ bq = Len(Block(q))
        /\ bp = Nr(p, L) /\ bq = Nr(q, L)
  <2>1. sent[f][p] \in Nat /\ sent[r][q] \in Nat /\ signalled[r][q] \in Nat
    BY DEF RunTypes
  <2>2. BlockIs(p) /\ BlockIs(q)
    BY <1>3, Compiled
  <2>3. /\ Len(Block(p)) \in Nat /\ Len(Block(p)) = Nr(p, L)
        /\ Len(Block(q)) \in Nat /\ Len(Block(q)) = Nr(q, L)
    BY <1>1, <2>2 DEF BlockIs
  <2> QED
    BY <2>1, <2>3
<1>5. ASSUME NEW i \in 1 .. Len(iq)
      PROVE  iq[i].qp \in Data
  <2>1. iq \in Seq(AllIns)
    BY AllInsIs DEF IInv, TypeOK
  <2>2. iq[i] \in AllIns
    BY <2>1
  <2> QED
    BY <2>2 DEF AllIns
<1>6. CASE w.op = "wait" /\ HasScq(q)
  <2>1. w.index = CqesOf(iq, q, e) - 1 /\ w.inc = CqesOf(iq, q, L)
    BY <1>1, <1>2, <1>6 DEF CdOf, IInv, CountsInv
  <2>2. PICK ne \in Nat : ne = Nr(p, e) /\ w.index = ne - 1 /\ w.inc = bp
    <3>1. CqesOf(iq, q, e) = Nr(p, e) + 0 /\ Nr(p, e) \in Nat
      BY <1>2, <1>3, <1>6, CqesAre
    <3>2. CqesOf(iq, q, L) = Nr(p, L) + 0
      BY <1>3, <1>6, CqesAre
    <3> QED
      BY <1>4, <2>1, <3>1, <3>2
  <2>3. CqCount(r, q) = sp
    BY <1>3, <1>4, <1>6 DEF CqCount
  <2>4. PICK x \in Nat : x = n * bp
    BY TimesNat
  <2>5. sp > ne - 1 + x
    BY <1>2, <1>6, <2>2, <2>3, <2>4 DEF Passes
  <2>6. sp >= n * bp + Nr(p, e)
    BY <2>2, <2>4, <2>5
  <2>7. ASSUME NEW i \in 1 .. Len(iq), i < e, Pair[iq[i].qp] = q
        PROVE  Reached(f, i, n)
    <3>1. iq[i].qp = p
      BY <1>3, <1>5, <2>7, PairOfPair
    <3> QED
      BY <1>2, <1>4, <2>6, <2>7, <3>1, ReachedBefore
  <2>8. w.op # "wait_send"
    BY <1>6
  <2> QED
    BY <1>2, <1>3, <1>6, <2>7, <2>8 DEF Seen
<1>7. CASE w.op = "wait_send" /\ HasScq(q)
  <2>1. Kind[q] = "ring"
    <3>1. Kind[q] # "doubling"
      BY <1>1, <1>2, <1>7 DEF ListInv
    <3> QED
      BY <1>7, <3>1 DEF HasScq
  <2>2. w.index = ScqesOf(iq, q, e) - 1 /\ w.inc = ScqesOf(iq, q, L)
    BY <1>1, <1>2, <1>7, <2>1 DEF CdOf, IInv, CountsInv
  <2>3. PICK S \in Nat, Se \in Nat : S = ScqesOf(iq, q, L) /\ Se = ScqesOf(iq, q, e)
    BY <1>2, SumsType
  <2>4. PICK x \in Nat : x = n * S
    BY TimesNat
  <2>5. gq > Se - 1 + x
    BY <1>2, <1>4, <1>7, <2>2, <2>3, <2>4 DEF Passes, ScqCount
  <2>6. gq <= SignalledIn(q, sq)
    BY <1>4 DEF SignalInv
  <2>7. ASSUME NEW i \in 1 .. Len(iq), i < e, iq[i].op \in DataOps, iq[i].qp = q,
               iq[i].op \in CmplOps
        PROVE  Reached(r, i, n)
    <3>1. bq \in Nat \ {0} /\ Mine(q, i)
      BY <1>4, <2>7, TimesIs
    <3>2. PICK j \in Nat : j + 1 = i /\ j \in 0 .. Len(iq) /\ j + 1 <= e
      <4>1. i - 1 \in Nat /\ (i - 1) + 1 = i /\ i - 1 \in 0 .. Len(iq)
        BY <1>1
      <4> QED
        BY <1>2, <2>7, <4>1
    <3>3. PICK ni \in Nat, nj \in Nat : nj = Nr(q, j) /\ ni = Nr(q, i) /\ ni = nj + 1
      <4>1. Nr(q, j + 1) = Nr(q, j) + (IF Mine(q, j + 1) THEN 1 ELSE 0) /\ Nr(q, j) \in Nat
        BY <3>2, NrIs
      <4> QED
        BY <3>1, <3>2, <4>1
    <3>4. PICK y \in Nat : y = n * bq
      BY TimesNat
    <3>5. SUFFICES ASSUME sq <= y + nj
                   PROVE  FALSE
      <4>1. sq >= y + ni => Reached(r, i, n)
        BY <1>4, <2>7, <3>3, <3>4 DEF Reached
      <4>2. sq <= y + nj \/ sq >= y + ni
        BY <3>3
      <4> QED
        BY <4>1, <4>2
    <3>6. SignalledIn(q, sq) <= n * ScqesOf(iq, q, Len(iq)) + ScqesOf(iq, q, j)
          /\ SignalledIn(q, sq) \in Nat
      <4>1. sq <= n * bq + Nr(q, j)
        BY <3>3, <3>4, <3>5
      <4> QED
        BY <1>4, <3>1, <3>2, <4>1, SignalledWithin
    <3>7. ScqesOf(iq, q, j + 1) = ScqesOf(iq, q, j) + 1 /\ ScqesOf(iq, q, j) \in Nat
      <4>1. iq[j + 1].op \in CmplOps /\ iq[j + 1].qp \in {q}
        BY <2>7, <3>2
      <4>2. CountIn(iq, CmplOps, {q}, j + 1) = CountIn(iq, CmplOps, {q}, j) + 1
        BY <3>2, <4>1, CountStep
      <4> QED
        BY <3>2, <4>2, ChosenFinite DEF ScqesOf
    <3>8. ScqesOf(iq, q, j + 1) <= Se
      BY <1>2, <2>3, <3>2, CountGrows DEF ScqesOf
    <3>9. PICK Sj \in Nat, G \in Nat : Sj = ScqesOf(iq, q, j) /\ G = SignalledIn(q, sq)
      BY <3>6, <3>7
    <3>10. G <= x + Sj /\ Sj + 1 <= Se /\ gq <= G
      BY <1>1, <2>3, <2>4, <2>6, <3>6, <3>7, <3>8, <3>9
    <3> QED
      BY <2>5, <3>10
  <2>8. w.op # "wait"
    BY <1>7
  <2> QED
    BY <1>2, <1>3, <1>7, <2>7, <2>8 DEF Seen
<1>8. CASE ~ HasScq(q)
  <2>1. Kind[q] = "loopback" /\ p = q /\ f = r /\ Pair[q] = q
    <3>1. Kind[q] \in {"loopback", "ring", "doubling"} /\ q # Mqp
      BY PairOfPair, GraphShape
    <3>2. Kind[q] = "loopback"
      BY <1>8, <3>1 DEF HasScq
    <3>3. Pair[q] = q
      BY <3>2, GraphShape
    <3> QED
      BY <1>3, <3>2, <3>3
  <2>2. w.index = CqesOf(iq, q, e) - 1 /\ w.inc = CqesOf(iq, q, L)
    BY <1>1, <1>2, <1>8 DEF CdOf, IInv, CountsInv
  <2>3. PICK S \in Nat, Se \in Nat, ne \in Nat :
          /\ S = ScqesOf(iq, q, L) /\ Se = ScqesOf(iq, q, e) /\ ne = Nr(q, e)
          /\ w.index = ne + Se - 1 /\ w.inc = bq + S
    <3>1. /\ CqesOf(iq, q, e) = Nr(q, e) + ScqesOf(iq, q, e)
          /\ Nr(q, e) \in Nat /\ ScqesOf(iq, q, e) \in Nat
      <4>1. /\ CqesOf(iq, q, e) =
                 Nr(Pair[q], e) + (IF HasScq(q) THEN 0 ELSE ScqesOf(iq, q, e))
            /\ Nr(Pair[q], e) \in Nat /\ ScqesOf(iq, q, e) \in Nat
        BY <1>2, CqesAre
      <4> QED
        BY <1>8, <2>1, <4>1
    <3>2. CqesOf(iq, q, L) = Nr(q, L) + ScqesOf(iq, q, L) /\ ScqesOf(iq, q, L) \in Nat
      BY <1>3, <1>8, <2>1, CqesAre
    <3> QED
      BY <1>4, <2>2, <3>1, <3>2
  <2>4. CqCount(r, q) = sq + gq
    BY <1>3, <1>4, <1>8, <2>1 DEF CqCount
  <2>5. PICK x \in Nat, y \in Nat : x = n * bq /\ y = n * S
    BY TimesNat
  <2>6. n * w.inc = x + y
    <3>1. n * (bq + S) = n * bq + n * S
      OBVIOUS
    <3> QED
      BY <2>3, <2>5, <3>1
  <2>7. sq + gq > ne + Se - 1 + (x + y)
    BY <1>2, <1>8, <2>3, <2>4, <2>6 DEF Passes
  <2>8. ASSUME NEW i \in 1 .. Len(iq), i < e, iq[i].op \in DataOps, iq[i].qp = q
        PROVE  Reached(r, i, n)
    <3>1. bq \in Nat \ {0}
      BY <1>4, <2>8, TimesIs
    <3>2. sq >= x + ne
      <4> SUFFICES ASSUME sq < x + ne
                   PROVE  FALSE
        OBVIOUS
      <4>1. PICK G \in Nat : G = SignalledIn(q, sq) /\ G <= y + Se
        <5>0. sq <= x + ne /\ e \in 0 .. Len(iq)
          BY <1>1
        <5>1. sq <= n * bq + Nr(q, e) /\ e \in 0 .. Len(iq)
          BY <2>3, <2>5, <5>0
        <5>2. /\ SignalledIn(q, sq) <= n * ScqesOf(iq, q, Len(iq)) + ScqesOf(iq, q, e)
              /\ SignalledIn(q, sq) \in Nat
          BY <1>4, <3>1, <5>1, SignalledWithin
        <5> QED
          BY <1>1, <2>3, <2>5, <5>2
      <4>2. gq <= G
        BY <1>4, <4>1 DEF SignalInv
      <4> QED
        BY <2>7, <4>1, <4>2
    <3>3. sq >= n * bq + Nr(q, e)
      BY <2>3, <2>5, <3>2
    <3> QED
      BY <1>2, <1>4, <2>8, <3>3, ReachedBefore
  <2>9. ASSUME NEW i \in 1 .. Len(iq), Pair[iq[i].qp] = q
        PROVE  iq[i].qp = q
    BY <1>3, <1>5, <2>1, <2>9, PairOfPair
  <2> QED
    BY <1>2, <1>3, <2>1, <2>8, <2>9 DEF Seen
<1> QED
  BY <1>6, <1>7, <1>8 DEF WaitOps
-----------------------------------------------------------------------------
(* The next instruction of the management queue.                           *)

(* Every queue of a graph that is ready has work to do. *)
LEMMA QueueWorks ==
  ASSUME IInv, OrderInv, stage = "ready", NEW q \in Registered
  PROVE  /\ q \in QPs /\ Len(Block(q)) \in Nat \ {0} /\ Len(Block(q)) = Nr(q, Len(iq))
<1>1. q \in QPs /\ CtxOf(q)
  BY ReadyQueue
<1>2. PICK L \in Nat : L = Len(iq)
  BY DEF IInv, TypeOK
<1>3. Len(Block(q)) = Nr(q, L) /\ Nr(q, L) \in Nat
  BY <1>1, <1>2, Compiled DEF BlockIs
<1>4. WqesOf(iq, q, L) > 0
  BY <1>1, <1>2 DEF CtxOf, Fits, IInv, CountsInv
<1>5. Nr(q, L) # 0
  <2>1. CASE q = Mqp
    BY <1>4, <2>1 DEF WqesOf, Nr
  <2>2. CASE q # Mqp
    <3>1. CountIn(iq, Reduces, {q}, L) <= CountIn(iq, DataOps, {q}, L)
      BY <1>2, CountWithin DEF Reduces, DataOps
    <3>2. /\ CountIn(iq, Reduces, {q}, L) \in Nat
          /\ CountIn(iq, DataOps, {q}, L) \in Nat
      BY <1>2, ChosenFinite
    <3>3. CountIn(iq, DataOps, {q}, L) + CountIn(iq, Reduces, {q}, L) > 0
      BY <1>4, <2>2 DEF WqesOf
    <3> QED
      BY <2>2, <3>1, <3>2, <3>3 DEF Nr
  <2> QED
    BY <2>1, <2>2
<1> QED
  BY <1>1, <1>2, <1>3, <1>5

(* What finish() rings is receive enables, and never the whole block.      *)
LEMMA RungIs ==
  ASSUME ~ LateQps, RunInv, stage = "ready",
         NEW k \in 1 .. Len(Block(Mqp)), NEW w, w = Block(Mqp)[k], w.at < rung
  PROVE  w.op = "recv_enable" /\ k # Len(Block(Mqp))
<1>1. /\ Mqp \in Registered /\ Mqp \in QPs
      /\ IInv /\ OrderInv /\ BlockInv /\ ListInv /\ RecvEnablesFirst
  BY RecvFirst DEF RunInv, IInv, MemberInv, QPs
<1>2. PICK L \in Nat : L = Len(iq)
  BY <1>1 DEF IInv, TypeOK
<1>3. PICK B \in Nat \ {0} : B = Len(Block(Mqp)) /\ B = Nr(Mqp, L)
  BY <1>1, <1>2, QueueWorks
<1>4. /\ k \in 1 .. Len(prog[Mqp]) /\ w = prog[Mqp][k] /\ w.op # "nop"
  BY <1>1, Compiled DEF BlockIs
<1>5. w.op = "recv_enable"
  <2>1. k \in {j \in 1 .. Len(prog[Mqp]) : prog[Mqp][j].op # "nop" /\ prog[Mqp][j].at < rung}
    BY <1>4
  <2>2. <<w.op, w.slave>> \in {<<"recv_enable", q>> : q \in Registered \ {Mqp}}
    BY <1>1, <1>4, <2>1 DEF RecvEnablesFirst
  <2> QED
    BY <2>2
<1>6. k # B
  <2> SUFFICES ASSUME k = B
               PROVE  FALSE
    OBVIOUS
  <2>1. PICK e \in 1 .. L : /\ e = w.ins /\ e \in Nat /\ iq[e].op = "recv_enable"
                            /\ iq[e].qp \in Registered /\ iq[e].qp \in Data
                            /\ Mine(Mqp, e) /\ Nr(Mqp, e) = B
    BY <1>1, <1>2, <1>5, CdReady
  <2>2. PICK q \in Data : q = iq[e].qp /\ q \in Registered /\ q # Mqp
    BY <2>1, PairOfPair
  <2>3. \E i \in 1 .. L : iq[i].op \in DataOps
    <3> SUFFICES ASSUME \A i \in 1 .. L : iq[i].op \notin DataOps
                 PROVE  FALSE
      OBVIOUS
    <3>1. Chosen(iq, DataOps, {q}, L) = {}
      BY DEF Chosen
    <3>2. Nr(q, L) = 0
      BY <2>2, <3>1, FS_EmptySet DEF Nr, CountIn
    <3> QED
      BY <1>1, <1>2, <2>2, <3>2, QueueWorks
  <2>4. PICK j \in 1 .. L : iq[j].op = "send_enable"
    BY <1>1, <1>2, <2>3 DEF ListInv, Enabled
  <2>5. j > e
    <3>1. \A i \in 1 .. L : iq[i].op = "recv_enable" <=> i <= recvEnables
      BY <1>1, <1>2 DEF BlockInv, RecvInv
    <3>2. e <= recvEnables /\ ~ (j <= recvEnables) /\ recvEnables \in Nat
      BY <1>1, <2>1, <2>4, <3>1 DEF IInv, TypeOK
    <3> QED
      BY <3>2
  <2>6. Mine(Mqp, j)
    <3>1. iq \in Seq(AllIns) /\ j \in 1 .. Len(iq)
      BY <1>1, <1>2, AllInsIs DEF IInv, TypeOK
    <3>2. iq[j] \in AllIns
      BY <3>1
    <3> QED
      BY <2>4, <3>2 DEF AllIns, Mine, CdOps, EnableOps
  <2>7. Nr(Mqp, j) <= Nr(Mqp, e)
    <3>1. Nr(Mqp, j) <= Nr(Mqp, L)
      BY NrGrows
    <3> QED
      BY <1>3, <2>1, <3>1
  <2>8. j <= e
    BY <2>1, <2>6, <2>7, NrTells
  <2> QED
    BY <2>5, <2>8
<1> QED
  BY <1>3, <1>5, <1>6

LEMMA CdTurn ==
  ASSUME ~ LateQps, RunInv, stage = "ready", NEW r \in Ranks, NEW ops, AtCd(r, ops)
  PROVE  \E n \in Nat, k \in 1 .. Len(Block(Mqp)) :
           /\ Nth(Mqp, step[r]) = Block(Mqp)[k] /\ Block(Mqp)[k].op \in ops
           /\ RoundOf(Mqp, step[r]) = n
           /\ step[r] + 1 = n * Len(Block(Mqp)) + k
           /\ Block(Mqp)[k].op # "recv_enable" \/ k = Len(Block(Mqp)) => n < rounds[r]
<1>1. IInv /\ OrderInv /\ Mqp \in Registered
  BY DEF RunInv, IInv, MemberInv
<1>2. PICK B \in Nat \ {0} : B = Len(Block(Mqp)) /\ Block(Mqp) # <<>>
  <2>1. Len(Block(Mqp)) \in Nat \ {0}
    BY <1>1, QueueWorks
  <2> QED
    BY <2>1
<1>3. PICK s \in Nat : s = step[r]
  BY DEF RunInv, RunTypes
<1>4. PICK n \in Nat, a \in 0 .. B - 1 : n = s \div B /\ a = s % B /\ s = n * B + a
  BY Turn
<1>5. PICK k \in 1 .. B : k = a + 1
  OBVIOUS
<1>6. RoundOf(Mqp, s) = n /\ Nth(Mqp, s) = Block(Mqp)[k]
  BY <1>2, <1>4, <1>5 DEF RoundOf, Nth
<1>7. s + 1 = n * B + k
  <2>1. PICK x \in Nat : x = n * B
    BY TimesNat
  <2> QED
    BY <1>4, <1>5, <2>1
<1>8. Block(Mqp)[k].op \in ops
  BY <1>3, <1>6 DEF AtCd
<1>9. Block(Mqp)[k].op # "recv_enable" \/ k = B => n < rounds[r]
  <2>1. n < rounds[r] \/ Block(Mqp)[k].at < rung
    BY <1>3, <1>6 DEF AtCd
  <2> QED
    BY <1>2, <2>1, RungIs
<1> QED
  BY <1>2, <1>3, <1>6, <1>7, <1>8, <1>9
-----------------------------------------------------------------------------
(* The steps of the ranks, which leave the graph as it is.                 *)

LEMMA SamePlace ==
  ASSUME NEW b \in Nat, NEW m \in Nat, NEW n \in Nat, NEW p \in 1 .. b, NEW k \in 1 .. b,
         NEW s, s = m * b + p, s = n * b + k
  PROVE  m = n /\ p = k
<1>1. PICK x \in Nat, y \in Nat : x = m * b /\ y = n * b
  BY TimesNat
<1>2. ~ (m < n)
  <2> SUFFICES ASSUME m < n
               PROVE  FALSE
    OBVIOUS
  <2>1. x + b <= y
    BY <1>1, LaterRound
  <2> QED
    BY <1>1, <2>1
<1>3. ~ (n < m)
  <2> SUFFICES ASSUME n < m
               PROVE  FALSE
    OBVIOUS
  <2>1. y + b <= x
    BY <1>1, LaterRound
  <2> QED
    BY <1>1, <2>1
<1>4. m = n
  BY <1>2, <1>3
<1> QED
  BY <1>1, <1>4

LEMMA GraphKept ==
  ASSUME UNCHANGED vars
  PROVE  /\ \A q : Block(q)' = Block(q)
         /\ \A q, n : Nr(q, n)' = Nr(q, n)
         /\ \A q, n : SignalledIn(q, n)' = SignalledIn(q, n)
         /\ UNCHANGED <<stage, iq, drained, prog, rung>>
<1>1. UNCHANGED <<stage, iq, drained, prog, rung>>
  BY DEF vars
<1>2. \A q : Block(q)' = Block(q)
  BY <1>1 DEF Block
<1>3. \A q, n : Nr(q, n)' = Nr(q, n)
  BY <1>1 DEF Nr, CountIn, Chosen
<1>4. \A q, n : SignalledIn(q, n)' = SignalledIn(q, n)
  BY <1>2 DEF SignalledIn, RoundOf
<1> QED
  BY <1>1, <1>2, <1>3, <1>4

LEMMA CompilerKept ==
  ASSUME RunInv, UNCHANGED vars
  PROVE  IInv' /\ BlockInv' /\ OrderInv' /\ ListInv'
<1>1. IInv' /\ BlockInv' /\ OrderInv'
  BY NextStep, LayoutStep, OrderStep DEF RunInv
<1>2. ListInv'
  BY GraphKept DEF RunInv, ListInv, Enabled
<1> QED
  BY <1>1, <1>2

LEMMA SignalKept ==
  ASSUME RunInv, UNCHANGED vars, UNCHANGED <<sent, signalled>>
  PROVE  SignalInv'
BY GraphKept DEF RunInv, SignalInv

LEMMA EnableKept ==
  ASSUME RunInv, UNCHANGED vars, UNCHANGED released, RunTypes',
         \A r \in Ranks : rounds[r] <= rounds'[r] /\ step[r] <= step'[r]
  PROVE  EnableInv'
<1> SUFFICES ASSUME stage = "ready", NEW r \in Ranks, NEW q \in Data, released[r][q] # 0
             PROVE  \E m \in Nat : \E p \in 1 .. Len(Block(Mqp)) : ReleasedBy(r, q, m, p)'
  BY GraphKept DEF EnableInv
<1>1. PICK m \in Nat : \E p \in 1 .. Len(Block(Mqp)) : ReleasedBy(r, q, m, p)
  BY DEF RunInv, EnableInv
<1>2. PICK p \in 1 .. Len(Block(Mqp)) : ReleasedBy(r, q, m, p)
  BY <1>1
<1>3. /\ rounds[r] \in Nat /\ rounds'[r] \in Nat /\ step[r] \in Nat /\ step'[r] \in Nat
      /\ rounds[r] <= rounds'[r] /\ step[r] <= step'[r]
  BY DEF RunInv, RunTypes
<1>4. PICK x \in Nat : x = m * Len(Block(Mqp)) + p
  <2>1. Len(Block(Mqp)) \in Nat
    BY QueueWorks DEF RunInv, IInv, MemberInv
  <2>2. m * Len(Block(Mqp)) \in Nat
    BY <2>1, TimesNat
  <2> QED
    BY <2>1, <2>2
<1>5. m < rounds'[r] /\ x <= step'[r]
  BY <1>2, <1>3, <1>4 DEF ReleasedBy
<1>6. ReleasedBy(r, q, m, p)'
  BY <1>2, <1>4, <1>5, GraphKept DEF ReleasedBy
<1> QED
  BY <1>6

(* What has been seen has been seen. *)
LEMMA SeenKept ==
  ASSUME RunInv, UNCHANGED vars, RunTypes',
         \A r \in Ranks : \A q \in Data : sent[r][q] <= sent'[r][q],
         stage = "ready",
         NEW r \in Ranks, NEW w \in 1 .. Len(iq), NEW n \in Nat, Seen(r, w, n)
  PROVE  Seen(r, w, n)'
<1>1. \A i \in 1 .. Len(iq) : iq[i].qp \in Data /\ iq[i].qp \in QPs
  <2> SUFFICES ASSUME NEW i \in 1 .. Len(iq)
               PROVE  iq[i].qp \in Data
    BY DEF QPs
  <2>1. iq \in Seq(AllIns)
    BY AllInsIs DEF RunInv, IInv, TypeOK
  <2>2. iq[i] \in AllIns
    BY <2>1
  <2> QED
    BY <2>2 DEF AllIns
<1>2. ASSUME NEW t \in Ranks, NEW i \in 1 .. Len(iq), Reached(t, i, n)
      PROVE  Reached(t, i, n)'
  <2>1. PICK q \in Data : q = iq[i].qp /\ q \in QPs
    BY <1>1
  <2>2. PICK s \in Nat, u \in Nat : s = sent[t][q] /\ u = sent'[t][q] /\ s <= u
    <3>1. sent[t][q] \in Nat /\ sent'[t][q] \in Nat
      BY DEF RunInv, RunTypes
    <3> QED
      BY <3>1
  <2>3. PICK b \in Nat, k \in Nat : b = Len(Block(q)) /\ k = Nr(q, i)
    <3>1. i \in Nat
      BY DEF RunInv, IInv, TypeOK
    <3>2. Nr(q, i) \in Nat
      BY <3>1, NrIs
    <3>3. Len(Block(q)) \in Nat
      BY <2>1, Compiled DEF RunInv, BlockIs
    <3> QED
      BY <3>2, <3>3
  <2>4. PICK x \in Nat : x = n * b
    BY TimesNat
  <2>5. s >= x + k
    BY <1>2, <2>1, <2>2, <2>3, <2>4 DEF Reached
  <2>6. u >= x + k
    BY <2>2, <2>5
  <2> QED
    BY <2>1, <2>2, <2>3, <2>4, <2>6, GraphKept DEF Reached
<1>3. Far[r][iq[w].qp] \in Ranks
  BY <1>1, RunShape
<1> QED
  BY <1>2, <1>3, GraphKept DEF Seen

LEMMA WaitKept ==
  ASSUME RunInv, UNCHANGED vars, UNCHANGED step, RunTypes',
         \A r \in Ranks : \A q \in Data : sent[r][q] <= sent'[r][q]
  PROVE  WaitInv'
<1> SUFFICES ASSUME stage = "ready", NEW r \in Ranks, NEW w \in 1 .. Len(iq), NEW n \in Nat,
                    iq[w].op \in WaitOps,
                    n * Len(Block(Mqp)) + Nr(Mqp, w) <= step[r]
             PROVE  Seen(r, w, n)'
  BY GraphKept DEF WaitInv
<1>1. Seen(r, w, n)
  BY DEF RunInv, WaitInv
<1> QED
  BY <1>1, SeenKept

(* The management queue goes on by one instruction.                        *)
LEMMA WaitAdvance ==
  ASSUME RunInv, UNCHANGED vars, UNCHANGED sent, RunTypes', stage = "ready",
         NEW r \in Ranks, step' = [step EXCEPT ![r] = @ + 1],
         NEW n \in Nat, NEW k \in 1 .. Len(Block(Mqp)),
         step[r] + 1 = n * Len(Block(Mqp)) + k,
         Block(Mqp)[k].op \in WaitOps => Passes(r, Block(Mqp)[k], n)
  PROVE  WaitInv'
<1>1. /\ IInv /\ OrderInv /\ RunTypes /\ ListInv /\ SignalInv /\ Mqp \in Registered
  BY DEF RunInv, IInv, MemberInv
<1>2. PICK B \in Nat \ {0} : B = Len(Block(Mqp))
  BY <1>1, QueueWorks
<1>3. \A t \in Ranks : \A q \in Data : sent[t][q] <= sent'[t][q]
  BY <1>1 DEF RunTypes
<1> SUFFICES ASSUME NEW t \in Ranks, NEW w \in 1 .. Len(iq), NEW m \in Nat,
                    iq[w].op \in WaitOps, m * B + Nr(Mqp, w) <= step'[t]
             PROVE  Seen(t, w, m)'
  BY <1>2, GraphKept DEF WaitInv
<1>4. PICK p \in 1 .. B : p = Nr(Mqp, w) /\ Block(Mqp)[p].ins = w
  <2>1. iq \in Seq(AllIns)
    BY <1>1, AllInsIs DEF IInv, TypeOK
  <2>2. iq[w] \in AllIns
    BY <2>1
  <2>3. Mine(Mqp, w)
    BY <2>2 DEF AllIns, Mine, CdOps
  <2>4. BlockIs(Mqp)
    BY <1>1, QueueWorks, Compiled
  <2> QED
    BY <1>2, <2>3, <2>4 DEF BlockIs
<1>5. PICK x \in Nat : x = m * B + p
  <2>1. m * B \in Nat
    BY TimesNat
  <2> QED
    BY <2>1
<1>6. CASE x <= step[t]
  <2>1. Seen(t, w, m)
    BY <1>2, <1>4, <1>5, <1>6 DEF RunInv, WaitInv
  <2> QED
    BY <1>3, <2>1, SeenKept
<1>7. CASE ~ (x <= step[t])
  <2>1. t = r /\ x = step[r] + 1
    <3>1. x <= step'[t]
      BY <1>4, <1>5
    <3>2. step[t] \in Nat /\ step'[t] = IF t = r THEN step[t] + 1 ELSE step[t]
      BY <1>1 DEF RunTypes
    <3> QED
      BY <1>7, <3>1, <3>2
  <2>2. m = n /\ p = k
    <3>1. B \in Nat /\ k \in 1 .. B
      BY <1>2
    <3>2. x = m * B + p /\ x = n * B + k
      BY <1>2, <1>5, <2>1
    <3> QED
      BY <3>1, <3>2, SamePlace, SMTT(30)
  <2>3. Block(Mqp)[k].op \in WaitOps
    <3>1. iq[Block(Mqp)[k].ins].op = Block(Mqp)[k].op
      BY <1>1, CdReady
    <3> QED
      BY <1>4, <2>2, <3>1
  <2>4. Seen(r, w, n)
    BY <1>1, <1>4, <2>2, <2>3, WaitSees
  <2> QED
    BY <1>3, <2>1, <2>2, <2>4, SeenKept
<1> QED
  BY <1>6, <1>7

LEMMA SetIn ==
  ASSUME NEW f \in [Ranks -> [Data -> Nat]], NEW r \in Ranks, NEW q \in Data, NEW v \in Nat,
         NEW g, g = [f EXCEPT ![r][q] = v]
  PROVE  /\ g \in [Ranks -> [Data -> Nat]]
         /\ \A t \in Ranks : \A p \in Data :
              g[t][p] = IF t = r /\ p = q THEN v ELSE f[t][p]
OBVIOUS

LEMMA LiveStep ==
  ASSUME RunInv, NEW r \in Ranks, GoLive(r) \/ Db(r)
  PROVE  RunInv'
<1>1. stage = "ready"
  <2>1. CASE GoLive(r)
    BY <2>1 DEF GoLive
  <2>2. CASE Db(r)
    BY <2>2 DEF Db, RunInv, EarlyInv
  <2> QED
    BY <2>1, <2>2
<1>2. UNCHANGED vars /\ UNCHANGED <<step, released, receives, sent, signalled>>
  BY DEF GoLive, Db
<1>3. RunTypes'
  <2>1. RunTypes
    BY DEF RunInv
  <2>2. CASE GoLive(r)
    BY <2>1, <2>2 DEF GoLive, RunTypes
  <2>3. CASE Db(r)
    <3>1. rounds[r] + 1 \in 0 .. MaxRounds
      <4>1. rounds[r] \in 0 .. MaxRounds /\ rounds[r] < MaxRounds /\ MaxRounds \in Nat
        BY <2>1, <2>3, RunShape DEF Db, RunTypes
      <4> QED
        BY <4>1
    <3> QED
      BY <2>1, <2>3, <3>1 DEF Db, RunTypes
  <2> QED
    BY <2>2, <2>3
<1>4. \A t \in Ranks : rounds[t] <= rounds'[t] /\ step[t] <= step'[t]
  <2> SUFFICES ASSUME NEW t \in Ranks
               PROVE  rounds[t] <= rounds'[t] /\ step[t] <= step'[t]
    OBVIOUS
  <2>1. rounds[t] \in Nat /\ step[t] \in Nat
    BY DEF RunInv, RunTypes
  <2>2. rounds'[t] = rounds[t] \/ rounds'[t] = rounds[t] + 1
    BY DEF GoLive, Db, RunInv, RunTypes
  <2> QED
    BY <1>2, <2>1, <2>2
<1>5. \A t \in Ranks : \A q \in Data : sent[t][q] <= sent'[t][q]
  BY <1>2 DEF RunInv, RunTypes
<1>6. SignalInv' /\ EnableInv' /\ WaitInv'
  BY <1>2, <1>3, <1>4, <1>5, SignalKept, EnableKept, WaitKept
<1>7. EarlyInv'
  BY <1>1, <1>2, GraphKept DEF EarlyInv
<1> QED
  BY <1>2, <1>3, <1>6, <1>7, CompilerKept DEF RunInv

(* An instruction of the management queue is executed.                     *)
LEMMA CdStep ==
  ASSUME ~ LateQps, RunInv, stage = "ready", NEW r \in Ranks,
         HwRecvEnable(r) \/ HwSendEnable(r) \/ HwWait(r)
  PROVE  /\ RunInv'
         /\ \E n \in Nat, k \in 1 .. Len(Block(Mqp)) :
              /\ step[r] + 1 = n * Len(Block(Mqp)) + k
              /\ k = Len(Block(Mqp)) => n < rounds[r]
<1> DEFINE B == Len(Block(Mqp))
<1>1. /\ IInv /\ OrderInv /\ RunTypes /\ Mqp \in Registered
  BY DEF RunInv, IInv, MemberInv
<1>2. PICK ops \in {{"recv_enable"}, {"send_enable"}, WaitOps} :
        /\ AtCd(r, ops)
        /\ ops = {"recv_enable"} => HwRecvEnable(r)
        /\ ops = {"send_enable"} => HwSendEnable(r)
        /\ ops = WaitOps => HwWait(r)
  <2>1. {"recv_enable"} # {"send_enable"} /\ {"recv_enable"} # WaitOps
        /\ {"send_enable"} # WaitOps
    BY DEF WaitOps
  <2>2. HwRecvEnable(r) => AtCd(r, {"recv_enable"})
    BY DEF HwRecvEnable
  <2>3. HwSendEnable(r) => AtCd(r, {"send_enable"})
    BY DEF HwSendEnable
  <2>4. HwWait(r) => AtCd(r, WaitOps)
    BY DEF HwWait
  <2> QED
    BY <2>1, <2>2, <2>3, <2>4
<1>3. PICK n \in Nat, k \in 1 .. Len(Block(Mqp)) :
        /\ Nth(Mqp, step[r]) = Block(Mqp)[k] /\ Block(Mqp)[k].op \in ops
        /\ RoundOf(Mqp, step[r]) = n
        /\ step[r] + 1 = n * Len(Block(Mqp)) + k
        /\ Block(Mqp)[k].op # "recv_enable" \/ k = Len(Block(Mqp)) => n < rounds[r]
  BY <1>2, CdTurn
<1>4. PICK w : w = Block(Mqp)[k]
  OBVIOUS
<1>5. /\ CdOf(w) /\ w.slave \in Data /\ w.inc \in Nat /\ w.ins \in Nat
      /\ \E j \in 1 .. Len(prog[Mqp]) : w = prog[Mqp][j]
  BY <1>1, <1>4, CdReady
<1>6. Slave(r) = w.slave /\ Counter(r) = w.index + n * w.inc
  BY <1>3, <1>4 DEF Slave, Counter
<1>7. /\ UNCHANGED vars /\ UNCHANGED <<live, rounds, sent, signalled>>
      /\ step' = [step EXCEPT ![r] = @ + 1]
  BY DEF HwRecvEnable, HwSendEnable, HwWait
<1>8. w.op \notin WaitOps => Counter(r) \in Nat
  <2> SUFFICES ASSUME w.op \notin WaitOps
               PROVE  w.index \in Nat
    <3>1. n * w.inc \in Nat
      BY <1>5, TimesNat
    <3> QED
      BY <1>6, <3>1
  <2>1. CASE w.op = "send_enable"
    <3>1. w.index = WqesOf(iq, w.slave, w.ins)
      BY <1>5, <2>1 DEF CdOf
    <3> QED
      BY <1>5, <3>1, SumsType
  <2>2. CASE w.op = "recv_enable"
    <3>1. w.index = AllReceives
      BY <1>1, <1>5, <2>2 DEF OrderInv, RecvIndex
    <3> QED
      BY <3>1 DEF AllReceives
  <2> QED
    BY <1>5, <2>1, <2>2 DEF CdOf, CdOps, EnableOps
<1>9. step' \in [Ranks -> Nat] /\ \A t \in Ranks : step[t] \in Nat /\ step[t] <= step'[t]
  BY <1>1, <1>7 DEF RunTypes
<1>10. RunTypes'
  <2>1. CASE ops = {"recv_enable"}
    <3>1. receives' = [receives EXCEPT ![r][w.slave] = Counter(r)] /\ UNCHANGED released
      BY <1>2, <1>6, <2>1 DEF HwRecvEnable
    <3>2. Counter(r) \in Nat
      BY <1>3, <1>4, <1>8, <2>1 DEF WaitOps
    <3>3. receives' \in [Ranks -> [Data -> Nat]]
      BY <1>1, <1>5, <3>1, <3>2, SetIn DEF RunTypes
    <3> QED
      BY <1>1, <1>7, <1>9, <3>1, <3>3 DEF RunTypes
  <2>2. CASE ops = {"send_enable"}
    <3>1. released' = [released EXCEPT ![r][w.slave] = Counter(r)] /\ UNCHANGED receives
      BY <1>2, <1>6, <2>2 DEF HwSendEnable
    <3>2. Counter(r) \in Nat
      BY <1>3, <1>4, <1>8, <2>2 DEF WaitOps
    <3>3. released' \in [Ranks -> [Data -> Nat]]
      BY <1>1, <1>5, <3>1, <3>2, SetIn DEF RunTypes
    <3> QED
      BY <1>1, <1>7, <1>9, <3>1, <3>3 DEF RunTypes
  <2>3. CASE ops = WaitOps
    <3>1. UNCHANGED <<released, receives>>
      BY <1>2, <2>3 DEF HwWait
    <3> QED
      BY <1>1, <1>7, <1>9, <3>1 DEF RunTypes
  <2> QED
    BY <2>1, <2>2, <2>3
<1>11. EnableInv'
  <2>1. \A t \in Ranks : rounds[t] <= rounds'[t] /\ step[t] <= step'[t]
    BY <1>1, <1>7, <1>9 DEF RunTypes
  <2>2. CASE ops # {"send_enable"}
    <3>1. UNCHANGED released
      BY <1>2, <2>2 DEF HwRecvEnable, HwWait
    <3> QED
      BY <1>7, <1>10, <2>1, <3>1, EnableKept
  <2>3. CASE ops = {"send_enable"}
    <3>1. released' = [released EXCEPT ![r][w.slave] = Counter(r)]
      BY <1>2, <1>6, <2>3 DEF HwSendEnable
    <3>2. Counter(r) \in Nat /\ w.op = "send_enable" /\ n < rounds[r]
      BY <1>3, <1>4, <1>8, <2>3 DEF WaitOps
    <3> SUFFICES ASSUME NEW t \in Ranks, NEW q \in Data, released'[t][q] # 0
                 PROVE  \E m \in Nat : \E p \in 1 .. Len(Block(Mqp)) : ReleasedBy(t, q, m, p)'
      BY <1>7, GraphKept DEF EnableInv
    <3>3. released'[t][q] = IF t = r /\ q = w.slave THEN Counter(r) ELSE released[t][q]
      <4>1. released \in [Ranks -> [Data -> Nat]] /\ w.slave \in Data
        BY <1>1, <1>5 DEF RunTypes
      <4>2. \A u \in Ranks : \A p \in Data :
              released'[u][p] = IF u = r /\ p = w.slave THEN Counter(r) ELSE released[u][p]
        BY <3>1, <3>2, <4>1, SetIn
      <4> QED
        BY <4>2
    <3>4. CASE t = r /\ q = w.slave
      <4>1. step'[r] = n * Len(Block(Mqp)) + k /\ step'[r] \in Nat
        BY <1>1, <1>3, <1>7, <1>9 DEF RunTypes
      <4>2. n * Len(Block(Mqp)) + k <= step'[r]
        BY <4>1
      <4>3. ReleasedBy(r, q, n, k)'
        BY <1>4, <1>6, <1>7, <3>2, <3>3, <3>4, <4>2, GraphKept DEF ReleasedBy
      <4> QED
        BY <3>4, <4>3
    <3>5. CASE ~ (t = r /\ q = w.slave)
      <4>1. released[t][q] # 0 /\ released'[t][q] = released[t][q]
        BY <3>3, <3>5
      <4>2. PICK m \in Nat : \E p \in 1 .. Len(Block(Mqp)) : ReleasedBy(t, q, m, p)
        BY <4>1 DEF RunInv, EnableInv
      <4>3. PICK p \in 1 .. Len(Block(Mqp)) : ReleasedBy(t, q, m, p)
        BY <4>2
      <4>4. PICK x \in Nat : x = m * Len(Block(Mqp)) + p
        <5>1. Len(Block(Mqp)) \in Nat
          BY <1>1, QueueWorks
        <5>2. m * Len(Block(Mqp)) \in Nat
          BY <5>1, TimesNat
        <5> QED
          BY <5>1, <5>2
      <4>5. x <= step'[t]
        <5>1. x <= step[t]
          BY <4>3, <4>4 DEF ReleasedBy
        <5>2. step[t] \in Nat /\ step'[t] \in Nat /\ step[t] <= step'[t]
          BY <1>9
        <5> QED
          BY <5>1, <5>2
      <4>6. ReleasedBy(t, q, m, p)'
        BY <1>7, <4>1, <4>3, <4>4, <4>5, GraphKept DEF ReleasedBy
      <4> QED
        BY <4>6
    <3> QED
      BY <3>4, <3>5
  <2> QED
    BY <2>2, <2>3
<1>12. WaitInv'
  <2>1. w.op \in WaitOps => Passes(r, w, n)
    <3> SUFFICES ASSUME w.op \in WaitOps
                 PROVE  Passes(r, w, n)
      OBVIOUS
    <3>1. HwWait(r)
      BY <1>2, <1>3, <1>4 DEF WaitOps
    <3> QED
      BY <1>3, <1>4, <1>6, <3>1 DEF HwWait, Passes
  <2> QED
    BY <1>3, <1>4, <1>7, <1>10, <2>1, WaitAdvance
<1>13. SignalInv' /\ EarlyInv'
  BY <1>7, SignalKept, GraphKept DEF EarlyInv
<1>14. RunInv'
  BY <1>7, <1>10, <1>11, <1>12, <1>13, CompilerKept DEF RunInv
<1>15. k = Len(Block(Mqp)) => n < rounds[r]
  BY <1>3
<1> QED
  BY <1>3, <1>14, <1>15

LEMMA SendStep ==
  ASSUME RunInv, stage = "ready", NEW r \in Ranks, NEW q \in Data, HwSend(r, q)
  PROVE  RunInv'
<1>1. /\ UNCHANGED vars /\ UNCHANGED <<live, rounds, step, released, receives, signalled>>
      /\ sent' = [sent EXCEPT ![r][q] = @ + 1] /\ Len(Block(q)) > 0
  BY DEF HwSend
<1>2. /\ RunTypes /\ q \in QPs /\ sent[r][q] + 1 \in Nat
      /\ \A t \in Ranks : \A p \in Data : sent[t][p] \in Nat /\ signalled[t][p] \in Nat
  BY DEF RunInv, RunTypes, QPs
<1>3. /\ sent' \in [Ranks -> [Data -> Nat]]
      /\ \A t \in Ranks : \A p \in Data :
           sent'[t][p] = IF t = r /\ p = q THEN sent[r][q] + 1 ELSE sent[t][p]
  <2>1. sent \in [Ranks -> [Data -> Nat]]
    BY <1>2 DEF RunTypes
  <2> QED
    BY <1>1, <1>2, <2>1
<1>4. RunTypes'
  BY <1>1, <1>2, <1>3 DEF RunTypes
<1>5. \A t \in Ranks : \A p \in Data : sent[t][p] <= sent'[t][p]
  BY <1>2, <1>3
<1>6. \A t \in Ranks : rounds[t] <= rounds'[t] /\ step[t] <= step'[t]
  BY <1>1, <1>2 DEF RunTypes
<1>7. SignalInv'
  <2> SUFFICES ASSUME NEW t \in Ranks, NEW p \in Data
               PROVE  /\ signalled[t][p] <= SignalledIn(p, sent'[t][p])
                      /\ Len(Block(p)) = 0 => sent'[t][p] = 0
    BY <1>1, GraphKept DEF SignalInv
  <2>1. /\ signalled[t][p] <= SignalledIn(p, sent[t][p])
        /\ Len(Block(p)) = 0 => sent[t][p] = 0
    BY DEF RunInv, SignalInv
  <2>2. CASE t = r /\ p = q
    <3>1. PICK b \in Nat \ {0} : b = Len(Block(q))
      <4>1. Len(Block(q)) \in Nat
        BY <1>2, Compiled DEF RunInv, BlockIs
      <4> QED
        BY <1>1, <4>1
    <3>2. PICK s \in Nat : s = sent[r][q] /\ sent'[r][q] = s + 1 /\ s <= s + 1
      BY <1>2, <1>3
    <3>3. /\ SignalledIn(q, s) \in Nat
          /\ SignalledIn(q, s) <= SignalledIn(q, s + 1)
      BY <3>1, <3>2, SignalledGrows
    <3>4. SignalledIn(q, s + 1) \in Nat
      BY <3>1, <3>2, SignalledGrows
    <3>5. signalled[r][q] \in Nat
      BY <1>2
    <3>6. signalled[r][q] <= SignalledIn(q, s + 1)
      BY <2>1, <2>2, <3>2, <3>3, <3>4, <3>5
    <3> QED
      BY <2>2, <3>1, <3>2, <3>6
  <2>3. CASE ~ (t = r /\ p = q)
    BY <1>3, <2>1, <2>3
  <2> QED
    BY <2>2, <2>3
<1>8. EnableInv' /\ WaitInv'
  BY <1>1, <1>4, <1>5, <1>6, EnableKept, WaitKept
<1>9. EarlyInv'
  BY <1>1, GraphKept DEF EarlyInv
<1> QED
  BY <1>1, <1>4, <1>7, <1>8, <1>9, CompilerKept DEF RunInv

LEMMA AckStep ==
  ASSUME RunInv, stage = "ready", NEW r \in Ranks, NEW q \in Data, HwAck(r, q)
  PROVE  RunInv'
<1>1. /\ UNCHANGED vars /\ UNCHANGED <<live, rounds, step, released, receives, sent>>
      /\ signalled' = [signalled EXCEPT ![r][q] = @ + 1]
      /\ signalled[r][q] < SignalledIn(q, sent[r][q])
  BY DEF HwAck
<1>2. /\ RunTypes /\ q \in QPs /\ signalled[r][q] + 1 \in Nat
      /\ \A t \in Ranks : \A p \in Data : sent[t][p] \in Nat /\ signalled[t][p] \in Nat
  BY DEF RunInv, RunTypes, QPs
<1>3. /\ signalled' \in [Ranks -> [Data -> Nat]]
      /\ \A t \in Ranks : \A p \in Data :
           signalled'[t][p] = IF t = r /\ p = q THEN signalled[r][q] + 1 ELSE signalled[t][p]
  <2>1. signalled \in [Ranks -> [Data -> Nat]]
    BY <1>2 DEF RunTypes
  <2> QED
    BY <1>1, <1>2, <2>1
<1>4. RunTypes'
  BY <1>1, <1>2, <1>3 DEF RunTypes
<1>5. \A t \in Ranks : \A p \in Data : sent[t][p] <= sent'[t][p]
  BY <1>1, <1>2
<1>6. \A t \in Ranks : rounds[t] <= rounds'[t] /\ step[t] <= step'[t]
  BY <1>1, <1>2 DEF RunTypes
<1>7. SignalInv'
  <2> SUFFICES ASSUME NEW t \in Ranks, NEW p \in Data
               PROVE  /\ signalled'[t][p] <= SignalledIn(p, sent[t][p])
                      /\ Len(Block(p)) = 0 => sent[t][p] = 0
    BY <1>1, GraphKept DEF SignalInv
  <2>1. /\ signalled[t][p] <= SignalledIn(p, sent[t][p])
        /\ Len(Block(p)) = 0 => sent[t][p] = 0
    BY DEF RunInv, SignalInv
  <2>2. CASE t = r /\ p = q
    <3>1. PICK s \in Nat, g \in Nat : s = sent[r][q] /\ g = signalled[r][q]
      BY <1>2
    <3>2. SignalledIn(q, s) \in Nat
      <4>1. Len(Block(q)) \in Nat
        BY <1>2, Compiled DEF RunInv, BlockIs
      <4>2. CASE Len(Block(q)) = 0
        <5>1. s = 0
          BY <2>1, <2>2, <3>1, <4>2
        <5> QED
          BY <5>1 DEF SignalledIn
      <4>3. CASE Len(Block(q)) # 0
        <5>1. Len(Block(q)) \in Nat \ {0} /\ s <= s
          BY <4>1, <4>3
        <5> QED
          BY <5>1, SignalledGrows
      <4> QED
        BY <4>2, <4>3
    <3>3. g + 1 <= SignalledIn(q, s)
      BY <1>1, <3>1, <3>2
    <3> QED
      BY <1>3, <2>1, <2>2, <3>1, <3>3
  <2>3. CASE ~ (t = r /\ p = q)
    BY <1>3, <2>1, <2>3
  <2> QED
    BY <2>2, <2>3
<1>8. EnableInv' /\ WaitInv'
  BY <1>1, <1>4, <1>5, <1>6, EnableKept, WaitKept
<1>9. EarlyInv'
  BY <1>1, GraphKept DEF EarlyInv
<1> QED
  BY <1>1, <1>4, <1>7, <1>8, <1>9, CompilerKept DEF RunInv

LEMMA RestStep ==
  ASSUME RunInv, UNCHANGED runVars
  PROVE  RunInv'
<1>1. /\ UNCHANGED vars
      /\ UNCHANGED <<live, rounds, step, released, receives, sent, signalled>>
  BY DEF runVars, device
<1>2. RunTypes'
  BY <1>1 DEF RunInv, RunTypes
<1>3. \A t \in Ranks : /\ rounds[t] <= rounds'[t] /\ step[t] <= step'[t]
                       /\ \A p \in Data : sent[t][p] <= sent'[t][p]
  BY <1>1 DEF RunInv, RunTypes
<1>4. SignalInv' /\ EnableInv' /\ WaitInv'
  BY <1>1, <1>2, <1>3, SignalKept, EnableKept, WaitKept
<1>5. EarlyInv'
  BY <1>1, GraphKept DEF RunInv, EarlyInv
<1> QED
  BY <1>1, <1>2, <1>4, <1>5, CompilerKept DEF RunInv
-----------------------------------------------------------------------------
(* The steps of the author and of the compiler.                            *)

LEMMA Quiet ==
  ASSUME RunInv, Author \/ Compile
  PROVE  /\ [Next]_vars /\ stage # "ready" /\ UNCHANGED device
         /\ stage' = "ready" => FinishDb
<1>1. CASE Author
  <2>1. Building \/ Finish
    BY <1>1 DEF Author
  <2>2. stage = "build" /\ stage' \in {"build", "init"}
    BY <2>1 DEF Building, NewQp, NewPair, Construct, SendCredit, Write, WriteCmpl,
                DoublingWriteCmpl, ReduceWrite, ReduceWriteCmpl, Operation, Wait, Finish
  <2> QED
    BY <1>1, <2>1, <2>2 DEF Author, Next
<1>2. CASE Compile
  <2>1. Finishing
    BY <1>2 DEF Compile
  <2>2. /\ stage \in {"init", "drain", "fin"}
        /\ stage' = "ready" => FinishDb
    BY <2>1 DEF Finishing, InitQp, InitTrap, InitDone, Drain, DrainDone, FinQp, FinishDb
  <2> QED
    BY <1>2, <2>1, <2>2 DEF Compile, Next
<1> QED
  BY <1>1, <1>2

LEMMA EnabledMore ==
  ASSUME NEW s \in Seq(AllIns), NEW t \in Seq(AllIns), Enabled(s),
         (\E i \in 1 .. Len(t) : t[i].op \in DataOps) =>
           \E i \in 1 .. Len(t) : t[i].op = "send_enable"
  PROVE  Enabled(s \o t)
<1>1. /\ Len(s \o t) = Len(s) + Len(t) /\ Len(s) \in Nat /\ Len(t) \in Nat
      /\ \A i \in 1 .. Len(s) : (s \o t)[i] = s[i] /\ i \in 1 .. Len(s \o t)
      /\ \A i \in 1 .. Len(t) : /\ (s \o t)[Len(s) + i] = t[i]
                                /\ Len(s) + i \in 1 .. Len(s \o t)
  OBVIOUS
<1>2. \A i \in 1 .. Len(s \o t) :
        i \in 1 .. Len(s) \/ (i - Len(s) \in 1 .. Len(t) /\ i = Len(s) + (i - Len(s)))
  BY <1>1
<1>3. CASE \E i \in 1 .. Len(s) : s[i].op = "send_enable"
  BY <1>1, <1>3 DEF Enabled
<1>4. CASE \E i \in 1 .. Len(t) : t[i].op = "send_enable"
  BY <1>1, <1>4 DEF Enabled
<1>5. CASE /\ \A i \in 1 .. Len(s) : s[i].op \notin DataOps
           /\ \A i \in 1 .. Len(t) : t[i].op \notin DataOps
  <2>1. ASSUME NEW i \in 1 .. Len(s \o t)
        PROVE  (s \o t)[i].op \notin DataOps
    <3>1. CASE i \in 1 .. Len(s)
      BY <1>1, <1>5, <3>1
    <3>2. CASE i \notin 1 .. Len(s)
      <4>1. PICK j \in 1 .. Len(t) : i = Len(s) + j
        BY <1>2, <3>2
      <4> QED
        BY <1>1, <1>5, <4>1
    <3> QED
      BY <3>1, <3>2
  <2> QED
    BY <2>1 DEF Enabled
<1> QED
  BY <1>3, <1>4, <1>5 DEF Enabled

LEMMA BuildingEnabled ==
  ASSUME IInv, Enabled(iq), Building
  PROVE  Enabled(iq)'
<1>1. iq \in Seq(AllIns)
  BY AllInsIs DEF IInv, TypeOK
<1> SUFFICES Enabled(iq')
  BY DEF Enabled
<1>2. PICK q \in Data : \/ NewQp(q) \/ NewPair(q)
                        \/ SendCredit(q) \/ Write(q) \/ WriteCmpl(q) \/ DoublingWriteCmpl(q)
                        \/ ReduceWrite(q) \/ ReduceWriteCmpl(q)
                        \/ \E op \in WaitOps : Wait(q, op)
  BY DEF Building
<1>3. ASSUME NEW op \in DataOps, NEW own, NEW ownS, Operation(q, op, own, ownS)
      PROVE  Enabled(iq')
  <2>1. PICK t : t = <<Ins(op, q), Ins("send_enable", q)>>
    OBVIOUS
  <2>2. Ins(op, q) \in AllIns /\ Ins("send_enable", q) \in AllIns
    BY DEF Ins, AllIns, CdOps, EnableOps
  <2>3. t \in Seq(AllIns) /\ Len(t) = 2 /\ t[2] = Ins("send_enable", q)
    BY <2>1, <2>2
  <2>4. 2 \in 1 .. Len(t) /\ t[2].op = "send_enable"
    BY <2>3 DEF Ins
  <2>5. iq' = iq \o t
    BY <1>3, <2>1 DEF Operation
  <2> QED
    BY <1>1, <2>3, <2>4, <2>5, EnabledMore
<1>4. ASSUME NEW news \in Seq(Data), Construct(news)
      PROVE  Enabled(iq')
  <2>1. PICK t : t = [i \in 1 .. Len(news) |-> Ins("recv_enable", news[i])]
    OBVIOUS
  <2>2. \A i \in 1 .. Len(news) : Ins("recv_enable", news[i]) \in AllIns
    BY DEF Ins, AllIns, CdOps, EnableOps
  <2>3. t \in Seq(AllIns) /\ Len(t) = Len(news)
    BY <2>1, <2>2
  <2>4. \A i \in 1 .. Len(t) : t[i].op \notin DataOps
    BY <2>1, <2>3 DEF Ins, DataOps
  <2>5. iq' = iq \o t
    BY <1>4, <2>1 DEF Construct
  <2> QED
    BY <1>1, <2>3, <2>4, <2>5, EnabledMore
<1>5. ASSUME NEW op \in WaitOps, Wait(q, op)
      PROVE  Enabled(iq')
  <2>1. PICK t : t = <<Ins(op, q)>>
    OBVIOUS
  <2>2. Ins(op, q) \in AllIns
    BY DEF Ins, AllIns, CdOps
  <2>3. t \in Seq(AllIns) /\ Len(t) = 1 /\ t[1] = Ins(op, q)
    BY <2>1, <2>2
  <2>4. \A i \in 1 .. Len(t) : t[i].op \notin DataOps
    BY <2>3 DEF Ins, DataOps, WaitOps
  <2>5. iq' = iq \o t
    BY <1>1, <1>5, <2>1, <2>2 DEF Wait
  <2> QED
    BY <1>1, <2>3, <2>4, <2>5, EnabledMore
<1>6. CASE NewQp(q) \/ NewPair(q)
  <2>1. <<q>> \in Seq(Data) /\ <<q, Pair[q]>> \in Seq(Data)
    BY PairOfPair
  <2> QED
    BY <1>4, <1>6, <2>1 DEF NewQp, NewPair
<1>7. CASE \/ SendCredit(q) \/ Write(q) \/ WriteCmpl(q) \/ DoublingWriteCmpl(q)
           \/ ReduceWrite(q) \/ ReduceWriteCmpl(q)
  <2>1. {"sendCredit", "write", "writeCmpl", "reduce_write", "reduce_write_cmpl"} = DataOps
    BY DEF DataOps
  <2> QED
    BY <1>3, <1>7, <2>1 DEF SendCredit, Write, WriteCmpl, DoublingWriteCmpl, ReduceWrite,
                           ReduceWriteCmpl
<1> QED
  BY <1>2, <1>5, <1>6, <1>7

(* A block is as long as it has instructions. *)
LEMMA BlockLength ==
  ASSUME NEW s, NEW W, s \in Seq(W)
  PROVE  \E n \in Nat :
           /\ n = Cardinality({j \in 1 .. Len(s) : s[j].op # "nop"})
           /\ Len([k \in 1 .. n |-> s[k]]) = n
<1>1. PICK m \in Nat : m = Len(s)
  OBVIOUS
<1>2. {j \in 1 .. m : s[j].op # "nop"} \in SUBSET (1 .. m) /\ IsFiniteSet(1 .. m)
  BY FS_Interval
<1>3. IsFiniteSet({j \in 1 .. m : s[j].op # "nop"})
  BY <1>2, FS_Subset
<1>4. PICK n \in Nat : n = Cardinality({j \in 1 .. m : s[j].op # "nop"})
  BY <1>3, FS_CardinalityType
<1>5. Len([k \in 1 .. n |-> s[k]]) = n
  <2>1. PICK V : \A k \in 1 .. n : s[k] \in V
    <3>1. \A k \in 1 .. n : s[k] \in {s[j] : j \in 1 .. n}
      OBVIOUS
    <3> QED
      BY <3>1
  <2>2. [k \in 1 .. n |-> s[k]] \in Seq(V)
    BY <2>1
  <2>3. DOMAIN [k \in 1 .. n |-> s[k]] = 1 .. n
    OBVIOUS
  <2> QED
    BY <2>2, <2>3
<1> QED
  BY <1>1, <1>4, <1>5

LEMMA QuietList ==
  ASSUME ScriptsAim, RunInv, Author \/ Compile
  PROVE  ListInv'
<1>1. IInv /\ IInv' /\ ListInv /\ Len(iq') \in Nat
  <2>1. IInv'
    BY Quiet, NextStep DEF RunInv
  <2>2. TypeOK'
    BY <2>1 DEF IInv
  <2>3. Len(iq') \in Nat
    BY <2>2 DEF TypeOK
  <2> QED
    BY <2>1, <2>3 DEF RunInv
<1>2. CASE iq' = iq
  BY <1>1, <1>2 DEF ListInv, Enabled
<1>3. CASE Building /\ Author
  <2>1. PICK s \in Scripts : /\ Len(iq') <= Len(s)
                             /\ \A i \in 1 .. Len(iq') : iq'[i] = s[i]
    <3>1. ~ Finish
      BY <1>3 DEF Finish, Building, NewQp, NewPair, Construct, SendCredit, Write, WriteCmpl,
                  DoublingWriteCmpl, ReduceWrite, ReduceWriteCmpl, Operation, Wait
    <3> QED
      BY <1>3, <3>1 DEF Author
  <2>2. ASSUME NEW i \in 1 .. Len(iq'), iq'[i].op = "wait_send"
        PROVE  Kind[iq'[i].qp] # "doubling"
    <3>1. s[i] = iq'[i] /\ (Len(s) \in Nat => i \in 1 .. Len(s))
      BY <1>1, <2>1
    <3> QED
      BY <2>2, <3>1 DEF ScriptsAim
  <2>3. Enabled(iq)'
    BY <1>1, <1>3, BuildingEnabled DEF ListInv
  <2> QED
    BY <2>2, <2>3 DEF ListInv
<1>4. Author => iq' = iq \/ Building
  BY DEF Author, Finish
<1>5. Compile => iq' = iq
  BY DEF Compile, Finishing, InitQp, InitTrap, InitDone, Drain, DrainDone, FinQp, FinishDb
<1> QED
  BY <1>2, <1>3, <1>4, <1>5

LEMMA QuietStep ==
  ASSUME ScriptsAim, RunInv, Author \/ Compile
  PROVE  RunInv'
<1>1. /\ [Next]_vars /\ stage # "ready"
      /\ UNCHANGED <<live, rounds, step, released, receives, sent, signalled>>
      /\ stage' = "ready" => FinishDb
  BY Quiet DEF device
<1>2. IInv' /\ BlockInv' /\ OrderInv'
  BY <1>1, NextStep, LayoutStep, OrderStep DEF RunInv
<1>3. ListInv'
  BY QuietList
<1>4. RunTypes'
  BY <1>1 DEF RunInv, RunTypes
<1>5. /\ live = {}
      /\ rounds = [r \in Ranks |-> 0] /\ step = [r \in Ranks |-> 0]
      /\ released = [r \in Ranks |-> [q \in Data |-> 0]]
      /\ sent = [r \in Ranks |-> [q \in Data |-> 0]]
      /\ signalled = [r \in Ranks |-> [q \in Data |-> 0]]
  BY <1>1 DEF RunInv, EarlyInv
<1>6. EarlyInv'
  BY <1>1, <1>5 DEF EarlyInv
<1>7. \A r \in Ranks : /\ step'[r] = 0
                       /\ \A q \in Data : /\ released'[r][q] = 0 /\ sent'[r][q] = 0
                                          /\ signalled'[r][q] = 0
  BY <1>1, <1>5
<1>8. SignalInv'
  BY <1>7 DEF SignalInv, SignalledIn
<1>9. EnableInv'
  BY <1>7 DEF EnableInv
<1>10. WaitInv'
  <2> SUFFICES ASSUME stage' = "ready", NEW r \in Ranks, NEW w \in 1 .. Len(iq'), NEW n \in Nat,
                      iq'[w].op \in WaitOps,
                      n * Len(Block(Mqp))' + Nr(Mqp, w)' <= step'[r]
               PROVE  FALSE
    BY DEF WaitInv
  <2>1. UNCHANGED <<iq, prog>> /\ IInv
    BY <1>1 DEF FinishDb, RunInv
  <2>2. Block(Mqp)' = Block(Mqp) /\ Nr(Mqp, w)' = Nr(Mqp, w)
    BY <2>1 DEF Block, Nr, CountIn, Chosen
  <2>3. PICK b \in Nat : b = Len(Block(Mqp))
    <3>1. prog[Mqp] \in Seq(Wqe \union CdWqe)
      BY <2>1 DEF IInv, TypeOK
    <3> QED
      BY <3>1, BlockLength DEF Block
  <2>4. PICK k \in Nat : k = Nr(Mqp, w) /\ k >= 1
    <3>1. iq \in Seq(AllIns) /\ w \in 1 .. Len(iq)
      BY <2>1, AllInsIs DEF IInv, TypeOK
    <3>2. iq[w] \in AllIns /\ w \in Nat \ {0}
      BY <3>1
    <3>3. Mine(Mqp, w)
      BY <2>1, <3>2 DEF AllIns, Mine, CdOps
    <3>4. Nr(Mqp, w) = Nr(Mqp, w - 1) + 1
      BY <3>2, <3>3, NrTells
    <3>5. w - 1 \in Nat
      BY <3>2
    <3>6. Nr(Mqp, w - 1) \in Nat
      BY <3>5, NrIs
    <3> QED
      BY <3>4, <3>6
  <2>5. n * b \in Nat
    BY TimesNat
  <2>6. step'[r] = 0 /\ n * b + k <= step'[r]
    BY <1>7, <2>2, <2>3, <2>4
  <2> QED
    BY <2>4, <2>5, <2>6
<1> QED
  BY <1>2, <1>3, <1>4, <1>6, <1>8, <1>9, <1>10 DEF RunInv

LEMMA RunStart == RunInit => RunInv
<1> SUFFICES ASSUME RunInit
             PROVE  RunInv
  OBVIOUS
<1>1. IInv /\ BlockInv
  BY Start, BlockStart DEF RunInit
<1>2. OrderInv
  <2>1. drained = 0 /\ Mqp \in QPs /\ \A q \in QPs : prog[q] = <<>>
    BY DEF RunInit, Init, QPs
  <2> QED
    BY <2>1, OrderStart
<1>3. stage = "build" /\ iq = <<>>
  BY DEF RunInit, Init
<1>4. ListInv
  BY <1>3 DEF ListInv, Enabled
<1>5. RunTypes
  BY RunShape DEF RunInit, RunTypes
<1>6. EarlyInv
  BY DEF RunInit, EarlyInv
<1> QED
  BY <1>1, <1>2, <1>3, <1>4, <1>5, <1>6 DEF RunInv, SignalInv, EnableInv, WaitInv

LEMMA RunStep ==
  ASSUME ~ LateQps, ScriptsAim, RunInv, [RunNext]_runVars
  PROVE  RunInv'
<1>1. CASE Author \/ Compile
  BY <1>1, QuietStep
<1>2. ASSUME NEW r \in Ranks, GoLive(r) \/ Db(r) \/ Device(r)
      PROVE  RunInv'
  <2>1. CASE GoLive(r) \/ Db(r)
    BY <2>1, LiveStep
  <2>2. CASE Device(r)
    <3>1. CASE HwRecvEnable(r) \/ HwSendEnable(r) \/ HwWait(r)
      BY <2>2, <3>1, CdStep DEF Device
    <3>2. CASE \E q \in Data \intersect Registered : HwSend(r, q) \/ HwAck(r, q)
      BY <2>2, <3>2, SendStep, AckStep DEF Device
    <3> QED
      BY <2>2, <3>1, <3>2 DEF Device
  <2> QED
    BY <1>2, <2>1, <2>2
<1>3. CASE Rest \/ UNCHANGED runVars
  BY <1>3, RestStep DEF Rest
<1> QED
  BY <1>1, <1>2, <1>3 DEF RunNext

(* The invariant of a run, under what the theorems ask of the author: he   *)
(* constructs the QPs first, and waits for the sends of no DoublingQp.     *)
THEOREM RunInvariance ==
  ASSUME ~ LateQps, ScriptsAim
  PROVE  RunSpec => []RunInv
<1>1. RunInit => RunInv
  BY RunStart
<1>2. RunInv /\ [RunNext]_runVars => RunInv'
  BY RunStep
<1> QED
  BY <1>1, <1>2, PTL DEF RunSpec

(* The counters of every device keep their types; a queue never counts     *)
(* more completions of its own than it has sent.                           *)
THEOREM RunTypesCorrect ==
  ASSUME ~ LateQps, ScriptsAim
  PROVE  RunSpec => []RunTypeOK
<1>1. ASSUME RunInv
      PROVE  RunTypeOK
  <2>1. ASSUME NEW r \in Ranks, NEW q \in Data
        PROVE  signalled[r][q] \in 0 .. sent[r][q]
    <3>1. PICK s \in Nat, g \in Nat : s = sent[r][q] /\ g = signalled[r][q]
      <4>1. sent[r][q] \in Nat /\ signalled[r][q] \in Nat
        BY <1>1 DEF RunInv, RunTypes
      <4> QED
        BY <4>1
    <3>2. CASE stage # "ready"
      <4>1. g = 0
        BY <1>1, <3>1, <3>2 DEF RunInv, EarlyInv
      <4> QED
        BY <3>1, <4>1
    <3>3. CASE stage = "ready"
      <4>1. g <= SignalledIn(q, s) /\ (Len(Block(q)) = 0 => s = 0)
        BY <1>1, <3>1, <3>3 DEF RunInv, SignalInv
      <4>2. Len(Block(q)) \in Nat
        <5>1. q \in QPs
          BY DEF QPs
        <5> QED
          BY <1>1, <3>3, <5>1, Compiled DEF RunInv, BlockIs
      <4>3. CASE Len(Block(q)) = 0
        <5>1. s = 0 /\ SignalledIn(q, s) = 0
          BY <4>1, <4>3 DEF SignalledIn
        <5> QED
          BY <3>1, <4>1, <5>1
      <4>4. CASE Len(Block(q)) # 0
        <5>1. Len(Block(q)) \in Nat \ {0} /\ s <= s
          BY <4>2, <4>4
        <5>2. SignalledIn(q, s) \in Nat /\ SignalledIn(q, s) <= s
          BY <5>1, SignalledGrows
        <5> QED
          BY <3>1, <4>1, <5>2
      <4> QED
        BY <4>3, <4>4
    <3> QED
      BY <3>2, <3>3
  <2> QED
    BY <1>1, <2>1 DEF RunInv, RunTypes, RunTypeOK
<1>2. RunInv => RunTypeOK
  BY <1>1
<1> QED
  BY <1>2, RunInvariance, PTL
-----------------------------------------------------------------------------
(* What the author sees.                                                   *)

LEMMA ReachedDone ==
  ASSUME IInv, OrderInv, RunTypes, stage = "ready",
         NEW t \in Ranks, NEW i \in 1 .. Len(iq), iq[i].op \in DataOps, NEW n \in Nat,
         Reached(t, i, n)
  PROVE  Done[t][i] > n
<1>1. PICK q \in Data : q = iq[i].qp
  BY TimesIs
<1>2. PICK b \in Nat \ {0}, k \in Nat :
        /\ b = Len(Block(q)) /\ k = Nr(q, i) /\ k \in 1 .. b
        /\ Times(t, i) = (sent[t][q] + b - k) \div b
  BY <1>1, TimesIs
<1>3. PICK s \in Nat : s = sent[t][q]
  BY DEF RunTypes
<1>4. n * b + k <= s
  <2>1. PICK x \in Nat : x = n * b
    BY TimesNat
  <2>2. s >= x + k
    BY <1>1, <1>2, <1>3, <2>1 DEF Reached
  <2> QED
    BY <2>1, <2>2
<1>5. (s + b - k) \div b > n
  BY <1>4, RoundsPast
<1>6. Done[t][i] = Times(t, i)
  BY DEF Done
<1> QED
  BY <1>2, <1>3, <1>5, <1>6

LEMMA SeenSatisfies ==
  ASSUME IInv, OrderInv, RunTypes, stage = "ready",
         NEW r \in Ranks, NEW w \in 1 .. Len(iq), NEW n \in Nat, Seen(r, w, n)
  PROVE  AuthorView!Satisfied(r, w, n)
<1>1. PICK q \in Data : q = iq[w].qp
  <2>1. iq \in Seq(AllIns)
    BY AllInsIs DEF IInv, TypeOK
  <2>2. iq[w] \in AllIns
    BY <2>1
  <2> QED
    BY <2>2 DEF AllIns
<1>2. Built = iq /\ (q \notin OwnCqs <=> ~ HasScq(q)) /\ Far[r][q] \in Ranks
  BY RunShape DEF Built, OwnCqs
<1>3. AuthorView!Ops = {i \in 1 .. Len(iq) : iq[i].op \in DataOps}
  BY <1>2 DEF AuthorView!Ops, AuthorView!DataOps, DataOps
<1>4. ASSUME NEW i \in AuthorView!Arriving(w)
      PROVE  Done[Far[r][q]][i] > n
  <2>1. /\ i \in 1 .. Len(iq) /\ iq[i].op \in DataOps /\ i < w
        /\ iq[w].op = "wait" \/ ~ HasScq(q)
        /\ Pair[iq[i].qp] = q
    BY <1>1, <1>2, <1>3, <1>4 DEF AuthorView!Arriving
  <2>2. Reached(Far[r][q], i, n)
    BY <1>1, <2>1 DEF Seen
  <2> QED
    BY <1>2, <2>1, <2>2, ReachedDone
<1>5. ASSUME NEW i \in AuthorView!Leaving(w)
      PROVE  Done[r][i] > n
  <2>1. /\ i \in 1 .. Len(iq) /\ iq[i].op \in DataOps /\ i < w
        /\ iq[w].op = "wait_send" \/ ~ HasScq(q)
        /\ iq[i].qp = q /\ iq[i].op \in CmplOps
    BY <1>1, <1>2, <1>3, <1>5 DEF AuthorView!Leaving, AuthorView!CmplOps, CmplOps
  <2>2. Reached(r, i, n)
    BY <1>1, <2>1 DEF Seen
  <2> QED
    BY <2>1, <2>2, ReachedDone
<1> QED
  BY <1>1, <1>2, <1>4, <1>5 DEF AuthorView!Satisfied

LEMMA ViewKept ==
  ASSUME UNCHANGED vars, UNCHANGED sent
  PROVE  UNCHANGED <<Built, Done>>
BY DEF vars, Built, Done, Times, Block

LEMMA SeenSame ==
  ASSUME UNCHANGED vars, UNCHANGED sent, NEW r, NEW w, NEW n, Seen(r, w, n)'
  PROVE  Seen(r, w, n)
BY GraphKept DEF Seen, Reached

(* An instruction of the management queue, that may be the last of a round. *)
LEMMA CdView ==
  ASSUME ~ LateQps, RunInv, stage = "ready", NEW r \in Ranks,
         HwRecvEnable(r) \/ HwSendEnable(r) \/ HwWait(r)
  PROVE  AuthorView!End(r) \/ UNCHANGED <<Built, rounds, Done, RoundsEnded>>
<1>1. /\ UNCHANGED vars /\ UNCHANGED <<sent, rounds>>
      /\ step' = [step EXCEPT ![r] = @ + 1]
  BY DEF HwRecvEnable, HwSendEnable, HwWait
<1>2. /\ RunInv' /\ IInv /\ OrderInv /\ RunTypes /\ Mqp \in Registered
      /\ \E n \in Nat, k \in 1 .. Len(Block(Mqp)) :
           /\ step[r] + 1 = n * Len(Block(Mqp)) + k
           /\ k = Len(Block(Mqp)) => n < rounds[r]
  BY CdStep DEF RunInv, IInv, MemberInv
<1>3. PICK B \in Nat \ {0} : /\ B = Len(Block(Mqp)) /\ Block(Mqp) # <<>>
                             /\ B = Nr(Mqp, Len(iq))
  <2>1. Len(Block(Mqp)) \in Nat \ {0} /\ Len(Block(Mqp)) = Nr(Mqp, Len(iq))
    BY <1>2, QueueWorks
  <2> QED
    BY <2>1
<1>4. PICK n \in Nat, k \in 1 .. B : step[r] + 1 = n * B + k /\ (k = B => n < rounds[r])
  BY <1>2, <1>3
<1>5. PICK s \in Nat : s = step[r] /\ step'[r] = s + 1
  BY <1>1, <1>2 DEF RunTypes
<1>6. PICK x \in Nat : x = n * B /\ s + 1 = x + k
  BY <1>4, <1>5, TimesNat
<1>7. UNCHANGED <<Built, Done>> /\ Block(Mqp)' = Block(Mqp) /\ UNCHANGED <<stage, iq>>
  BY <1>1, ViewKept, GraphKept
<1>8. Ended(r) = n
  <2>1. PICK a \in 0 .. B - 1 : a = k - 1
    OBVIOUS
  <2>2. s = n * B + a
    BY <1>6, <2>1
  <2>3. (n * B + a) \div B = n
    BY TurnIs
  <2> QED
    BY <1>3, <1>5, <2>2, <2>3 DEF Ended, RoundOf
<1>9. Ended(r)' = IF k = B THEN n + 1 ELSE n
  <2>1. CASE k = B
    <3>1. (n + 1) * B = x + B
      BY <1>6
    <3>2. s + 1 = (n + 1) * B + 0 /\ n + 1 \in Nat /\ 0 \in 0 .. B - 1
      BY <1>6, <2>1, <3>1
    <3>3. ((n + 1) * B + 0) \div B = n + 1
      BY <3>2, TurnIs
    <3> QED
      BY <1>3, <1>5, <1>7, <2>1, <3>2, <3>3 DEF Ended, RoundOf
  <2>2. CASE k # B
    <3>1. k \in 0 .. B - 1 /\ s + 1 = n * B + k
      BY <1>6, <2>2
    <3>2. (n * B + k) \div B = n
      BY <3>1, TurnIs
    <3> QED
      BY <1>3, <1>5, <1>7, <2>2, <3>1, <3>2 DEF Ended, RoundOf
  <2> QED
    BY <2>1, <2>2
<1>10. ASSUME NEW t \in Ranks, t # r
       PROVE  Ended(t)' = Ended(t)
  <2>1. step'[t] = step[t]
    BY <1>1, <1>2, <1>10 DEF RunTypes
  <2> QED
    BY <1>7, <2>1 DEF Ended, RoundOf
<1>11. CASE k # B
  <2>1. \A t \in Ranks : Ended(t)' = Ended(t)
    BY <1>8, <1>9, <1>10, <1>11
  <2>2. RoundsEnded' = RoundsEnded
    BY <2>1 DEF RoundsEnded
  <2> QED
    BY <1>1, <1>7, <2>2
<1>12. CASE k = B
  <2>1. RoundsEnded[r] = n /\ RoundsEnded' = [RoundsEnded EXCEPT ![r] = @ + 1]
    <3>1. \A t \in Ranks : Ended(t)' = IF t = r THEN Ended(t) + 1 ELSE Ended(t)
      BY <1>8, <1>9, <1>10, <1>12
    <3> QED
      BY <1>8, <3>1 DEF RoundsEnded
  <2>2. n < rounds[r]
    BY <1>4, <1>12
  <2>3. ASSUME NEW w \in 1 .. Len(iq), iq[w].op \in WaitOps
        PROVE  AuthorView!Satisfied(r, w, n)
    <3>1. n * B + Nr(Mqp, w) <= step'[r]
      <4>1. w \in Nat /\ Len(iq) \in Nat /\ w <= Len(iq)
        BY <1>2 DEF IInv, TypeOK
      <4>2. Nr(Mqp, w) \in Nat /\ Nr(Mqp, w) <= B
        BY <1>3, <4>1, NrIs, NrGrows
      <4> QED
        BY <1>5, <1>6, <1>12, <4>2
    <3>2. Seen(r, w, n)'
      <4>1. WaitInv' /\ Nr(Mqp, w)' = Nr(Mqp, w)
        BY <1>1, <1>2, GraphKept DEF RunInv
      <4> QED
        BY <1>3, <1>7, <2>3, <3>1, <4>1 DEF WaitInv
    <3>3. Seen(r, w, n)
      BY <1>1, <3>2, SeenSame
    <3> QED
      BY <1>2, <3>3, SeenSatisfies
  <2>4. Built = iq
    BY DEF Built
  <2> QED
    BY <1>1, <1>7, <2>1, <2>2, <2>3, <2>4 DEF AuthorView!End, AuthorView!Waits, WaitOps
<1> QED
  BY <1>11, <1>12

(* A WQE takes the slots that the list gives it: as many as are taken      *)
(* after it, and at least one more than before it.                         *)
LEMMA WqeEnds ==
  ASSUME IInv, NEW q \in Data, NEW v, DataOf(q, v), NEW i, i = v.ins
  PROVE  /\ i \in Nat \ {0} /\ iq[i].op \in DataOps /\ iq[i].qp = q
         /\ v.at + v.size = WqesOf(iq, q, i)
         /\ WqesOf(iq, q, i - 1) < WqesOf(iq, q, i)
         /\ WqesOf(iq, q, i) \in Nat
<1>1. i \in 1 .. drained /\ drained \in Nat /\ iq[i] = Ins(v.op, q) /\ v.op \in DataOps
  BY DEF DataOf, IInv, TypeOK
<1>2. PICK j \in Nat : j + 1 = i /\ j = i - 1
  <2>1. i - 1 \in Nat /\ (i - 1) + 1 = i
    BY <1>1
  <2> QED
    BY <2>1
<1>3. iq[j + 1].op = v.op /\ iq[j + 1].qp = q /\ q \in QPs
  BY <1>1, <1>2 DEF Ins, QPs
<1>4. PostAdds(iq, q, j, v.op, q)
  BY <1>1, <1>3, SumsOfPost
<1>5. WqesOf(iq, q, i) = WqesOf(iq, q, j) + Size(v.op) /\ WqesOf(iq, q, j) \in Nat
  BY <1>2, <1>4, SumsType DEF PostAdds
<1>6. v.at = WqesOf(iq, q, j) /\ v.size = Size(v.op) /\ Size(v.op) \in {1, 2}
  BY <1>2 DEF DataOf, Size
<1> QED
  BY <1>1, <1>2, <1>3, <1>5, <1>6

(* A WQE that is released was released by an enable behind it, of its own  *)
(* round or of a later one.                                                *)
LEMMA ReleaseIs ==
  ASSUME RunInv, stage = "ready", NEW r \in Ranks, NEW q \in Data,
         NEW v, DataOf(q, v), NEW n \in Nat,
         n * ctx[q].wqes + v.at + v.size <= released[r][q], q \in Registered
  PROVE  \E m \in Nat : \E p \in 1 .. Len(Block(Mqp)) :
           /\ ReleasedBy(r, q, m, p)
           /\ n <= m
           /\ n = m => v.ins < Block(Mqp)[p].ins
<1>1. IInv /\ OrderInv /\ RunTypes /\ q \in QPs
  BY DEF RunInv, QPs
<1>2. PICK L \in Nat : L = Len(iq)
  BY <1>1 DEF IInv, TypeOK
<1>3. PICK i \in Nat \ {0}, W \in Nat :
        /\ i = v.ins /\ W = WqesOf(iq, q, i) /\ v.at + v.size = W
        /\ WqesOf(iq, q, i - 1) < W /\ iq[i].op \in DataOps
  BY <1>1, WqeEnds
<1>4. ctx[q] # NoCtx /\ ctx[q] \in Ctx
  BY <1>1, ReadyQueue
<1>5. PICK C \in Nat : C = ctx[q].wqes
  BY <1>4 DEF Ctx
<1>6. PICK x \in Nat : x = n * C
  BY TimesNat
<1>7. PICK R \in Nat : R = released[r][q] /\ x + W <= R
  <2>1. released[r][q] \in Nat
    BY <1>1 DEF RunTypes
  <2>2. v.at \in Nat /\ v.size \in Nat
    <3>1. /\ v.ins \in Nat \ {0} /\ v.at = WqesOf(iq, q, v.ins - 1) /\ v.size = Size(v.op)
          /\ Size(v.op) \in Nat
      BY <1>3 DEF DataOf, Size
    <3>2. v.ins - 1 \in Nat
      BY <3>1
    <3>3. WqesOf(iq, q, v.ins - 1) \in Nat
      BY <3>2, SumsType
    <3> QED
      BY <3>1, <3>3
  <2>3. x + v.at + v.size <= released[r][q]
    BY <1>5, <1>6
  <2>4. x + W <= released[r][q]
    BY <1>3, <2>2, <2>3
  <2> QED
    BY <2>1, <2>4
<1>8. W >= 1
  <2>1. i - 1 \in Nat
    OBVIOUS
  <2>2. WqesOf(iq, q, i - 1) \in Nat
    BY <2>1, SumsType
  <2> QED
    BY <1>3, <2>2
<1>9. PICK m \in Nat : \E p \in 1 .. Len(Block(Mqp)) : ReleasedBy(r, q, m, p)
  <2>1. released[r][q] # 0
    BY <1>7, <1>8
  <2> QED
    BY <2>1 DEF RunInv, EnableInv
<1>10. PICK p \in 1 .. Len(Block(Mqp)) : ReleasedBy(r, q, m, p)
  BY <1>9
<1>11. PICK e : e = Block(Mqp)[p]
  OBVIOUS
<1>12. PICK j \in 1 .. L : /\ j = e.ins /\ iq[j].op = "send_enable" /\ j \in Nat
                           /\ e.index = WqesOf(iq, q, j) /\ e.inc = C
  <2>1. e.op = "send_enable" /\ e.slave = q
    BY <1>10, <1>11 DEF ReleasedBy
  <2>2. CdOf(e) /\ e.ins \in 1 .. Len(iq) /\ e.ins \in Nat /\ iq[e.ins].op = e.op
    BY <1>1, <1>11, CdReady
  <2> QED
    BY <1>2, <1>5, <2>1, <2>2 DEF CdOf
<1>13. PICK E \in Nat : E = WqesOf(iq, q, j) /\ E <= C
  <2>1. WqesOf(iq, q, j) \in Nat
    BY <1>12, SumsType
  <2>2. j \in Nat /\ j <= Len(iq)
    BY <1>2, <1>12
  <2>3. WqesOf(iq, q, j) <= ctx[q].wqes
    BY <1>1, <1>4, <2>2, RoomInBlock
  <2> QED
    BY <1>5, <2>1, <2>3
<1>14. PICK y \in Nat : y = m * C /\ R = E + y
  <2>1. m * C \in Nat
    BY TimesNat
  <2> QED
    BY <1>7, <1>10, <1>11, <1>12, <1>13, <2>1 DEF ReleasedBy
<1>15. n <= m
  <2> SUFFICES ASSUME m < n
               PROVE  FALSE
    OBVIOUS
  <2>1. y + C <= x
    BY <1>6, <1>14, LaterRound
  <2> QED
    BY <1>7, <1>8, <1>13, <1>14, <2>1
<1>16. ASSUME n = m
       PROVE  i < j
  <2> SUFFICES ASSUME j <= i
               PROVE  FALSE
    BY <1>12
  <2>1. j # i
    BY <1>3, <1>12 DEF DataOps
  <2>2. j <= i - 1 /\ i - 1 \in Nat
    BY <1>12, <2>1
  <2>3. PICK h \in Nat : h = i - 1 /\ j <= h
    BY <2>2
  <2>4. j \in Nat
    BY <1>12
  <2>5. WqesOf(iq, q, j) <= WqesOf(iq, q, h)
    BY <2>3, <2>4, SumsGrow
  <2>6. WqesOf(iq, q, h) \in Nat
    BY SumsType
  <2>7. x = y
    BY <1>6, <1>14, <1>16
  <2> QED
    BY <1>3, <1>7, <1>13, <1>14, <2>3, <2>5, <2>6, <2>7
<1> QED
  BY <1>3, <1>10, <1>11, <1>12, <1>15, <1>16

(* The waits before it have then seen what they are about.                 *)
LEMMA ReleasedSees ==
  ASSUME RunInv, stage = "ready", NEW r \in Ranks, NEW q \in Data,
         NEW m \in Nat, NEW p \in 1 .. Len(Block(Mqp)), ReleasedBy(r, q, m, p),
         NEW n \in Nat, NEW i \in Nat, n <= m, n = m => i < Block(Mqp)[p].ins,
         NEW w \in 1 .. Len(iq), iq[w].op \in WaitOps, w < i
  PROVE  Seen(r, w, n)
<1>1. IInv /\ OrderInv /\ Mqp \in Registered /\ RunTypes
  BY DEF RunInv, IInv, MemberInv
<1>2. PICK B \in Nat \ {0} : B = Len(Block(Mqp)) /\ B = Nr(Mqp, Len(iq))
  BY <1>1, QueueWorks
<1>3. PICK L \in Nat : L = Len(iq) /\ w \in Nat /\ w <= L
  BY <1>1 DEF IInv, TypeOK
<1>4. PICK s \in Nat : s = step[r]
  BY <1>1 DEF RunTypes
<1>5. PICK x \in Nat, y \in Nat : x = n * B /\ y = m * B /\ y + p <= s
  <2>1. n * B \in Nat /\ m * B \in Nat
    BY TimesNat
  <2> QED
    BY <1>2, <1>4, <2>1 DEF ReleasedBy
<1>6. PICK k \in Nat : k = Nr(Mqp, w) /\ k <= B
  BY <1>2, <1>3, NrIs, NrGrows
<1>7. x + k <= s
  <2>1. CASE n = m
    <3>1. PICK j \in Nat : j = Block(Mqp)[p].ins /\ Nr(Mqp, j) = p
      BY <1>1, CdReady
    <3>2. w <= j
      BY <1>3, <2>1, <3>1
    <3>3. k <= p
      BY <1>3, <1>6, <3>1, <3>2, NrGrows
    <3>4. x = y /\ y + p <= s /\ p \in Nat
      BY <1>2, <1>5, <2>1
    <3> QED
      BY <3>3, <3>4
  <2>2. CASE n # m
    <3>1. n < m
      BY <2>2
    <3>2. x + B <= y
      BY <1>5, <3>1, LaterRound
    <3>3. y + p <= s /\ k <= B /\ p \in Nat
      BY <1>2, <1>5, <1>6
    <3> QED
      BY <3>2, <3>3
  <2> QED
    BY <2>1, <2>2
<1>8. n * Len(Block(Mqp)) + Nr(Mqp, w) <= step[r]
  BY <1>2, <1>4, <1>5, <1>6, <1>7
<1> QED
  BY <1>8 DEF RunInv, WaitInv

(* A data queue executes a WQE.                                            *)
LEMMA SendView ==
  ASSUME RunInv, stage = "ready", NEW r \in Ranks, NEW q \in Data, q \in Registered,
         HwSend(r, q)
  PROVE  \E i \in AuthorView!Ops : AuthorView!Do(r, i)
<1>0. PICK L \in Nat : L = Len(iq)
  BY DEF RunInv, IInv, TypeOK
<1>1. /\ IInv /\ OrderInv /\ RunTypes /\ q \in QPs /\ q # Mqp
      /\ UNCHANGED vars /\ UNCHANGED <<step, rounds>>
      /\ sent' = [sent EXCEPT ![r][q] = @ + 1]
  BY PairOfPair DEF RunInv, HwSend, QPs
<1>2. PICK b \in Nat \ {0} : b = Len(Block(q)) /\ Block(q) # <<>>
  <2>1. Len(Block(q)) \in Nat \ {0}
    BY <1>1, QueueWorks
  <2> QED
    BY <2>1
<1>3. PICK s \in Nat : s = sent[r][q]
  BY <1>1 DEF RunTypes
<1>4. PICK n \in Nat, a \in 0 .. b - 1 : n = s \div b /\ a = s % b /\ s = n * b + a
  BY Turn
<1>5. PICK k \in 1 .. b : k = a + 1
  OBVIOUS
<1>6. PICK v : v = Block(q)[k]
  OBVIOUS
<1>7. RoundOf(q, s) = n /\ Nth(q, s) = v
  BY <1>2, <1>4, <1>5, <1>6 DEF RoundOf, Nth
<1>8. n * ctx[q].wqes + v.at + v.size <= released[r][q]
  BY <1>3, <1>7 DEF HwSend
<1>9. PICK i \in 1 .. Len(iq) : /\ i = v.ins /\ Mine(q, i) /\ Nr(q, i) = k /\ DataOf(q, v)
                                /\ iq[i].op \in DataOps /\ iq[i].qp = q
  <2>1. /\ v = prog[q][k] /\ k \in 1 .. Len(prog[q]) /\ v.op # "nop"
        /\ v.ins \in 1 .. Len(iq) /\ Mine(q, v.ins) /\ Nr(q, v.ins) = k
    BY <1>1, <1>2, <1>6, Compiled DEF BlockIs
  <2>2. DataOf(q, v)
    BY <1>1, <2>1 DEF IInv, ProgInv
  <2> QED
    BY <1>1, <2>1, <2>2 DEF Mine
<1>10. PICK m \in Nat, p \in 1 .. Len(Block(Mqp)) :
         /\ ReleasedBy(r, q, m, p)
         /\ n <= m
         /\ n = m => i < Block(Mqp)[p].ins
  BY <1>8, <1>9, ReleaseIs
<1>11. n < rounds[r]
  <2>1. rounds[r] \in Nat /\ m < rounds[r]
    BY <1>1, <1>10 DEF RunTypes, ReleasedBy
  <2> QED
    BY <1>10, <2>1
<1>12. ASSUME NEW w \in 1 .. Len(iq), iq[w].op \in WaitOps, w < i
       PROVE  AuthorView!Satisfied(r, w, n)
  <2>1. i \in Nat
    <3>1. i \in 1 .. L
      BY <1>0
    <3> QED
      BY <3>1
  <2>2. Seen(r, w, n)
    BY <1>10, <1>12, <2>1, ReleasedSees
  <2> QED
    BY <1>1, <2>2, SeenSatisfies
(* What is done before and after. *)
<1>13. /\ \A t \in Ranks : \A x \in Data : sent'[t][x] =
              IF t = r /\ x = q THEN s + 1 ELSE sent[t][x]
  BY <1>1, <1>3 DEF RunTypes
<1>14. ASSUME NEW j \in 1 .. Len(iq), iq[j].op \in DataOps, iq[j].qp = q
       PROVE  /\ Times(r, j) = IF j < i THEN n + 1 ELSE n
              /\ Times(r, j)' = IF j < i \/ j = i THEN n + 1 ELSE n
  <2>1. /\ Mine(q, j) /\ Nr(q, j) \in 1 .. b
        /\ Times(r, j) = (sent[r][q] + b - Nr(q, j)) \div b
        /\ Times(r, j)' = (sent'[r][q] + b - Nr(q, j)) \div b
    <3>1. UNCHANGED <<iq, prog>>
      BY <1>1 DEF vars
    <3>2. /\ Mine(q, j) /\ Nr(q, j) \in 1 .. b
          /\ Times(r, j) = (sent[r][q] + b - Nr(q, j)) \div b
      BY <1>1, <1>2, <1>14, TimesIs
    <3>3. Times(r, j)' = (sent'[r][q] + b - Nr(q, j)) \div b
      BY <1>1, <1>2, <1>14, <3>1, TimesNext
    <3> QED
      BY <3>2, <3>3
  <2>2. PICK h \in 1 .. b : h = Nr(q, j)
    BY <2>1
  <2>3. PICK y \in Nat : y = n * b
    BY TimesNat
  <2>4. Times(r, j) = IF h <= a THEN n + 1 ELSE n
    <3>1. a \in 0 .. b
      OBVIOUS
    <3>2. (n * b + a + b - h) \div b = IF h <= a THEN n + 1 ELSE n
      BY <3>1, RoundsDone
    <3> QED
      BY <1>3, <1>4, <2>1, <2>2, <3>2
  <2>5. Times(r, j)' = IF h <= a + 1 THEN n + 1 ELSE n
    <3>0. s = y + a
      BY <1>4, <2>3
    <3>1. a + 1 \in 0 .. b /\ n * b + (a + 1) = s + 1
      BY <2>3, <3>0
    <3>2. (n * b + (a + 1) + b - h) \div b = IF h <= a + 1 THEN n + 1 ELSE n
      BY <3>1, RoundsDone
    <3> QED
      BY <1>13, <2>1, <2>2, <3>1, <3>2
  <2>6. i \in Nat \ {0} /\ j \in Nat \ {0}
    <3>1. i \in 1 .. L /\ j \in 1 .. L
      BY <1>0
    <3> QED
      BY <3>1
  <2>7. (j <= i <=> h <= k) /\ (i <= j <=> k <= h)
    BY <1>9, <2>1, <2>2, <2>6, NrTells
  <2>8. (j < i <=> h <= a) /\ (j < i \/ j = i <=> h <= a + 1)
    BY <1>5, <2>6, <2>7
  <2> QED
    BY <2>4, <2>5, <2>8
<1>15. ASSUME NEW t \in Ranks, NEW j \in 1 .. Len(iq), iq[j].op \in DataOps,
              t # r \/ iq[j].qp # q
       PROVE  Times(t, j)' = Times(t, j)
  <2>1. PICK x \in Data : x = iq[j].qp
    BY <1>1, <1>15, TimesIs
  <2>2. sent'[t][x] = sent[t][x]
    BY <1>13, <1>15, <2>1
  <2>3. UNCHANGED <<iq, prog>>
    BY <1>1 DEF vars
  <2>4. PICK b2, k2 : b2 = Len(Block(x)) /\ k2 = Nr(x, j)
    OBVIOUS
  <2>5. Times(t, j) = (sent[t][x] + b2 - k2) \div b2
    BY <1>1, <1>15, <2>1, <2>4, TimesIs
  <2>6. Times(t, j)' = (sent'[t][x] + b2 - k2) \div b2
    BY <1>1, <1>15, <2>1, <2>3, <2>4, TimesNext
  <2> QED
    BY <2>2, <2>5, <2>6
<1>16. /\ Built = iq /\ UNCHANGED <<Built, RoundsEnded, stage, iq>>
       /\ \A t \in Ranks : \A j \in 1 .. Len(iq) :
            /\ Done[t][j] = IF iq[j].op \in DataOps THEN Times(t, j) ELSE 0
       /\ Done' = [t \in Ranks |-> [j \in 1 .. Len(iq) |->
                     IF iq[j].op \in DataOps THEN Times(t, j)' ELSE 0]]
       /\ Done = [t \in Ranks |-> [j \in 1 .. Len(iq) |->
                     IF iq[j].op \in DataOps THEN Times(t, j) ELSE 0]]
  BY <1>1 DEF vars, Built, RoundsEnded, Ended, RoundOf, Block, Done
<1>17. Done[r][i] = n
  BY <1>9, <1>14, <1>16
<1>18. \A t \in Ranks : \A j \in 1 .. Len(iq) :
         (IF iq[j].op \in DataOps THEN Times(t, j)' ELSE 0) =
           IF t = r /\ j = i THEN n + 1 ELSE Done[t][j]
  BY <1>9, <1>14, <1>15, <1>16
<1>19. Done' = [Done EXCEPT ![r][i] = n + 1]
  <2>1. /\ Done = [t \in Ranks |-> [j \in 1 .. Len(iq) |-> Done[t][j]]]
        /\ Done' = [t \in Ranks |-> [j \in 1 .. Len(iq) |-> Done'[t][j]]]
    BY <1>16
  <2>2. \A t \in Ranks : \A j \in 1 .. Len(iq) :
          Done'[t][j] = IF t = r /\ j = i THEN n + 1 ELSE Done[t][j]
    BY <1>16, <1>18
  <2>3. PICK J, f, g : J = 1 .. Len(iq) /\ f = Done /\ g = Done'
    OBVIOUS
  <2>4. /\ f = [t \in Ranks |-> [j \in J |-> f[t][j]]]
        /\ g = [t \in Ranks |-> [j \in J |-> g[t][j]]]
        /\ \A t \in Ranks : \A j \in J :
             g[t][j] = IF t = r /\ j = i THEN n + 1 ELSE f[t][j]
        /\ i \in J
    BY <2>1, <2>2, <2>3, Zenon
  <2>5. g[r] = [f[r] EXCEPT ![i] = n + 1]
    <3>1. f[r] = [j \in J |-> f[r][j]] /\ g[r] = [j \in J |-> g[r][j]]
      BY <2>4
    <3>2. \A j \in J : g[r][j] = IF j = i THEN n + 1 ELSE f[r][j]
      BY <2>4
    <3> QED
      BY <2>4, <3>1, <3>2
  <2>6. ASSUME NEW t \in Ranks, t # r
        PROVE  g[t] = f[t]
    <3>1. f[t] = [j \in J |-> f[t][j]] /\ g[t] = [j \in J |-> g[t][j]]
      BY <2>4
    <3>2. \A j \in J : g[t][j] = f[t][j]
      BY <2>4, <2>6
    <3> QED
      BY <3>1, <3>2
  <2>7. DOMAIN f = Ranks /\ DOMAIN g = Ranks /\ g = [t \in Ranks |-> g[t]]
    BY <2>4
  <2>8. g = [f EXCEPT ![r][i] = n + 1]
    BY <2>5, <2>6, <2>7
  <2> QED
    BY <2>3, <2>8
<1>20. ASSUME NEW j \in 1 .. Len(iq), iq[j].op \in DataOps, iq[j].qp = q
       PROVE  IF j < i THEN Done[r][j] = n + 1 ELSE Done[r][j] = n
  BY <1>14, <1>16, <1>20
<1>21. /\ AuthorView!Ops = {j \in 1 .. Len(iq) : iq[j].op \in DataOps}
       /\ AuthorView!Waits = {j \in 1 .. Len(iq) : iq[j].op \in WaitOps}
  BY <1>16 DEF AuthorView!Ops, AuthorView!DataOps, DataOps, AuthorView!Waits, WaitOps
<1>22. AuthorView!Do(r, i)
  BY <1>1, <1>9, <1>11, <1>12, <1>16, <1>17, <1>19, <1>20, <1>21 DEF AuthorView!Do
<1> QED
  BY <1>9, <1>21, <1>22

(* Nothing is run before the graph is ready; then the author sees it built. *)
LEMMA NoRoundYet ==
  ASSUME NEW s, NEW W, s \in Seq(W), NEW b,
         b = [k \in 1 .. Cardinality({j \in 1 .. Len(s) : s[j].op # "nop"}) |-> s[k]]
  PROVE  (IF b = <<>> THEN 0 ELSE 0 \div Len(b)) = 0
<1>1. PICK n \in Nat : b = [k \in 1 .. n |-> s[k]] /\ Len(b) = n
  BY BlockLength
<1>2. CASE Len(b) = 0
  <2>1. b = [k \in 1 .. 0 |-> s[k]]
    BY <1>1, <1>2
  <2>2. b = <<>>
    BY <2>1
  <2> QED
    BY <2>2
<1>3. CASE Len(b) # 0
  <2>1. PICK c \in Nat \ {0} : c = Len(b)
    BY <1>1, <1>3
  <2>2. 0 \in 0 .. c - 1 /\ 0 * c + 0 = 0
    OBVIOUS
  <2>3. (0 * c + 0) \div c = 0
    BY <2>2, TurnIs
  <2>4. 0 \div Len(b) = 0
    BY <2>1, <2>2, <2>3
  <2> QED
    BY <1>3, <2>4
<1> QED
  BY <1>2, <1>3

LEMMA QuietView ==
  ASSUME RunInv, Author \/ Compile
  PROVE  AuthorView!Build \/ UNCHANGED <<Built, rounds, Done, RoundsEnded>>
<1>1. /\ [Next]_vars /\ stage # "ready"
      /\ UNCHANGED <<live, rounds, step, released, receives, sent, signalled>>
      /\ stage' = "ready" => FinishDb
      /\ IInv /\ OrderInv
  BY Quiet DEF device, RunInv
<1>2. /\ step = [r \in Ranks |-> 0] /\ step' = step
      /\ sent = [r \in Ranks |-> [q \in Data |-> 0]] /\ sent' = sent
  BY <1>1 DEF RunInv, EarlyInv
<1>3. Built = <<>> /\ Done = [r \in Ranks |-> <<>>]
  BY <1>1 DEF Built, Done
<1>4. UNCHANGED RoundsEnded
  <2>1. prog[Mqp] \in Seq(Wqe \union CdWqe)
    BY <1>1 DEF IInv, TypeOK
  <2>2. prog'[Mqp] \in Seq(Wqe \union CdWqe)
    <3>1. IInv'
      BY <1>1, NextStep
    <3>2. TypeOK'
      BY <3>1 DEF IInv
    <3> QED
      BY <3>2 DEF TypeOK
  <2>3. RoundOf(Mqp, 0) = 0
    BY <2>1, NoRoundYet DEF RoundOf, Block
  <2>4. RoundOf(Mqp, 0)' = 0
    BY <2>2, NoRoundYet DEF RoundOf, Block
  <2>5. \A r \in Ranks : Ended(r) = 0 /\ Ended(r)' = 0
    BY <1>2, <2>3, <2>4 DEF Ended, RoundOf, Block
  <2> QED
    BY <2>5 DEF RoundsEnded
<1>5. CASE stage' # "ready"
  BY <1>1, <1>3, <1>4, <1>5 DEF Built, Done
<1>6. CASE stage' = "ready"
  <2>1. stage = "fin" /\ UNCHANGED <<iq, prog>>
    BY <1>1, <1>6 DEF FinishDb
  <2>2. Built' = iq
    BY <1>6, <2>1 DEF Built
  <2>3. iq # <<>>
    <3> SUFFICES ASSUME iq = <<>>
                 PROVE  FALSE
      OBVIOUS
    <3>1. Mqp \in QPs /\ Mqp \in Registered /\ ctx[Mqp] # NoCtx
      BY <1>1, <2>1 DEF QPs, IInv, MemberInv, StageInv
    <3>2. wqeCount[Mqp] > 0 /\ wqeCount[Mqp] = WqesOf(iq, Mqp, Len(iq))
      BY <1>1, <3>1 DEF IInv, CtxInv, CtxOf, Fits, CountsInv
    <3>3. Len(iq) = 0
      OBVIOUS
    <3> QED
      BY <3>2, <3>3, SumsZero
  <2>4. ASSUME NEW r \in Ranks, NEW i \in 1 .. Len(iq), iq[i].op \in DataOps
        PROVE  Times(r, i)' = 0
    <3>1. PICK q \in Data : q = iq[i].qp
      BY <1>1, <2>1, <2>4, PlaceOf
    <3>2. PICK b \in Nat \ {0}, k \in Nat : b = Len(Block(q)) /\ k = Nr(q, i) /\ k \in 1 .. b
      BY <1>1, <2>1, <2>4, <3>1, PlaceOf
    <3>3. Times(r, i)' = (sent'[r][q] + b - k) \div b
      BY <1>1, <2>1, <2>4, <3>1, <3>2, TimesNext
    <3>4. sent'[r][q] = 0
      BY <1>2
    <3>5. (0 * b + 0 + b - k) \div b = 0
      <4>1. 0 \in 0 .. b /\ k \in 1 .. b /\ ~ (k <= 0)
        BY <3>2
      <4>2. (0 * b + 0 + b - k) \div b = IF k <= 0 THEN 0 + 1 ELSE 0
        BY <4>1, RoundsDone
      <4> QED
        BY <4>1, <4>2
    <3>6. 0 * b + 0 + b - k = 0 + b - k
      BY <3>2
    <3> QED
      BY <3>3, <3>4, <3>5, <3>6
  <2>5. Done' = [r \in Ranks |-> [i \in 1 .. Len(iq) |-> 0]]
    <3>1. Done' = [r \in Ranks |-> [i \in 1 .. Len(iq) |->
                     IF iq[i].op \in DataOps THEN Times(r, i)' ELSE 0]]
      BY <1>6, <2>1 DEF Done
    <3> QED
      BY <2>4, <3>1
  <2> QED
    BY <1>1, <1>3, <1>4, <2>2, <2>3, <2>5 DEF AuthorView!Build
<1> QED
  BY <1>5, <1>6

LEMMA LiveView ==
  ASSUME NEW r \in Ranks, GoLive(r) \/ Db(r)
  PROVE  AuthorView!Call(r) \/ UNCHANGED <<Built, rounds, Done, RoundsEnded>>
<1>1. UNCHANGED vars /\ UNCHANGED <<step, sent>>
  BY DEF GoLive, Db
<1>2. UNCHANGED <<Built, Done, RoundsEnded>>
  BY <1>1, ViewKept DEF vars, RoundsEnded, Ended, RoundOf, Block
<1>3. rounds' = rounds \/ rounds' = [rounds EXCEPT ![r] = @ + 1]
  BY DEF GoLive, Db
<1> QED
  BY <1>2, <1>3 DEF AuthorView!Call

LEMMA StillView ==
  ASSUME UNCHANGED vars, UNCHANGED <<rounds, step, sent>>
  PROVE  UNCHANGED <<Built, rounds, Done, RoundsEnded>>
BY ViewKept DEF vars, RoundsEnded, Ended, RoundOf, Block

LEMMA StepView ==
  ASSUME ~ LateQps, RunInv, [RunNext]_runVars
  PROVE  [AuthorView!Next]_<<Built, rounds, Done, RoundsEnded>>
<1>1. CASE Author \/ Compile
  BY <1>1, QuietView DEF AuthorView!Next
<1>2. ASSUME NEW r \in Ranks, GoLive(r) \/ Db(r) \/ Device(r)
      PROVE  [AuthorView!Next]_<<Built, rounds, Done, RoundsEnded>>
  <2>1. CASE GoLive(r) \/ Db(r)
    BY <2>1, LiveView DEF AuthorView!Next
  <2>2. CASE Device(r)
    <3>1. stage = "ready"
      BY <2>2 DEF Device
    <3>2. CASE HwRecvEnable(r) \/ HwSendEnable(r) \/ HwWait(r)
      BY <3>1, <3>2, CdView DEF AuthorView!Next
    <3>3. ASSUME NEW q \in Data, q \in Registered, HwSend(r, q)
          PROVE  \E i \in AuthorView!Ops : AuthorView!Do(r, i)
      BY <3>1, <3>3, SendView
    <3>4. ASSUME NEW q \in Data, HwAck(r, q)
          PROVE  UNCHANGED <<Built, rounds, Done, RoundsEnded>>
      BY <3>4, StillView DEF HwAck
    <3> QED
      BY <2>2, <3>2, <3>3, <3>4 DEF Device, AuthorView!Next
  <2> QED
    BY <1>2, <2>1, <2>2
<1>3. CASE Rest \/ UNCHANGED runVars
  BY <1>3, StillView DEF Rest, runVars, device
<1> QED
  BY <1>1, <1>2, <1>3 DEF RunNext

LEMMA StartView == RunInit => AuthorView!Init
<1> SUFFICES ASSUME RunInit
             PROVE  AuthorView!Init
  OBVIOUS
<1>1. stage = "build" /\ prog[Mqp] = <<>> /\ rounds = [r \in Ranks |-> 0]
      /\ step = [r \in Ranks |-> 0]
  BY DEF RunInit, Init, QPs
<1>2. Built = <<>> /\ Done = [r \in Ranks |-> <<>>]
  BY <1>1 DEF Built, Done
<1>3. RoundOf(Mqp, 0) = 0
  <2>1. prog[Mqp] \in Seq({})
    BY <1>1
  <2> QED
    BY <2>1, NoRoundYet DEF RoundOf, Block
<1>4. RoundsEnded = [r \in Ranks |-> 0]
  <2>1. \A r \in Ranks : Ended(r) = 0
    BY <1>1, <1>3 DEF Ended
  <2> QED
    BY <2>1 DEF RoundsEnded
<1> QED
  BY <1>1, <1>2, <1>4 DEF AuthorView!Init

(* The devices do what the author wrote (AsWritten): whatever the list, on *)
(* every rank and in every round no operation is executed before the waits *)
(* in front of it have seen the operations that they stand behind, and no  *)
(* round ends before all its waits have.  The author has to construct his  *)
(* QPs first, and to wait for the sends of no DoublingQp.                  *)
THEOREM DoneAsWritten ==
  ASSUME ~ LateQps, ScriptsAim
  PROVE  RunSpec => AsWritten
<1>1. RunInit => AuthorView!Init
  BY StartView
<1>2. RunInv /\ [RunNext]_runVars =>
        [AuthorView!Next]_<<Built, rounds, Done, RoundsEnded>>
  BY StepView
<1>3. RunSpec => []RunInv
  BY RunInvariance
<1> QED
  BY <1>1, <1>2, <1>3, PTL DEF RunSpec, AsWritten, AuthorView!Spec, AuthorView!vars
=============================================================================
