-------------------------- MODULE CommGraphProofs --------------------------
(***************************************************************************)
(* For every program of operations, every set of QPs and every answer of   *)
(* the provider: what finish() compiles waits for just the completions     *)
(* caused before the wait, and enables just the WQEs written before the    *)
(* enable, in every round.                                                 *)
(***************************************************************************)
EXTENDS CommGraph, RingArith, FiniteSetTheorems, WellFoundedInduction

-----------------------------------------------------------------------------
(* Counting in a list of instructions s, of which iq is one.               *)

EnableOps == {"send_enable", "recv_enable"}
CdOps == WaitOps \union EnableOps
Reduces == {"reduce_write", "reduce_write_cmpl"}
AllIns == [op : DataOps \union CdOps, qp : Data]

LEMMA AllInsIs ==
  AllIns = [op : DataOps \union WaitOps \union {"send_enable", "recv_enable"}, qp : Data]
<1>1. DataOps \union CdOps = DataOps \union WaitOps \union {"send_enable", "recv_enable"}
  BY DEF CdOps, EnableOps
<1> QED
  BY <1>1 DEF AllIns

Chosen(s, ops, from, n) == {i \in 1 .. n : s[i].op \in ops /\ s[i].qp \in from}
CountIn(s, ops, from, n) == Cardinality(Chosen(s, ops, from, n))

Feeders(q) == {p \in Data : Pair[p] = q}

(* What the first n instructions take of the send queue of q, and what of  *)
(* its CQs.                                                                *)
WqesOf(s, q, n) ==
  IF q = Mqp THEN CountIn(s, CdOps, Data, n)
             ELSE CountIn(s, DataOps, {q}, n) + CountIn(s, Reduces, {q}, n)
CqesOf(s, q, n) ==
  CountIn(s, DataOps, Feeders(q), n) + (IF HasScq(q) THEN 0 ELSE CountIn(s, CmplOps, {q}, n))
ScqesOf(s, q, n) == CountIn(s, CmplOps, {q}, n)

LEMMA ChosenFinite ==
  ASSUME NEW s, NEW ops, NEW from, NEW n \in Nat
  PROVE  IsFiniteSet(Chosen(s, ops, from, n)) /\ CountIn(s, ops, from, n) \in 0 .. n
<1>1. IsFiniteSet(1 .. n) /\ Cardinality(1 .. n) = n
  BY FS_Interval
<1>2. Chosen(s, ops, from, n) \in SUBSET (1 .. n)
  BY DEF Chosen
<1>3. /\ IsFiniteSet(Chosen(s, ops, from, n))
      /\ Cardinality(Chosen(s, ops, from, n)) <= n
  BY <1>1, <1>2, FS_Subset
<1> QED
  BY <1>3, FS_CardinalityType DEF CountIn

LEMMA CountZero ==
  ASSUME NEW s, NEW ops, NEW from
  PROVE  CountIn(s, ops, from, 0) = 0
<1>1. Chosen(s, ops, from, 0) = {}
  BY DEF Chosen
<1> QED
  BY <1>1, FS_EmptySet DEF CountIn

LEMMA CountStep ==
  ASSUME NEW s, NEW ops, NEW from, NEW n \in Nat
  PROVE  CountIn(s, ops, from, n + 1) =
           CountIn(s, ops, from, n)
             + (IF s[n + 1].op \in ops /\ s[n + 1].qp \in from THEN 1 ELSE 0)
<1> DEFINE S == Chosen(s, ops, from, n)
           yes == s[n + 1].op \in ops /\ s[n + 1].qp \in from
<1>1. IsFiniteSet(S) /\ Cardinality(S) \in Nat
  BY ChosenFinite, FS_CardinalityType
<1>2. 1 .. n + 1 = (1 .. n) \union {n + 1} /\ n + 1 \notin S
  BY DEF Chosen
<1>3. CASE yes
  <2>1. Chosen(s, ops, from, n + 1) = S \union {n + 1}
    BY <1>2, <1>3 DEF Chosen
  <2> QED
    BY <1>1, <1>2, <1>3, <2>1, FS_AddElement DEF CountIn
<1>4. CASE ~ yes
  <2>1. Chosen(s, ops, from, n + 1) = S
    BY <1>2, <1>4 DEF Chosen
  <2> QED
    BY <1>1, <1>4, <2>1 DEF CountIn
<1> QED
  BY <1>3, <1>4

(* More instructions count no less.                                        *)
LEMMA CountGrows ==
  ASSUME NEW s, NEW ops, NEW from, NEW m \in Nat, NEW n \in Nat, m <= n
  PROVE  CountIn(s, ops, from, m) <= CountIn(s, ops, from, n)
<1>1. Chosen(s, ops, from, m) \in SUBSET Chosen(s, ops, from, n)
  BY DEF Chosen
<1> QED
  BY <1>1, ChosenFinite, FS_Subset DEF CountIn

(* What is appended later does not count.                                  *)
LEMMA CountKept ==
  ASSUME NEW s, NEW r, NEW ops, NEW from, NEW n \in Nat,
         \A i \in 1 .. n : r[i] = s[i]
  PROVE  CountIn(r, ops, from, n) = CountIn(s, ops, from, n)
<1>1. Chosen(r, ops, from, n) = Chosen(s, ops, from, n)
  BY DEF Chosen
<1> QED
  BY <1>1 DEF CountIn

(* The same for the three sums.                                            *)
LEMMA SumsType ==
  ASSUME NEW s, NEW q, NEW n \in Nat
  PROVE  /\ WqesOf(s, q, n) \in 0 .. 2 * n
         /\ CqesOf(s, q, n) \in Nat
         /\ ScqesOf(s, q, n) \in Nat
BY ChosenFinite DEF WqesOf, CqesOf, ScqesOf

LEMMA SumsZero ==
  ASSUME NEW s, NEW q
  PROVE  WqesOf(s, q, 0) = 0 /\ CqesOf(s, q, 0) = 0 /\ ScqesOf(s, q, 0) = 0
BY CountZero DEF WqesOf, CqesOf, ScqesOf

LEMMA SumsGrow ==
  ASSUME NEW s, NEW q, NEW m \in Nat, NEW n \in Nat, m <= n
  PROVE  WqesOf(s, q, m) <= WqesOf(s, q, n)
BY CountGrows, ChosenFinite DEF WqesOf

LEMMA SumsKept ==
  ASSUME NEW s, NEW r, NEW q, NEW n \in Nat, \A i \in 1 .. n : r[i] = s[i]
  PROVE  /\ WqesOf(r, q, n) = WqesOf(s, q, n)
         /\ CqesOf(r, q, n) = CqesOf(s, q, n)
         /\ ScqesOf(r, q, n) = ScqesOf(s, q, n)
BY CountKept DEF WqesOf, CqesOf, ScqesOf

(* One more instruction, of an operation on p.                             *)
PostAdds(s, q, n, op, p) ==
  /\ WqesOf(s, q, n + 1) = WqesOf(s, q, n) + (IF q = p THEN Size(op) ELSE 0)
  /\ CqesOf(s, q, n + 1) =
       CqesOf(s, q, n) + (IF q = Pair[p] THEN 1 ELSE 0)
         + (IF q = p /\ op \in CmplOps /\ ~ HasScq(q) THEN 1 ELSE 0)
  /\ ScqesOf(s, q, n + 1) = ScqesOf(s, q, n) + (IF q = p /\ op \in CmplOps THEN 1 ELSE 0)

LEMMA SumsOfPost ==
  ASSUME NEW s, NEW q \in QPs, NEW n \in Nat, s[n + 1].op \in DataOps, s[n + 1].qp \in Data
  PROVE  PostAdds(s, q, n, s[n + 1].op, s[n + 1].qp)
<1>0. PICK p \in Data, op \in DataOps : s[n + 1].op = op /\ s[n + 1].qp = p
  OBVIOUS
<1>1. /\ CountIn(s, CdOps, Data, n + 1) = CountIn(s, CdOps, Data, n)
      /\ CountIn(s, DataOps, {q}, n + 1) =
           CountIn(s, DataOps, {q}, n) + (IF q = p THEN 1 ELSE 0)
      /\ CountIn(s, Reduces, {q}, n + 1) =
           CountIn(s, Reduces, {q}, n) + (IF q = p /\ op \in Reduces THEN 1 ELSE 0)
      /\ CountIn(s, DataOps, Feeders(q), n + 1) =
           CountIn(s, DataOps, Feeders(q), n) + (IF q = Pair[p] THEN 1 ELSE 0)
      /\ CountIn(s, CmplOps, {q}, n + 1) =
           CountIn(s, CmplOps, {q}, n) + (IF q = p /\ op \in CmplOps THEN 1 ELSE 0)
  BY <1>0, CountStep, ChosenFinite DEF CdOps, WaitOps, EnableOps, DataOps, Feeders
<1>2. Mqp # p /\ Size(op) = IF op \in Reduces THEN 2 ELSE 1
  BY GraphShape DEF Size, Reduces
<1>3. PostAdds(s, q, n, op, p)
  BY <1>1, <1>2, ChosenFinite DEF PostAdds, WqesOf, CqesOf, ScqesOf
<1> QED
  BY <1>0, <1>3

(* One more instruction of the management queue.                           *)
LEMMA SumsOfCd ==
  ASSUME NEW s, NEW q \in QPs, NEW n \in Nat, s[n + 1].op \in CdOps, s[n + 1].qp \in Data
  PROVE  /\ WqesOf(s, q, n + 1) = WqesOf(s, q, n) + (IF q = Mqp THEN 1 ELSE 0)
         /\ CqesOf(s, q, n + 1) = CqesOf(s, q, n)
         /\ ScqesOf(s, q, n + 1) = ScqesOf(s, q, n)
<1>1. s[n + 1].op \notin DataOps /\ s[n + 1].op \notin Reduces /\ s[n + 1].op \notin CmplOps
  BY DEF CdOps, WaitOps, EnableOps, DataOps, Reduces, CmplOps
<1> QED
  BY <1>1, CountStep, ChosenFinite DEF WqesOf, CqesOf, ScqesOf
-----------------------------------------------------------------------------
(* The inductive invariant.                                                *)

(* What the calls have counted is what the list says.                      *)
CountsInv ==
  /\ \A q \in QPs : wqeCount[q] = WqesOf(iq, q, Len(iq))
  /\ \A q \in Data : cqeCount[q] = CqesOf(iq, q, Len(iq))
  /\ \A q \in Data : Kind[q] = "ring" => scqeCount[q] = ScqesOf(iq, q, Len(iq))

(* Who registers does so with his pair, and before any operation.          *)
MemberInv ==
  /\ Len(iq) <= MaxIns
  /\ Mqp \in Registered
  /\ \A q \in Registered \ {Mqp} : Pair[q] \in Registered
  /\ \A i \in 1 .. Len(iq) : iq[i].qp \in Registered

StageInv ==
  /\ stage \in {"build", "init", "trapped"} => drained = 0 /\ \A q \in QPs : prog[q] = <<>>
  /\ stage = "build" => cursor = 0 /\ \A q \in QPs : ctx[q] = NoCtx
  /\ stage = "init" => \A i \in 1 .. cursor : ctx[qps[i]] # NoCtx
  /\ stage \in {"drain", "fin", "ready"} => \A q \in Registered : ctx[q] # NoCtx
  /\ stage \in {"fin", "ready"} => drained = Len(iq)

(* A qp_ctx keeps the counts it was made with; its own follow the drain.   *)
CtxOf(q) ==
  /\ Fits(q)
  /\ ctx[q].slots = Granted(wqeCount[q])
  /\ ctx[q].wqes = Rounded(wqeCount[q])
  /\ ctx[q].cqes = cqeCount[q]
  /\ ctx[q].scqes = scqeCount[q]
  /\ ctx[q].dups = Granted(wqeCount[q]) \div Rounded(wqeCount[q])
  /\ ctx[q].written <= ctx[q].wqes
  /\ stage \in {"init", "drain"} => ctx[q].written = WqesOf(iq, q, drained)
  /\ q \in Data =>
       /\ ctx[q].cmpl = CqesOf(iq, q, drained)
       /\ HasScq(q) => ctx[q].scmpl = ScqesOf(iq, q, drained)
       /\ ctx[Pair[q]] # NoCtx => ctx[q].pair = Pair[q]

CtxInv == \A q \in QPs : ctx[q] # NoCtx => CtxOf(q)

(* An instruction of the management queue carries what the list says.      *)
CdOf(w) ==
  /\ w.op \in CdOps
  /\ w.slave \in Data
  /\ w.ins \in 1 .. drained
  /\ iq[w.ins] = Ins(w.op, w.slave)
  /\ w.op = "send_enable" =>
       w.index = WqesOf(iq, w.slave, w.ins) /\ w.inc = ctx[w.slave].wqes
  /\ w.op \in WaitOps =>
       IF w.op = "wait_send" /\ HasScq(w.slave)
         THEN w.index = ScqesOf(iq, w.slave, w.ins) - 1 /\ w.inc = scqeCount[w.slave]
         ELSE w.index = CqesOf(iq, w.slave, w.ins) - 1 /\ w.inc = cqeCount[w.slave]

(* One of a data queue lies where the list says.                           *)
DataOf(q, w) ==
  /\ w.op \in DataOps
  /\ w.ins \in 1 .. drained
  /\ iq[w.ins] = Ins(w.op, q)
  /\ w.at = WqesOf(iq, q, w.ins - 1)
  /\ w.size = Size(w.op)

ProgInv ==
  /\ \A k \in 1 .. Len(prog[Mqp]) : prog[Mqp][k].op # "nop" => CdOf(prog[Mqp][k])
  /\ \A q \in Data : \A k \in 1 .. Len(prog[q]) :
       prog[q][k].op # "nop" => DataOf(q, prog[q][k])

IInv == TypeOK /\ CountsInv /\ MemberInv /\ StageInv /\ CtxInv /\ ProgInv
-----------------------------------------------------------------------------
(* What the constants give.                                                *)

LEMMA PairOfPair ==
  /\ Mqp \notin Data
  /\ \A q \in Data : Pair[q] \in Data /\ Pair[Pair[q]] = q
BY GraphShape

LEMMA SizesAre == Word \in Nat \ {0} /\ PadSize \in Nat \ {0} /\ MaxIns \in Nat
BY GraphShape

(* Only QPs register. *)
LEMMA RegisteredAre ==
  ASSUME qps \in Seq(QPs)
  PROVE  \A x \in Registered : x \in QPs
<1> SUFFICES ASSUME NEW i \in 1 .. Len(qps)
             PROVE  qps[i] \in QPs
  BY DEF Registered
<1> QED
  OBVIOUS

(* The counts and the list stay as they are once finish() has begun. *)
LEMMA CountsKept ==
  ASSUME CountsInv, MemberInv, UNCHANGED <<qps, iq, wqeCount, cqeCount, scqeCount>>
  PROVE  CountsInv' /\ MemberInv'
<1>1. CountsInv'
  BY DEF CountsInv
<1>2. MemberInv'
  BY DEF MemberInv, Registered
<1> QED
  BY <1>1, <1>2

LEMMA LeastNat ==
  ASSUME NEW T, T \subseteq Nat, T # {}
  PROVE  \E x \in T : \A y \in T : x <= y
<1>1. PICK x \in T : \A y \in T : ~ (<<y, x>> \in OpToRel(<, Nat))
  BY WFMin, NatLessThanWellFounded
<1>2. \A y \in T : ~ (y < x)
  BY <1>1 DEF OpToRel
<1> QED
  BY <1>2

(* There is a least divisor to round to, the number of slots itself at the *)
(* latest.                                                                 *)
LEMMA RoundedIs ==
  ASSUME NEW n \in Nat \ {0}, Granted(n) \in Nat, n <= Granted(n)
  PROVE  /\ Rounded(n) \in n .. Granted(n) /\ Granted(n) % Rounded(n) = 0
         /\ \A u \in n .. Rounded(n) - 1 : Granted(n) % u # 0
<1> DEFINE G == Granted(n)
           T == {r \in n .. G : G % r = 0}
<1> HIDE DEF G
<1>0. G \in Nat \ {0} /\ n <= G
  BY DEF G
<1>1. G % G = 0
  <2>1. G = G * 1 + 0 /\ 0 \in 0 .. G - 1
    BY <1>0
  <2> QED
    BY <1>0, <2>1, Remainder
<1>2. T \subseteq Nat /\ T # {}
  <2>1. G \in T
    BY <1>0, <1>1
  <2> QED
    BY <2>1
<1>3. PICK r \in T : \A y \in T : r <= y
  BY <1>2, LeastNat
<1>4. \E t \in n .. G : G % t = 0 /\ \A u \in n .. t - 1 : G % u # 0
  <2>1. \A u \in n .. r - 1 : G % u # 0
    <3> SUFFICES ASSUME NEW u \in n .. r - 1, G % u = 0
                 PROVE  FALSE
      OBVIOUS
    <3>1. r \in n .. G
      OBVIOUS
    <3>2. u \in T
      BY <1>0, <3>1
    <3> QED
      BY <1>3, <3>1, <3>2
  <2> QED
    BY <2>1
<1>5. Rounded(n) = CHOOSE t \in n .. G : G % t = 0 /\ \A u \in n .. t - 1 : G % u # 0
  BY DEF Rounded, G
<1> QED
  BY <1>4, <1>5 DEF G

LEMMA GrantedIs ==
  ASSUME NEW n \in 0 .. 2 * MaxIns
  PROVE  Granted(n) \in Nat
<1>1. n % Word \in Nat /\ n % Word <= n
  <2>0. /\ n \in Int
        /\ n \div Word \in Int
        /\ n = Word * (n \div Word) + (n % Word)
        /\ n % Word \in 0 .. Word - 1
    BY SizesAre, Division
  <2>1. PICK k \in Int : n = Word * k + (n % Word) /\ n % Word \in 0 .. Word - 1
    BY <2>0
  <2>2. k >= 0
    <3> SUFFICES ASSUME k <= -1
                 PROVE  FALSE
      BY <2>1
    <3>1. Word * (-k) >= Word
      BY SizesAre, MultipleIsFar
    <3>2. Word * (-k) = - (Word * k)
      BY SizesAre
    <3> QED
      BY <2>1, <3>1, <3>2, SizesAre
  <2>3. Word * k >= 0
    BY <2>2, SizesAre
  <2> QED
    BY <2>1, <2>3, SizesAre
<1>2. n % Word \in DOMAIN SqSlots
  BY <1>1, GraphShape
<1> QED
  BY <1>2, GraphShape DEF Granted

LEMMA CountBound ==
  ASSUME TypeOK, CountsInv, MemberInv, NEW q \in QPs
  PROVE  wqeCount[q] \in 0 .. 2 * MaxIns
<1>1. Len(iq) \in Nat /\ Len(iq) <= MaxIns
  BY DEF TypeOK, MemberInv
<1>2. WqesOf(iq, q, Len(iq)) \in 0 .. 2 * Len(iq)
  BY <1>1, SumsType
<1> QED
  BY <1>1, <1>2, GraphShape DEF CountsInv
-----------------------------------------------------------------------------
(* The author's calls.                                                     *)

LEMMA Start == Init => IInv
<1> SUFFICES ASSUME Init
             PROVE  IInv
  OBVIOUS
<1> USE DEF Init
<1>1. TypeOK
  BY PairOfPair DEF TypeOK, QPs
<1>2. CountsInv
  BY SumsZero DEF CountsInv, QPs
<1>3. MemberInv
  BY GraphShape DEF MemberInv, Registered
<1> QED
  BY <1>1, <1>2, <1>3 DEF IInv, StageInv, CtxInv, ProgInv, QPs

(* While the graph is built there is nothing but counts and the list.      *)
LEMMA StillBuilding ==
  ASSUME IInv, stage = "build", UNCHANGED <<stage, drained, cursor, ctx, prog>>
  PROVE  StageInv' /\ CtxInv' /\ ProgInv'
<1>1. (\A q \in QPs : ctx[q] = NoCtx /\ prog[q] = <<>>) /\ Mqp \in QPs /\ Data \subseteq QPs
  BY DEF IInv, StageInv, QPs
<1>2. StageInv'
  BY DEF IInv, StageInv
<1>3. CtxInv'
  BY <1>1 DEF CtxInv
<1>4. ProgInv'
  BY <1>1 DEF ProgInv
<1> QED
  BY <1>2, <1>3, <1>4

LEMMA OperationStep ==
  ASSUME IInv, NEW q \in Data, NEW op \in DataOps, NEW ownCq, NEW ownScq,
         Operation(q, op, ownCq, ownScq),
         ownCq = IF op \in CmplOps /\ ~ HasScq(q) THEN 1 ELSE 0,
         ownScq \in {0, 1},
         Kind[q] = "ring" => ownScq = IF op \in CmplOps THEN 1 ELSE 0
  PROVE  IInv'
<1> DEFINE r == iq'
<1>len. PICK L \in Nat : L = Len(iq)
  BY DEF IInv, TypeOK
<1>size. PICK z \in Nat : z = Size(op)
  BY DEF Size
<1>own. PICK own \in Nat : own = ownCq
  OBVIOUS
<1>ownS. PICK ownS \in Nat : ownS = ownScq
  OBVIOUS
<1>0. /\ Pair[q] \in Data /\ Mqp \notin Data /\ Data \subseteq QPs /\ Mqp \in QPs
      /\ z \in {1, 2}
  BY <1>size, PairOfPair DEF QPs, Size
<1>1. /\ iq' \in Seq(AllIns) /\ Len(iq') = L + 2
      /\ \A i \in 1 .. L : r[i] = iq[i]
      /\ r[L + 1] = Ins(op, q) /\ r[L + 2] = Ins("send_enable", q)
  <2>1. iq \in Seq(AllIns)
    BY DEF IInv, TypeOK, AllIns, CdOps, EnableOps
  <2>2. <<Ins(op, q), Ins("send_enable", q)>> \in Seq(AllIns)
    BY DEF AllIns, CdOps, EnableOps, Ins
  <2> QED
    BY <1>len, <2>1, <2>2 DEF Operation
<1>2. /\ wqeCount' \in [QPs -> Nat]
      /\ cqeCount' \in [QPs -> Nat]
      /\ scqeCount' \in [QPs -> Nat]
      /\ \A x \in QPs :
        /\ wqeCount'[x] = wqeCount[x] + (IF x = q THEN z ELSE 0) + (IF x = Mqp THEN 1 ELSE 0)
        /\ cqeCount'[x] = cqeCount[x] + (IF x = Pair[q] THEN 1 ELSE 0) + (IF x = q THEN own ELSE 0)
        /\ scqeCount'[x] = scqeCount[x] + (IF x = q THEN ownS ELSE 0)
  <2> DEFINE w == Plus(wqeCount, q, z)
             c == Plus(cqeCount, Pair[q], 1)
  <2>1. /\ wqeCount \in [QPs -> Nat]
        /\ cqeCount \in [QPs -> Nat]
        /\ scqeCount \in [QPs -> Nat]
        /\ q \in QPs /\ Pair[q] \in QPs
    BY <1>0 DEF IInv, TypeOK
  <2>2. /\ w \in [QPs -> Nat]
        /\ \A x \in QPs : w[x] = wqeCount[x] + (IF x = q THEN z ELSE 0)
        /\ c \in [QPs -> Nat]
        /\ \A x \in QPs : c[x] = cqeCount[x] + (IF x = Pair[q] THEN 1 ELSE 0)
    BY <2>1 DEF Plus
  <2>3. /\ wqeCount' = Plus(w, Mqp, 1)
        /\ cqeCount' = Plus(c, q, own)
        /\ scqeCount' = Plus(scqeCount, q, ownS)
    BY <1>size, <1>own, <1>ownS DEF Operation
  <2> HIDE DEF w, c
  <2>4. /\ wqeCount' \in [QPs -> Nat]
        /\ \A x \in QPs : wqeCount'[x] = w[x] + (IF x = Mqp THEN 1 ELSE 0)
        /\ cqeCount' \in [QPs -> Nat]
        /\ \A x \in QPs : cqeCount'[x] = c[x] + (IF x = q THEN own ELSE 0)
        /\ scqeCount' \in [QPs -> Nat]
        /\ \A x \in QPs : scqeCount'[x] = scqeCount[x] + (IF x = q THEN ownS ELSE 0)
    BY <1>0, <2>1, <2>2, <2>3 DEF Plus
  <2> QED
    BY <2>2, <2>4
<1>3. TypeOK'
  <2>2. drained = 0
    BY DEF Operation, IInv, StageInv
  <2> QED
    <3>1. /\ iq' \in Seq([op : DataOps \union WaitOps \union {"send_enable", "recv_enable"},
                           qp : Data])
          /\ drained' \in 0 .. Len(iq')
      BY <1>1, <2>2, AllInsIs DEF Operation
    <3> QED
      BY <1>2, <3>1 DEF Operation, IInv, TypeOK
<1>4. \A x \in QPs :
        /\ WqesOf(r, x, L + 2) = WqesOf(iq, x, L)
             + (IF x = q THEN z ELSE 0) + (IF x = Mqp THEN 1 ELSE 0)
        /\ CqesOf(r, x, L + 2) = CqesOf(iq, x, L)
             + (IF x = Pair[q] THEN 1 ELSE 0)
             + (IF x = q /\ op \in CmplOps /\ ~ HasScq(x) THEN 1 ELSE 0)
        /\ ScqesOf(r, x, L + 2) = ScqesOf(iq, x, L) + (IF x = q /\ op \in CmplOps THEN 1 ELSE 0)
  <2> SUFFICES ASSUME NEW x \in QPs
               PROVE  /\ WqesOf(r, x, L + 2) = WqesOf(iq, x, L)
                           + (IF x = q THEN z ELSE 0) + (IF x = Mqp THEN 1 ELSE 0)
                      /\ CqesOf(r, x, L + 2) = CqesOf(iq, x, L)
                           + (IF x = Pair[q] THEN 1 ELSE 0)
                           + (IF x = q /\ op \in CmplOps /\ ~ HasScq(x) THEN 1 ELSE 0)
                      /\ ScqesOf(r, x, L + 2) =
                           ScqesOf(iq, x, L) + (IF x = q /\ op \in CmplOps THEN 1 ELSE 0)
    OBVIOUS
  <2> HIDE DEF r
  <2>1. /\ WqesOf(r, x, L) = WqesOf(iq, x, L)
        /\ CqesOf(r, x, L) = CqesOf(iq, x, L)
        /\ ScqesOf(r, x, L) = ScqesOf(iq, x, L)
    BY <1>0, <1>1, SumsKept
  <2>2. r[L + 1].op = op /\ r[L + 1].qp = q
    BY <1>1 DEF Ins
  <2>3. /\ WqesOf(r, x, L + 1) = WqesOf(r, x, L) + (IF x = q THEN z ELSE 0)
        /\ CqesOf(r, x, L + 1) =
             CqesOf(r, x, L) + (IF x = Pair[q] THEN 1 ELSE 0)
               + (IF x = q /\ op \in CmplOps /\ ~ HasScq(x) THEN 1 ELSE 0)
        /\ ScqesOf(r, x, L + 1) = ScqesOf(r, x, L) + (IF x = q /\ op \in CmplOps THEN 1 ELSE 0)
    <3>1. r[L + 1].op \in DataOps /\ r[L + 1].qp \in Data
      BY <2>2
    <3>2. PostAdds(r, x, L, r[L + 1].op, r[L + 1].qp)
      BY <3>1, SumsOfPost
    <3>3. PostAdds(r, x, L, op, q)
      BY <2>2, <3>2
    <3> QED
      BY <1>size, <3>3 DEF PostAdds
  <2>4. L + 1 \in Nat /\ (L + 1) + 1 = L + 2
    BY <1>0
  <2>5. r[(L + 1) + 1].op \in CdOps /\ r[(L + 1) + 1].qp \in Data
    BY <1>1, <2>4 DEF Ins, CdOps, EnableOps
  <2>6. /\ WqesOf(r, x, (L + 1) + 1) = WqesOf(r, x, L + 1) + (IF x = Mqp THEN 1 ELSE 0)
        /\ CqesOf(r, x, (L + 1) + 1) = CqesOf(r, x, L + 1)
        /\ ScqesOf(r, x, (L + 1) + 1) = ScqesOf(r, x, L + 1)
    BY <2>4, <2>5, SumsOfCd
  <2> QED
    BY <2>1, <2>3, <2>4, <2>6
<1>5. CountsInv'
  <2> SUFFICES ASSUME NEW x \in QPs
               PROVE  /\ wqeCount'[x] = WqesOf(r, x, L + 2)
                      /\ x \in Data => cqeCount'[x] = CqesOf(r, x, L + 2)
                      /\ x \in Data /\ Kind[x] = "ring" => scqeCount'[x] = ScqesOf(r, x, L + 2)
    BY <1>0, <1>1 DEF CountsInv
  <2>1. wqeCount'[x] = WqesOf(r, x, L + 2)
    BY <1>len, <1>2, <1>4 DEF IInv, CountsInv
  <2>2. ASSUME x \in Data
        PROVE  cqeCount'[x] = CqesOf(r, x, L + 2)
    <3>1. cqeCount[x] = CqesOf(iq, x, L)
      BY <1>len, <2>2 DEF IInv, CountsInv
    <3>2. CqesOf(iq, x, L) \in Nat
      BY SumsType
    <3>3. own = IF op \in CmplOps /\ ~ HasScq(q) THEN 1 ELSE 0
      BY <1>own
    <3> HIDE DEF r
    <3> QED
      BY <1>2, <1>4, <3>1, <3>2, <3>3
  <2>3. ASSUME x \in Data, Kind[x] = "ring"
        PROVE  scqeCount'[x] = ScqesOf(r, x, L + 2)
    BY <1>len, <1>ownS, <1>2, <1>4, <2>3 DEF IInv, CountsInv
  <2> QED
    BY <2>1, <2>2, <2>3
<1>6. MemberInv'
  <2>1. q \in Registered /\ UNCHANGED qps /\ L + 2 <= MaxIns
    BY <1>len DEF Operation, Room
  <2>2. \A i \in 1 .. L + 2 : i \in 1 .. L \/ i = L + 1 \/ i = L + 2
    BY <1>0
  <2>3. \A i \in 1 .. L + 2 : r[i].qp \in Registered
    BY <1>len, <1>1, <2>1, <2>2 DEF IInv, MemberInv, Ins
  <2>4. Registered' = Registered
    BY <2>1 DEF Registered
  <2>5. MemberInv
    BY DEF IInv
  <2>6. Len(r) = L + 2
    BY <1>1
  <2> QED
    BY <2>1, <2>3, <2>4, <2>5, <2>6 DEF MemberInv
<1> QED
  BY <1>3, <1>5, <1>6, StillBuilding DEF Operation, IInv

(* What the management QP counts.                                         *)
LEMMA MqpCounts ==
  ASSUME TypeOK, NEW m \in Nat, wqeCount' = Plus(wqeCount, Mqp, m)
  PROVE  /\ Mqp \in QPs /\ Data \subseteq QPs
         /\ wqeCount' \in [QPs -> Nat]
         /\ \A x \in QPs : wqeCount'[x] = wqeCount[x] + (IF x = Mqp THEN m ELSE 0)
<1>1. Mqp \in QPs /\ Data \subseteq QPs
  BY DEF QPs
<1>2. wqeCount \in [QPs -> Nat]
  BY DEF TypeOK
<1> QED
  BY <1>1, <1>2 DEF Plus

(* Instructions of the management queue alone, one or two.                 *)
LEMMA CdsCounted ==
  ASSUME TypeOK, CountsInv, NEW L \in Nat, L = Len(iq), NEW m \in {1, 2},
         Len(iq') = L + m,
         \A i \in 1 .. L : iq'[i] = iq[i],
         \A i \in L + 1 .. L + m : iq'[i].op \in CdOps /\ iq'[i].qp \in Data,
         wqeCount' = Plus(wqeCount, Mqp, m),
         UNCHANGED <<cqeCount, scqeCount>>
  PROVE  CountsInv' /\ wqeCount' \in [QPs -> Nat]
<1> DEFINE r == iq'
<1>1. /\ Mqp \in QPs /\ Data \subseteq QPs
      /\ wqeCount' \in [QPs -> Nat]
      /\ \A x \in QPs : wqeCount'[x] = wqeCount[x] + (IF x = Mqp THEN m ELSE 0)
  <2>1. m \in Nat
    OBVIOUS
  <2> QED
    BY <2>1, MqpCounts
<1>2. ASSUME NEW x \in QPs
      PROVE  /\ WqesOf(r, x, L + m) = WqesOf(iq, x, L) + (IF x = Mqp THEN m ELSE 0)
             /\ CqesOf(r, x, L + m) = CqesOf(iq, x, L)
             /\ ScqesOf(r, x, L + m) = ScqesOf(iq, x, L)
  <2> HIDE DEF r
  <2>1. /\ WqesOf(r, x, L) = WqesOf(iq, x, L)
        /\ CqesOf(r, x, L) = CqesOf(iq, x, L)
        /\ ScqesOf(r, x, L) = ScqesOf(iq, x, L)
    BY SumsKept DEF r
  <2>2. r[L + 1].op \in CdOps /\ r[L + 1].qp \in Data
    BY DEF r
  <2>3. /\ WqesOf(r, x, L + 1) = WqesOf(r, x, L) + (IF x = Mqp THEN 1 ELSE 0)
        /\ CqesOf(r, x, L + 1) = CqesOf(r, x, L)
        /\ ScqesOf(r, x, L + 1) = ScqesOf(r, x, L)
    BY <2>2, SumsOfCd
  <2>4. WqesOf(iq, x, L) \in Nat
    BY SumsType
  <2>5. CASE m = 1
    BY <2>1, <2>3, <2>4, <2>5
  <2>6. CASE m = 2
    <3>1. PICK n \in Nat : n = L + 1
      OBVIOUS
    <3>2. r[n + 1].op \in CdOps /\ r[n + 1].qp \in Data
      BY <2>6, <3>1 DEF r
    <3>3. /\ WqesOf(r, x, n + 1) = WqesOf(r, x, n) + (IF x = Mqp THEN 1 ELSE 0)
          /\ CqesOf(r, x, n + 1) = CqesOf(r, x, n)
          /\ ScqesOf(r, x, n + 1) = ScqesOf(r, x, n)
      BY <3>2, SumsOfCd
    <3>4. n + 1 = L + 2
      BY <3>1
    <3> QED
      BY <2>1, <2>3, <2>4, <2>6, <3>1, <3>3, <3>4
  <2> QED
    BY <2>5, <2>6
<1> QED
  BY <1>1, <1>2 DEF CountsInv

LEMMA WaitStep ==
  ASSUME IInv, NEW q \in Data, NEW op \in WaitOps, Wait(q, op)
  PROVE  IInv'
<1>1. PICK L \in Nat : L = Len(iq)
  BY DEF IInv, TypeOK
<1>2. iq \in Seq(AllIns) /\ Ins(op, q) \in AllIns
  BY AllInsIs DEF IInv, TypeOK, Ins
<1>3. /\ iq' \in Seq(AllIns)
      /\ Len(iq') = L + 1
      /\ \A i \in 1 .. L : iq'[i] = iq[i]
      /\ iq'[L + 1] = Ins(op, q)
  BY <1>1, <1>2 DEF Wait
<1>4. CountsInv' /\ wqeCount' \in [QPs -> Nat]
  <2>1. \A i \in L + 1 .. L + 1 : iq'[i].op \in CdOps /\ iq'[i].qp \in Data
    BY <1>3 DEF Ins, CdOps
  <2> QED
    BY <1>1, <1>3, <2>1, CdsCounted DEF Wait, IInv
<1>5. TypeOK'
  <2>1. drained = 0
    BY DEF Wait, IInv, StageInv
  <2> QED
    <3>1. /\ iq' \in Seq([op : DataOps \union WaitOps \union {"send_enable", "recv_enable"},
                           qp : Data])
          /\ drained' \in 0 .. Len(iq')
      BY <1>3, <2>1, AllInsIs DEF Wait
    <3> QED
      BY <1>4, <3>1 DEF Wait, IInv, TypeOK
<1>6. MemberInv'
  <2>1. \A i \in 1 .. L + 1 : i \in 1 .. L \/ i = L + 1
    BY <1>1
  <2>2. \A i \in 1 .. L + 1 : iq'[i].qp \in Registered
    BY <1>1, <1>3, <2>1 DEF IInv, MemberInv, Ins, Wait
  <2> QED
    <3>1. Registered' = Registered /\ L + 1 <= MaxIns
      BY <1>1 DEF Wait, Room, Registered
    <3> QED
      BY <1>3, <2>2, <3>1 DEF IInv, MemberInv
<1> QED
  BY <1>4, <1>5, <1>6, StillBuilding DEF Wait, IInv

(* A constructor adds one QP or the two of a pair, and their enables.      *)
Constructed(q, m) ==
  /\ iq' \in Seq(AllIns)
  /\ Len(iq') = Len(iq) + m
  /\ \A i \in 1 .. Len(iq) : iq'[i] = iq[i]
  /\ \A i \in Len(iq) + 1 .. Len(iq) + m :
       iq'[i].op = "recv_enable" /\ iq'[i].qp \in {q, Pair[q]}
  /\ iq'[Len(iq) + 1].qp = q /\ iq'[Len(iq) + m].qp = Pair[q]
  /\ qps' \in Seq(QPs) /\ Len(qps') = Len(qps) + m
  /\ Registered' = Registered \union {q, Pair[q]}
  /\ stage = "build" /\ Len(iq) + m <= MaxIns
  /\ LateQps \/ \A i \in 1 .. Len(iq) : iq[i].op = "recv_enable"
  /\ wqeCount' = Plus(wqeCount, Mqp, m)
  /\ recvEnables' = recvEnables + m
  /\ UNCHANGED <<stage, drained, cursor, cqeCount, scqeCount, ctx, prog, rung>>

LEMMA ConstructIs ==
  ASSUME TypeOK, NEW q \in Data,
         \/ Pair[q] = q /\ Construct(<<q>>)
         \/ Construct(<<q, Pair[q]>>)
  PROVE  \E m \in {1, 2} : Constructed(q, m)
<1>0. PICK m \in {1, 2}, news \in Seq(Data) :
        /\ Construct(news)
        /\ Len(news) = m
        /\ news[1] = q /\ news[m] = Pair[q]
        /\ \A i \in 1 .. m : news[i] \in {q, Pair[q]}
  <2>1. Pair[q] \in Data
    BY PairOfPair
  <2>2. CASE Pair[q] = q /\ Construct(<<q>>)
    <3>1. <<q>> \in Seq(Data) /\ Len(<<q>>) = 1 /\ <<q>>[1] = q
      OBVIOUS
    <3> QED
      BY <2>2, <3>1
  <2>3. CASE Construct(<<q, Pair[q]>>)
    <3>1. /\ <<q, Pair[q]>> \in Seq(Data)
          /\ Len(<<q, Pair[q]>>) = 2
          /\ <<q, Pair[q]>>[1] = q
          /\ <<q, Pair[q]>>[2] = Pair[q]
      BY <2>1
    <3>2. \A i \in 1 .. 2 : <<q, Pair[q]>>[i] \in {q, Pair[q]}
      BY <3>1
    <3> QED
      BY <2>3, <3>1, <3>2
  <2> QED
    BY <2>2, <2>3
<1> DEFINE enables == [i \in 1 .. Len(news) |-> Ins("recv_enable", news[i])]
<1>1. PICK L \in Nat : L = Len(iq)
  BY DEF TypeOK
<1>2. iq \in Seq(AllIns) /\ enables \in Seq(AllIns) /\ Len(enables) = m
  <2>1. iq \in Seq(AllIns)
    BY AllInsIs DEF TypeOK
  <2>2. \A i \in 1 .. m : Ins("recv_enable", news[i]) \in AllIns
    BY <1>0, PairOfPair DEF AllIns, Ins, CdOps, EnableOps
  <2> QED
    BY <1>0, <2>1, <2>2
<1>3. /\ iq' \in Seq(AllIns)
      /\ Len(iq') = L + m
      /\ \A i \in 1 .. L : iq'[i] = iq[i]
      /\ \A i \in L + 1 .. L + m : iq'[i] = Ins("recv_enable", news[i - L])
  <2>1. iq' = iq \o enables
    BY <1>0 DEF Construct
  <2>2. \A i \in 1 .. m : enables[i] = Ins("recv_enable", news[i])
    BY <1>0
  <2> HIDE DEF enables
  <2>3. \A i \in L + 1 .. L + m : iq'[i] = enables[i - L]
    BY <1>1, <1>2, <2>1
  <2> QED
    BY <1>1, <1>2, <2>1, <2>2, <2>3
<1>ops. \A i \in L + 1 .. L + m : iq'[i].op = "recv_enable" /\ iq'[i].qp \in {q, Pair[q]}
  <2> SUFFICES ASSUME NEW i \in L + 1 .. L + m
               PROVE  iq'[i].op = "recv_enable" /\ iq'[i].qp \in {q, Pair[q]}
    OBVIOUS
  <2>1. i - L \in 1 .. m
    OBVIOUS
  <2>2. iq'[i] = Ins("recv_enable", news[i - L]) /\ news[i - L] \in {q, Pair[q]}
    BY <1>0, <1>3, <2>1
  <2> QED
    BY <2>2 DEF Ins
<1>4. /\ qps' \in Seq(QPs) /\ Len(qps') = Len(qps) + m
      /\ Registered' = Registered \union {q, Pair[q]}
  <2>1. qps \in Seq(QPs) /\ news \in Seq(QPs) /\ qps' = qps \o news
    BY <1>0 DEF TypeOK, Construct, QPs
  <2>2. PICK P \in Nat : P = Len(qps)
    BY <2>1
  <2>3. /\ Len(qps') = P + m
        /\ \A i \in 1 .. P : qps'[i] = qps[i]
        /\ \A i \in P + 1 .. P + m : qps'[i] = news[i - P]
    BY <1>0, <2>1, <2>2
  <2>4. Registered' \subseteq Registered \union {q, Pair[q]}
    BY <1>0, <2>2, <2>3 DEF Registered
  <2>5. q \in Registered' /\ Pair[q] \in Registered' /\ Registered \subseteq Registered'
    <3>1. qps'[P + 1] = q /\ qps'[P + m] = Pair[q]
      BY <1>0, <2>3
    <3> QED
      BY <2>2, <2>3, <3>1 DEF Registered
  <2> QED
    BY <2>1, <2>2, <2>3, <2>4, <2>5
<1>5. iq'[L + 1].qp = q /\ iq'[L + m].qp = Pair[q]
  <2>1. /\ L + 1 \in L + 1 .. L + m /\ L + m \in L + 1 .. L + m
        /\ (L + 1) - L = 1 /\ (L + m) - L = m
    BY <1>0
  <2>2. iq'[L + 1] = Ins("recv_enable", news[1]) /\ iq'[L + m] = Ins("recv_enable", news[m])
    BY <1>3, <2>1
  <2> QED
    BY <1>0, <2>2 DEF Ins
<1>6. /\ stage = "build" /\ L + m <= MaxIns
      /\ LateQps \/ \A i \in 1 .. Len(iq) : iq[i].op = "recv_enable"
      /\ wqeCount' = Plus(wqeCount, Mqp, m)
      /\ recvEnables' = recvEnables + m
      /\ UNCHANGED <<stage, drained, cursor, cqeCount, scqeCount, ctx, prog, rung>>
  BY <1>0, <1>1 DEF Construct, Room
<1> HIDE DEF enables
<1> QED
  BY <1>1, <1>3, <1>ops, <1>4, <1>5, <1>6 DEF Constructed

LEMMA ConstructStep ==
  ASSUME IInv, NEW q \in Data,
         \/ Pair[q] = q /\ Construct(<<q>>)
         \/ Construct(<<q, Pair[q]>>)
  PROVE  IInv'
<1>0. PICK m \in {1, 2} : Constructed(q, m)
  BY ConstructIs DEF IInv
<1>1. PICK L \in Nat : L = Len(iq)
  BY DEF IInv, TypeOK
<1>3. /\ iq' \in Seq(AllIns)
      /\ Len(iq') = L + m
      /\ \A i \in 1 .. L : iq'[i] = iq[i]
      /\ \A i \in L + 1 .. L + m : iq'[i].op = "recv_enable" /\ iq'[i].qp \in {q, Pair[q]}
  BY <1>0, <1>1 DEF Constructed
<1>4. CountsInv' /\ wqeCount' \in [QPs -> Nat]
  <2>1. \A i \in L + 1 .. L + m : iq'[i].op \in CdOps /\ iq'[i].qp \in Data
    BY <1>3, PairOfPair DEF CdOps, EnableOps
  <2> QED
    BY <1>0, <1>1, <1>3, <2>1, CdsCounted DEF Constructed, IInv
<1>5. /\ qps' \in Seq(QPs) /\ Len(qps') = Len(qps) + m
      /\ Registered' = Registered \union {q, Pair[q]}
  BY <1>0 DEF Constructed
<1>6. TypeOK'
  <2>1. drained = 0 /\ cursor = 0 /\ Len(qps') \in Nat /\ Len(iq') \in Nat
    BY <1>0, <1>3, <1>5 DEF Constructed, IInv, StageInv
  <2>2. recvEnables' \in Nat
    <3>1. recvEnables' = recvEnables + m
      BY <1>0 DEF Constructed
    <3>2. recvEnables \in Nat
      BY DEF IInv, TypeOK
    <3> QED
      BY <3>1, <3>2
  <2> QED
    <3>1. /\ iq' \in Seq([op : DataOps \union WaitOps \union {"send_enable", "recv_enable"},
                           qp : Data])
          /\ drained' \in 0 .. Len(iq')
          /\ cursor' \in 0 .. Len(qps')
      BY <1>0, <1>3, <2>1, AllInsIs DEF Constructed
    <3> QED
      BY <1>0, <1>4, <1>5, <2>2, <3>1 DEF Constructed, IInv, TypeOK
<1>7. MemberInv'
  <2>1. \A i \in 1 .. L + m : i \in 1 .. L \/ i \in L + 1 .. L + m
    BY <1>1
  <2>2. \A i \in 1 .. L + m : iq'[i].qp \in Registered \union {q, Pair[q]}
    BY <1>1, <1>3, <2>1 DEF IInv, MemberInv
  <2>3. \A p \in Registered' \ {Mqp} : Pair[p] \in Registered'
    BY <1>5, PairOfPair DEF IInv, MemberInv
  <2>4. L + m <= MaxIns
    BY <1>0, <1>1 DEF Constructed
  <2> QED
    BY <1>1, <1>3, <1>5, <2>2, <2>3, <2>4 DEF IInv, MemberInv
<1> QED
  BY <1>0, <1>4, <1>6, <1>7, StillBuilding DEF Constructed, IInv

LEMMA BuildingStep == IInv /\ Building => IInv'
<1> SUFFICES ASSUME IInv, NEW q \in Data,
                    \/ NewQp(q) \/ NewPair(q)
                    \/ SendCredit(q) \/ Write(q) \/ WriteCmpl(q) \/ DoublingWriteCmpl(q)
                    \/ ReduceWrite(q) \/ ReduceWriteCmpl(q)
                    \/ \E op \in WaitOps : Wait(q, op)
             PROVE  IInv'
  BY DEF Building
<1> USE DEF HasScq, DataOps, CmplOps
<1>0. q # Mqp /\ (Kind[q] # "ring" => Pair[q] = q)
  BY PairOfPair, GraphShape
<1>1. CASE NewQp(q)
  BY <1>0, <1>1, ConstructStep DEF NewQp
<1>2. CASE NewPair(q)
  BY <1>2, ConstructStep DEF NewPair
<1>3. CASE SendCredit(q)
  BY <1>3, OperationStep DEF SendCredit
<1>4. CASE Write(q)
  BY <1>4, OperationStep DEF Write
<1>5. CASE WriteCmpl(q)
  BY <1>0, <1>5, OperationStep DEF WriteCmpl
<1>6. CASE DoublingWriteCmpl(q)
  BY <1>0, <1>6, OperationStep DEF DoublingWriteCmpl
<1>7. CASE ReduceWrite(q)
  BY <1>7, OperationStep DEF ReduceWrite
<1>8. CASE ReduceWriteCmpl(q)
  BY <1>0, <1>8, OperationStep DEF ReduceWriteCmpl
<1>9. CASE \E op \in WaitOps : Wait(q, op)
  BY <1>9, WaitStep
<1> QED
  BY <1>1, <1>2, <1>3, <1>4, <1>5, <1>6, <1>7, <1>8, <1>9
-----------------------------------------------------------------------------
(* finish: the queues are made.                                            *)

LEMMA DivNat ==
  ASSUME NEW a \in Nat, NEW m \in Nat \ {0}
  PROVE  a \div m \in Nat
<1>1. PICK k \in Int : k = a \div m /\ a = m * k + (a % m) /\ a % m \in 0 .. m - 1
  <2>1. a \div m \in Int /\ a = m * (a \div m) + (a % m) /\ a % m \in 0 .. m - 1
    BY Division
  <2> QED
    BY <2>1
<1>2. k >= 0
  <2> SUFFICES ASSUME k <= -1
               PROVE  FALSE
    BY <1>1
  <2>1. m * (-k) >= m
    BY MultipleIsFar
  <2>2. m * (-k) = - (m * k)
    OBVIOUS
  <2> QED
    BY <1>1, <2>1, <2>2
<1> QED
  BY <1>1, <1>2

(* What division leaves. *)
LEMMA DivRest ==
  ASSUME NEW a \in Nat, NEW m \in Nat \ {0}
  PROVE  \E k \in Nat : k = a \div m /\ a - k * m \in Nat
<1>1. PICK k \in Nat : k = a \div m
  BY DivNat
<1>2. a = m * k + (a % m) /\ a % m \in 0 .. m - 1
  BY <1>1, Division
<1>3. PICK r \in Nat : r = a % m
  BY <1>2
<1>4. k * m = m * k /\ m * k \in Int
  OBVIOUS
<1>5. a - k * m = r
  BY <1>2, <1>3, <1>4
<1> QED
  BY <1>1, <1>5

LEMMA NoCtxIsNone == NoCtx \notin Ctx
<1> SUFFICES ASSUME NoCtx \in Ctx
             PROVE  FALSE
  OBVIOUS
<1>1. "slots" \in DOMAIN NoCtx
  BY DEF Ctx
<1> QED
  BY <1>1 DEF NoCtx

LEMMA NewCtxIs ==
  ASSUME IInv, NEW q \in QPs, Fits(q)
  PROVE  /\ NewCtx(q) \in Ctx
         /\ wqeCount[q] <= Rounded(wqeCount[q])
<1>1. PICK n \in 0 .. 2 * MaxIns : n = wqeCount[q]
  BY CountBound DEF IInv
<1>2. n \in Nat \ {0} /\ n <= Granted(n) /\ Granted(n) \in Nat
  BY <1>1, SizesAre, GrantedIs DEF Fits
<1>3. PICK r \in Nat \ {0} : r = Rounded(n) /\ n <= r
  BY <1>2, RoundedIs
<1>4. Granted(n) \div r \in Nat
  BY <1>2, DivNat
<1>5. cqeCount[q] \in Nat /\ scqeCount[q] \in Nat
  BY DEF IInv, TypeOK
<1> QED
  BY <1>1, <1>2, <1>3, <1>4, <1>5 DEF NewCtx, Ctx

(* What init of q does to the contexts.                                    *)
LEMMA InitCtx ==
  ASSUME IInv, NEW q \in QPs, NEW peer \in QPs, Fits(q),
         q = Mqp => peer = q, q # Mqp => peer = Pair[q],
         ctx' = IF peer # q /\ ctx[peer] # NoCtx
                  THEN [ctx EXCEPT ![q] = [NewCtx(q) EXCEPT !.pair = peer], ![peer].pair = q]
                  ELSE [ctx EXCEPT ![q] = NewCtx(q)]
  PROVE  /\ ctx' \in [QPs -> Ctx \union {NoCtx}]
         /\ ctx'[q] # NoCtx
         /\ ctx'[q].slots = Granted(wqeCount[q])
         /\ ctx'[q].wqes = Rounded(wqeCount[q])
         /\ ctx'[q].cqes = cqeCount[q]
         /\ ctx'[q].scqes = scqeCount[q]
         /\ ctx'[q].dups = Granted(wqeCount[q]) \div Rounded(wqeCount[q])
         /\ ctx'[q].written = 0 /\ ctx'[q].cmpl = 0 /\ ctx'[q].scmpl = 0
         /\ ctx'[peer] # NoCtx => ctx'[q].pair = peer /\ ctx'[peer].pair = q
         /\ \A x \in QPs \ {q} :
              /\ ctx'[x] = NoCtx <=> ctx[x] = NoCtx
              /\ ctx'[x] = ctx[x] \/ (x = peer /\ ctx'[x] = [ctx[x] EXCEPT !.pair = q])
<1>1. ctx \in [QPs -> Ctx \union {NoCtx}] /\ NewCtx(q) \in Ctx
  BY NewCtxIs DEF IInv, TypeOK
<1>2. /\ NewCtx(q).slots = Granted(wqeCount[q])
      /\ NewCtx(q).wqes = Rounded(wqeCount[q])
      /\ NewCtx(q).cqes = cqeCount[q]
      /\ NewCtx(q).scqes = scqeCount[q]
      /\ NewCtx(q).dups = Granted(wqeCount[q]) \div Rounded(wqeCount[q])
      /\ NewCtx(q).written = 0 /\ NewCtx(q).cmpl = 0 /\ NewCtx(q).scmpl = 0
      /\ NewCtx(q).pair = q
  BY DEF NewCtx
<1>3. CASE peer # q /\ ctx[peer] # NoCtx
  <2> DEFINE c == [NewCtx(q) EXCEPT !.pair = peer]
             d == [ctx[peer] EXCEPT !.pair = q]
  <2>1. c \in Ctx /\ d \in Ctx
    BY <1>1, <1>3 DEF Ctx
  <2>2. /\ c.slots = NewCtx(q).slots /\ c.wqes = NewCtx(q).wqes /\ c.cqes = NewCtx(q).cqes
        /\ c.scqes = NewCtx(q).scqes
        /\ c.dups = NewCtx(q).dups /\ c.written = NewCtx(q).written
        /\ c.cmpl = NewCtx(q).cmpl /\ c.scmpl = NewCtx(q).scmpl /\ c.pair = peer
        /\ d.pair = q
    BY <1>1, <1>3 DEF Ctx
  <2>3. /\ ctx'[q] = c /\ ctx'[peer] = d
        /\ \A x \in QPs : x # q /\ x # peer => ctx'[x] = ctx[x]
        /\ ctx' = [x \in QPs |-> ctx'[x]]
    BY <1>1, <1>3
  <2> HIDE DEF c, d
  <2>4. c # NoCtx /\ d # NoCtx
    BY <2>1, NoCtxIsNone
  <2>5. ctx' \in [QPs -> Ctx \union {NoCtx}]
    BY <1>1, <2>1, <2>3
  <2>6. \A x \in QPs \ {q} :
              /\ ctx'[x] = NoCtx <=> ctx[x] = NoCtx
              /\ ctx'[x] = ctx[x] \/ (x = peer /\ ctx'[x] = [ctx[x] EXCEPT !.pair = q])
    BY <1>3, <2>3, <2>4 DEF d
  <2> QED
    BY <1>2, <2>2, <2>3, <2>4, <2>5, <2>6
<1>4. CASE ~ (peer # q /\ ctx[peer] # NoCtx)
  <2>1. /\ ctx'[q] = NewCtx(q)
        /\ \A x \in QPs : x # q => ctx'[x] = ctx[x]
        /\ ctx' \in [QPs -> Ctx \union {NoCtx}]
    BY <1>1, <1>4
  <2>2. NewCtx(q) # NoCtx
    BY <1>1, NoCtxIsNone
  <2> QED
    BY <1>2, <1>4, <2>1, <2>2
<1> QED
  BY <1>3, <1>4

LEMMA InitQpStep == ASSUME IInv, InitQp PROVE IInv'
<1> DEFINE q == qps[cursor + 1]
           peer == IF q = Mqp THEN q ELSE Pair[q]
<1>1. /\ q \in QPs /\ peer \in QPs
      /\ q = Mqp => peer = q
      /\ q # Mqp => q \in Data /\ peer = Pair[q]
      /\ q \in Data => peer = Pair[q]
  <2>1. cursor < Len(qps) /\ cursor \in 0 .. Len(qps) /\ qps \in Seq(QPs)
    BY DEF InitQp, IInv, TypeOK
  <2>2. q \in QPs
    BY <2>1
  <2> HIDE DEF q
  <2> QED
    BY <2>2, PairOfPair DEF QPs
<1>2. /\ stage = "init" /\ drained = 0 /\ Fits(q)
      /\ UNCHANGED <<stage, qps, iq, drained, counts, prog, rung>>
      /\ cursor' = cursor + 1 /\ cursor + 1 \in 1 .. Len(qps)
      /\ ctx' = IF peer # q /\ ctx[peer] # NoCtx
                  THEN [ctx EXCEPT ![q] = [NewCtx(q) EXCEPT !.pair = peer], ![peer].pair = q]
                  ELSE [ctx EXCEPT ![q] = NewCtx(q)]
  <2>1. /\ stage = "init" /\ Fits(q) /\ cursor < Len(qps) /\ cursor' = cursor + 1
        /\ UNCHANGED <<stage, qps, iq, drained, counts, prog, rung>>
    BY DEF InitQp
  <2>2. drained = 0 /\ cursor + 1 \in 1 .. Len(qps)
    BY <2>1 DEF IInv, StageInv, TypeOK
  <2>3. ctx' = IF peer # q /\ ctx[peer] # NoCtx
                  THEN [ctx EXCEPT ![q] = [NewCtx(q) EXCEPT !.pair = peer], ![peer].pair = q]
                  ELSE [ctx EXCEPT ![q] = NewCtx(q)]
    BY Zenon DEF InitQp
  <2> QED
    BY <2>1, <2>2, <2>3
<1> HIDE DEF q, peer
<1>3. /\ ctx' \in [QPs -> Ctx \union {NoCtx}]
      /\ ctx'[q] # NoCtx
      /\ ctx'[q].slots = Granted(wqeCount[q])
      /\ ctx'[q].wqes = Rounded(wqeCount[q])
      /\ ctx'[q].cqes = cqeCount[q]
      /\ ctx'[q].scqes = scqeCount[q]
      /\ ctx'[q].dups = Granted(wqeCount[q]) \div Rounded(wqeCount[q])
      /\ ctx'[q].written = 0 /\ ctx'[q].cmpl = 0 /\ ctx'[q].scmpl = 0
      /\ ctx'[peer] # NoCtx => ctx'[q].pair = peer /\ ctx'[peer].pair = q
      /\ \A x \in QPs \ {q} :
           /\ ctx'[x] = NoCtx <=> ctx[x] = NoCtx
           /\ ctx'[x] = ctx[x] \/ (x = peer /\ ctx'[x] = [ctx[x] EXCEPT !.pair = q])
  BY <1>1, <1>2, InitCtx
<1>4. TypeOK'
  <2>1. cursor' \in 0 .. Len(qps') /\ UNCHANGED <<iq, qps, prog>>
    BY <1>2
  <2>2. UNCHANGED <<stage, drained, wqeCount, cqeCount, scqeCount, recvEnables, rung>>
    BY <1>2 DEF counts
  <2> QED
    BY <1>3, <2>1, <2>2 DEF IInv, TypeOK
<1>5. CountsInv' /\ MemberInv'
  BY <1>2, CountsKept DEF IInv, counts
<1>6. StageInv'
  <2>1. \A i \in 1 .. cursor + 1 : i \in 1 .. cursor \/ i = cursor + 1
    BY DEF IInv, TypeOK
  <2>2. \A i \in 1 .. cursor + 1 : ctx'[qps[i]] # NoCtx
    <3> SUFFICES ASSUME NEW i \in 1 .. cursor + 1, qps[i] # q
                 PROVE  ctx'[qps[i]] # NoCtx
      BY <1>3
    <3>1. i \in 1 .. cursor /\ qps[i] \in QPs
      <4>1. i # cursor + 1
        BY DEF q
      <4>2. i \in 1 .. cursor /\ i \in 1 .. Len(qps)
        BY <1>2, <2>1, <4>1 DEF IInv, TypeOK
      <4> QED
        BY <4>2 DEF IInv, TypeOK
    <3>2. ctx[qps[i]] # NoCtx
      BY <1>2, <3>1 DEF IInv, StageInv
    <3> QED
      BY <1>3, <3>1, <3>2
  <2> QED
    BY <1>2, <2>2 DEF IInv, StageInv
<1>7. CtxInv'
  <2> SUFFICES ASSUME NEW x \in QPs, ctx'[x] # NoCtx
               PROVE  CtxOf(x)'
    BY DEF CtxInv
  <2>1. \A y \in QPs : WqesOf(iq, y, 0) = 0 /\ CqesOf(iq, y, 0) = 0 /\ ScqesOf(iq, y, 0) = 0
    BY SumsZero
  <2>2. CASE x = q
    <3>1. 0 <= Rounded(wqeCount[q])
      <4>1. NewCtx(q).wqes \in Nat /\ NewCtx(q).wqes = Rounded(wqeCount[q])
        BY <1>1, <1>2, NewCtxIs DEF Ctx, NewCtx
      <4> QED
        BY <4>1
    <3> QED
      BY <1>1, <1>2, <1>3, <2>1, <2>2, <3>1 DEF CtxOf, Fits, counts
  <2>3. CASE x # q
    <3>1. ctx[x] # NoCtx /\ ctx[x] \in Ctx /\ CtxOf(x)
      BY <1>3, <2>3 DEF IInv, CtxInv, TypeOK
    <3>2. /\ ctx'[x].slots = ctx[x].slots /\ ctx'[x].wqes = ctx[x].wqes
          /\ ctx'[x].cqes = ctx[x].cqes /\ ctx'[x].scqes = ctx[x].scqes
          /\ ctx'[x].dups = ctx[x].dups
          /\ ctx'[x].written = ctx[x].written /\ ctx'[x].cmpl = ctx[x].cmpl
          /\ ctx'[x].scmpl = ctx[x].scmpl
      BY <1>3, <2>3, <3>1 DEF Ctx
    <3>3. ASSUME x \in Data, ctx'[Pair[x]] # NoCtx
          PROVE  ctx'[x].pair = Pair[x]
      <4>1. CASE Pair[x] = q
        <5>1. q \in Data /\ x = peer
          BY <1>1, <3>3, <4>1, PairOfPair
        <5> QED
          BY <1>3, <2>2, <2>3, <4>1, <5>1
      <4>2. CASE Pair[x] # q
        <5>1. Pair[x] \in QPs /\ x # peer
          BY <1>1, <2>3, <3>3, <4>2, PairOfPair DEF QPs
        <5>2. ctx'[x] = ctx[x] /\ ctx[Pair[x]] # NoCtx
          BY <1>3, <2>3, <3>3, <4>2, <5>1
        <5> QED
          BY <3>1, <3>3, <5>2 DEF CtxOf
      <4> QED
        BY <4>1, <4>2
    <3> QED
      BY <1>2, <3>1, <3>2, <3>3 DEF CtxOf, Fits, counts
  <2> QED
    BY <2>2, <2>3
<1>8. ProgInv'
  BY <1>2, PairOfPair DEF IInv, StageInv, ProgInv, QPs
<1> QED
  BY <1>4, <1>5, <1>6, <1>7, <1>8 DEF IInv

(* The other steps between the loops change the stage alone.               *)
LEMMA StageStep ==
  ASSUME IInv, \/ Finish \/ InitTrap \/ InitDone \/ DrainDone \/ FinishDb
  PROVE  IInv'
<1>1. /\ UNCHANGED <<qps, iq, drained, wqeCount, cqeCount, scqeCount, recvEnables, ctx, prog>>
      /\ cursor' \in 0 .. Len(qps) /\ rung' \in Nat
      /\ stage' \in {"build", "init", "drain", "fin", "ready", "trapped"}
  <2>1. /\ cursor \in 0 .. Len(qps) /\ Len(qps) \in Nat /\ 0 \in 0 .. Len(qps)
        /\ rung \in Nat /\ recvEnables \in Nat
    BY DEF IInv, TypeOK
  <2>2. CASE Finish \/ InitTrap \/ InitDone
    BY <2>1, <2>2 DEF Finish, InitTrap, InitDone, counts
  <2>3. CASE DrainDone \/ FinishDb
    BY <2>1, <2>3 DEF DrainDone, FinishDb, counts
  <2> QED
    BY <2>2, <2>3
<1>2. TypeOK'
  BY <1>1 DEF IInv, TypeOK
<1>3. CountsInv' /\ MemberInv'
  BY <1>1, CountsKept DEF IInv
<1>4. StageInv'
  <2>1. CASE Finish \/ InitTrap
    <3>1. drained = 0 /\ cursor' = cursor /\ (Finish => cursor = 0)
      BY <2>1 DEF Finish, InitTrap, IInv, StageInv
    <3>2. (Finish => stage' = "init") /\ (InitTrap => stage' = "trapped")
      BY DEF Finish, InitTrap
    <3>3. stage \in {"build", "init"}
      BY <2>1 DEF Finish, InitTrap
    <3>4. CASE Finish
      <4>1. 1 .. cursor' = {}
        BY <3>1, <3>4
      <4> QED
        BY <1>1, <3>1, <3>2, <3>3, <3>4, <4>1 DEF IInv, StageInv
    <3>5. CASE InitTrap
      BY <1>1, <3>1, <3>2, <3>3, <3>5 DEF IInv, StageInv
    <3> QED
      BY <2>1, <3>4, <3>5
  <2>2. CASE InitDone
    <3>1. \A q \in Registered : ctx[q] # NoCtx
      BY <2>2 DEF InitDone, IInv, StageInv, Registered
    <3> QED
      BY <1>1, <2>2, <3>1 DEF InitDone, StageInv, Registered
  <2>3. CASE DrainDone \/ FinishDb
    <3>1. stage' \in {"fin", "ready"} /\ drained = Len(iq) /\ stage \in {"drain", "fin"}
      BY <2>3 DEF DrainDone, FinishDb, IInv, StageInv
    <3> QED
      BY <1>1, <3>1 DEF IInv, StageInv, Registered
  <2> QED
    BY <2>1, <2>2, <2>3
<1>5. CtxInv'
  <2>1. \A q \in QPs : stage' \in {"init", "drain"} =>
          stage \in {"init", "drain"} \/ ctx[q] = NoCtx
    BY DEF Finish, InitTrap, InitDone, DrainDone, FinishDb, IInv, StageInv
  <2> SUFFICES ASSUME NEW q \in QPs, ctx'[q] # NoCtx
               PROVE  CtxOf(q)'
    BY DEF CtxInv
  <2>2. CtxOf(q)
    BY <1>1 DEF IInv, CtxInv
  <2> QED
    BY <1>1, <2>1, <2>2 DEF CtxOf, Fits
<1>6. ProgInv'
  BY <1>1 DEF IInv, ProgInv, CdOf, DataOf
<1> QED
  BY <1>2, <1>3, <1>4, <1>5, <1>6 DEF IInv
-----------------------------------------------------------------------------
(* finish: the list is drained.                                            *)

(* What is in the queues stays true while sizes and increments do.         *)
LEMMA OldProg ==
  ASSUME IInv, UNCHANGED <<iq, cqeCount, scqeCount>>,
         drained' \in Nat, drained <= drained',
         \A x \in Data : ctx'[x].wqes = ctx[x].wqes
  PROVE  /\ \A w : CdOf(w) => CdOf(w)'
         /\ \A q, w : DataOf(q, w) => DataOf(q, w)'
<1>1. drained \in Nat /\ \A n \in 1 .. drained : n \in 1 .. drained'
  BY DEF IInv, TypeOK
<1>2. ASSUME NEW w, CdOf(w)
      PROVE  CdOf(w)'
  BY <1>1, <1>2 DEF CdOf
<1>3. ASSUME NEW q, NEW w, DataOf(q, w)
      PROVE  DataOf(q, w)'
  BY <1>1, <1>3 DEF DataOf
<1> QED
  BY <1>2, <1>3

(* The instruction at hand, and the contexts it concerns.                  *)
LEMMA Draining ==
  ASSUME IInv, stage = "drain", drained < Len(iq)
  PROVE  /\ drained \in Nat /\ drained + 1 \in 1 .. Len(iq)
         /\ iq[drained + 1].op \in DataOps \union CdOps
         /\ iq[drained + 1].qp \in Data
         /\ iq[drained + 1] = Ins(iq[drained + 1].op, iq[drained + 1].qp)
         /\ \A q \in {Mqp, iq[drained + 1].qp, Pair[iq[drained + 1].qp]} :
              q \in QPs /\ ctx[q] \in Ctx /\ CtxOf(q)
         /\ ctx[iq[drained + 1].qp].pair = Pair[iq[drained + 1].qp]
<1> DEFINE q == iq[drained + 1].qp
<1>1. drained \in Nat /\ drained + 1 \in 1 .. Len(iq)
  BY DEF IInv, TypeOK
<1>2. iq[drained + 1] \in AllIns
  <2>1. iq \in Seq(AllIns)
    BY AllInsIs DEF IInv, TypeOK
  <2> QED
    BY <1>1, <2>1
<1>3. q \in Data /\ iq[drained + 1] = Ins(iq[drained + 1].op, q)
      /\ iq[drained + 1].op \in DataOps \union CdOps
  BY <1>2 DEF AllIns, Ins
<1>4. q \in Registered /\ Pair[q] \in Registered /\ Mqp \in Registered
  BY <1>1, <1>3, PairOfPair DEF IInv, MemberInv
<1>5. q \in QPs /\ Pair[q] \in QPs /\ Mqp \in QPs
  BY <1>3, PairOfPair DEF QPs
<1>6. \A x \in {Mqp, q, Pair[q]} : x \in QPs /\ ctx[x] # NoCtx
  BY <1>4, <1>5 DEF IInv, StageInv
<1>7. \A x \in {Mqp, q, Pair[q]} : ctx[x] \in Ctx /\ CtxOf(x)
  BY <1>6 DEF IInv, TypeOK, CtxInv
<1>8. ctx[q].pair = Pair[q]
  BY <1>3, <1>6, <1>7 DEF CtxOf
<1> QED
  BY <1>1, <1>3, <1>6, <1>7, <1>8

(* A queue has room for all the list gives it.                             *)
LEMMA RoomInBlock ==
  ASSUME IInv, NEW q \in QPs, ctx[q] # NoCtx, NEW n \in Nat, n <= Len(iq)
  PROVE  /\ WqesOf(iq, q, n) <= ctx[q].wqes
         /\ WqesOf(iq, q, n) <= ctx[q].slots
         /\ ctx[q].slots \in Nat \ {0}
<1>1. CtxOf(q) /\ ctx[q] \in Ctx
  BY DEF IInv, CtxInv, TypeOK
<1>2. PICK L \in Nat : L = Len(iq)
  BY DEF IInv, TypeOK
<1>3. WqesOf(iq, q, n) <= WqesOf(iq, q, L) /\ WqesOf(iq, q, L) = wqeCount[q]
  BY <1>2, SumsGrow DEF IInv, CountsInv
<1>4. /\ wqeCount[q] <= ctx[q].wqes /\ wqeCount[q] <= ctx[q].slots
      /\ wqeCount[q] > 0 /\ wqeCount[q] \in Nat
  BY <1>1, NewCtxIs DEF CtxOf, Fits, IInv, TypeOK
<1>5. WqesOf(iq, q, n) \in Nat /\ ctx[q].wqes \in Nat /\ ctx[q].slots \in Nat
  BY <1>1, SumsType DEF Ctx
<1> QED
  BY <1>2, <1>3, <1>4, <1>5

(* A qp_ctx counts a WQE, or one completion more.                          *)
LEMMA CtxCounts ==
  ASSUME NEW c \in Ctx, NEW z \in Nat
  PROVE  /\ [c EXCEPT !.written = @ + z] \in Ctx
         /\ [c EXCEPT !.cmpl = @ + z] \in Ctx
         /\ [c EXCEPT !.scmpl = @ + z] \in Ctx
BY DEF Ctx

LEMMA PostedIs ==
  ASSUME ctx \in [QPs -> Ctx \union {NoCtx}],
         NEW q \in Data, NEW op \in DataOps, NEW z \in Nat, z = Size(op),
         ctx[q] \in Ctx, ctx[q].pair \in Data, ctx[ctx[q].pair] \in Ctx,
         ctx' = Posted(ctx, q, op)
  PROVE  /\ ctx' \in [QPs -> Ctx \union {NoCtx}]
         /\ \A x \in QPs : ctx[x] = NoCtx => ctx'[x] = NoCtx
         /\ \A x \in QPs : ctx[x] # NoCtx =>
              /\ ctx'[x] \in Ctx
              /\ ctx'[x].pair = ctx[x].pair /\ ctx'[x].slots = ctx[x].slots
              /\ ctx'[x].wqes = ctx[x].wqes /\ ctx'[x].cqes = ctx[x].cqes
              /\ ctx'[x].scqes = ctx[x].scqes /\ ctx'[x].dups = ctx[x].dups
              /\ ctx'[x].written = ctx[x].written + (IF x = q THEN z ELSE 0)
              /\ ctx'[x].cmpl = ctx[x].cmpl + (IF x = ctx[q].pair THEN 1 ELSE 0)
                   + (IF x = q /\ op \in CmplOps /\ ~ HasScq(q) THEN 1 ELSE 0)
              /\ ctx'[x].scmpl =
                   ctx[x].scmpl + (IF x = q /\ op \in CmplOps /\ HasScq(q) THEN 1 ELSE 0)
<1> DEFINE p == ctx[q].pair
           own == IF op \notin CmplOps THEN ctx
                  ELSE IF HasScq(q) THEN [ctx EXCEPT ![q].scmpl = @ + 1]
                  ELSE [ctx EXCEPT ![q].cmpl = @ + 1]
           wrote == [own EXCEPT ![q].written = @ + Size(op)]
<1>0. q \in QPs /\ p \in QPs
  BY DEF QPs
<1>1. /\ own \in [QPs -> Ctx \union {NoCtx}]
      /\ \A x \in QPs : x # q => own[x] = ctx[x]
      /\ own[q] \in Ctx
      /\ own[q].pair = ctx[q].pair /\ own[q].slots = ctx[q].slots
      /\ own[q].wqes = ctx[q].wqes /\ own[q].cqes = ctx[q].cqes
      /\ own[q].scqes = ctx[q].scqes
      /\ own[q].dups = ctx[q].dups /\ own[q].written = ctx[q].written
      /\ own[q].cmpl = ctx[q].cmpl + (IF op \in CmplOps /\ ~ HasScq(q) THEN 1 ELSE 0)
      /\ own[q].scmpl = ctx[q].scmpl + (IF op \in CmplOps /\ HasScq(q) THEN 1 ELSE 0)
  <2>1. CASE op \notin CmplOps
    BY <1>0, <2>1 DEF Ctx
  <2>2. CASE op \in CmplOps /\ HasScq(q)
    <3>1. own[q] = [ctx[q] EXCEPT !.scmpl = @ + 1] /\ own[q] \in Ctx
      BY <1>0, <2>2, CtxCounts
    <3> QED
      BY <1>0, <2>2, <3>1 DEF Ctx
  <2>3. CASE op \in CmplOps /\ ~ HasScq(q)
    <3>1. own[q] = [ctx[q] EXCEPT !.cmpl = @ + 1] /\ own[q] \in Ctx
      BY <1>0, <2>3, CtxCounts
    <3> QED
      BY <1>0, <2>3, <3>1 DEF Ctx
  <2> QED
    BY <2>1, <2>2, <2>3
<1>2. /\ ctx' = [wrote EXCEPT ![p].cmpl = @ + 1]
  BY DEF Posted
<1> HIDE DEF own
<1>3. /\ wrote \in [QPs -> Ctx \union {NoCtx}]
      /\ \A x \in QPs : x # q => wrote[x] = own[x]
      /\ wrote[q] \in Ctx
      /\ wrote[q].pair = own[q].pair /\ wrote[q].slots = own[q].slots
      /\ wrote[q].wqes = own[q].wqes /\ wrote[q].cqes = own[q].cqes
      /\ wrote[q].scqes = own[q].scqes
      /\ wrote[q].dups = own[q].dups /\ wrote[q].written = own[q].written + z
      /\ wrote[q].cmpl = own[q].cmpl /\ wrote[q].scmpl = own[q].scmpl
  <2>0. wrote[q] = [own[q] EXCEPT !.written = @ + Size(op)]
    BY <1>0, <1>1
  <2>1. wrote[q] = [own[q] EXCEPT !.written = @ + z] /\ wrote[q] \in Ctx
    BY <1>1, <2>0, CtxCounts
  <2> QED
    BY <1>0, <1>1, <2>1 DEF Ctx
<1> HIDE DEF wrote, p
<1>4. wrote[p] \in Ctx
  BY <1>0, <1>1, <1>3 DEF p
<1>5. /\ ctx' \in [QPs -> Ctx \union {NoCtx}]
      /\ \A x \in QPs : x # p => ctx'[x] = wrote[x]
      /\ ctx'[p] \in Ctx
      /\ ctx'[p].pair = wrote[p].pair /\ ctx'[p].slots = wrote[p].slots
      /\ ctx'[p].wqes = wrote[p].wqes /\ ctx'[p].cqes = wrote[p].cqes
      /\ ctx'[p].scqes = wrote[p].scqes
      /\ ctx'[p].dups = wrote[p].dups /\ ctx'[p].written = wrote[p].written
      /\ ctx'[p].cmpl = wrote[p].cmpl + 1 /\ ctx'[p].scmpl = wrote[p].scmpl
  <2>0. ctx'[p] = [wrote[p] EXCEPT !.cmpl = @ + 1]
    BY <1>0, <1>2, <1>3, Zenon
  <2>1. ctx'[p] \in Ctx
    <3>1. PICK c \in Ctx : c = wrote[p]
      BY <1>4
    <3>2. ctx'[p] = [c EXCEPT !.cmpl = @ + 1]
      BY <2>0, <3>1
    <3> QED
      BY <3>2 DEF Ctx
  <2>2. /\ ctx'[p].pair = wrote[p].pair /\ ctx'[p].slots = wrote[p].slots
        /\ ctx'[p].wqes = wrote[p].wqes /\ ctx'[p].cqes = wrote[p].cqes
        /\ ctx'[p].scqes = wrote[p].scqes
        /\ ctx'[p].dups = wrote[p].dups /\ ctx'[p].written = wrote[p].written
        /\ ctx'[p].cmpl = wrote[p].cmpl + 1 /\ ctx'[p].scmpl = wrote[p].scmpl
    BY <1>4, <2>0 DEF Ctx
  <2>3. \A x \in QPs : x # p => ctx'[x] = wrote[x]
    BY <1>0, <1>2, <1>3
  <2>4. ctx' \in [QPs -> Ctx \union {NoCtx}]
    BY <1>0, <1>2, <1>3, <2>1, <2>3
  <2> QED
    BY <2>1, <2>2, <2>3, <2>4
<1>6. ctx[q] # NoCtx /\ ctx[p] # NoCtx
  BY NoCtxIsNone DEF p
<1>7. ASSUME NEW x \in QPs, ctx[x] # NoCtx
      PROVE  /\ ctx'[x] \in Ctx
             /\ ctx'[x].pair = ctx[x].pair /\ ctx'[x].slots = ctx[x].slots
             /\ ctx'[x].wqes = ctx[x].wqes /\ ctx'[x].cqes = ctx[x].cqes
             /\ ctx'[x].scqes = ctx[x].scqes /\ ctx'[x].dups = ctx[x].dups
             /\ ctx'[x].written = ctx[x].written + (IF x = q THEN z ELSE 0)
             /\ ctx'[x].cmpl = ctx[x].cmpl + (IF x = p THEN 1 ELSE 0)
                  + (IF x = q /\ op \in CmplOps /\ ~ HasScq(q) THEN 1 ELSE 0)
             /\ ctx'[x].scmpl =
                  ctx[x].scmpl + (IF x = q /\ op \in CmplOps /\ HasScq(q) THEN 1 ELSE 0)
  <2>1. ctx[x] \in Ctx /\ ctx[x].written \in Nat /\ ctx[x].cmpl \in Nat /\ ctx[x].scmpl \in Nat
    BY <1>7 DEF Ctx
  <2>2. CASE x = q /\ x = p
    BY <1>1, <1>3, <1>5, <2>1, <2>2
  <2>3. CASE x = q /\ x # p
    BY <1>1, <1>3, <1>5, <2>1, <2>3
  <2>4. CASE x # q /\ x = p
    BY <1>1, <1>3, <1>5, <2>1, <2>4
  <2>5. CASE x # q /\ x # p
    BY <1>1, <1>3, <1>5, <2>1, <2>5
  <2> QED
    BY <2>2, <2>3, <2>4, <2>5
<1>8. \A x \in QPs : ctx[x] = NoCtx => ctx'[x] = NoCtx
  BY <1>0, <1>1, <1>3, <1>5, <1>6 DEF p
<1> QED
  BY <1>5, <1>7, <1>8 DEF p

(* The two parts of ProgInv, of the next state.                            *)
LEMMA ProgIs ==
  ASSUME \A v : \A k \in 1 .. Len(prog'[Mqp]) :
           v = prog'[Mqp][k] /\ v.op # "nop" => CdOf(v)',
         \A x \in Data : \A v : \A k \in 1 .. Len(prog'[x]) :
           v = prog'[x][k] /\ v.op # "nop" => DataOf(x, v)'
  PROVE  ProgInv'
<1>1. ASSUME NEW k \in 1 .. Len(prog'[Mqp]), prog'[Mqp][k].op # "nop"
      PROVE  CdOf(prog[Mqp][k])'
  <2>1. PICK v : v = prog'[Mqp][k]
    OBVIOUS
  <2>2. CdOf(v)'
    BY <1>1, <2>1
  <2> QED
    BY <2>1, <2>2 DEF CdOf
<1>2. ASSUME NEW x \in Data, NEW k \in 1 .. Len(prog'[x]), prog'[x][k].op # "nop"
      PROVE  DataOf(x, prog[x][k])'
  <2>1. PICK v : v = prog'[x][k]
    OBVIOUS
  <2>2. DataOf(x, v)'
    BY <1>2, <2>1
  <2> QED
    BY <2>1, <2>2 DEF DataOf
<1> QED
  BY <1>1, <1>2 DEF ProgInv

(* Draining an instruction keeps the types if the contexts and the queues  *)
(* keep theirs.                                                            *)
LEMMA DrainTyped ==
  ASSUME TypeOK,
         UNCHANGED <<stage, qps, iq, cursor, wqeCount, cqeCount, scqeCount, recvEnables, rung>>,
         drained' \in 0 .. Len(iq), ctx' \in [QPs -> Ctx \union {NoCtx}],
         DOMAIN prog' = QPs, \A x \in Data : prog'[x] \in Seq(Wqe),
         prog'[Mqp] \in Seq(Wqe \union CdWqe)
  PROVE  TypeOK'
BY DEF TypeOK

LEMMA PostDataStep ==
  ASSUME IInv, Drain, PostData(drained + 1)
  PROVE  IInv'
<1>0. stage = "drain" /\ drained < Len(iq)
  BY DEF Drain
<1>1. PICK d \in Nat : d = drained
  BY DEF IInv, TypeOK
<1>ins. PICK q, op : q = iq[drained + 1].qp /\ op = iq[drained + 1].op
  OBVIOUS
<1>2. /\ d + 1 \in 1 .. Len(iq)
      /\ q \in Data /\ op \in DataOps /\ iq[d + 1] = Ins(op, q)
      /\ q \in QPs /\ ctx[q] \in Ctx /\ CtxOf(q)
      /\ ctx[Pair[q]] \in Ctx /\ ctx[q].pair = Pair[q] /\ Pair[q] \in Data
  BY <1>0, <1>1, <1>ins, Draining, PairOfPair DEF PostData
<1>3. PICK z \in Nat : z = Size(op)
  BY DEF Size
<1>4. /\ prog' = [prog EXCEPT ![q] = Append(@,
                    [op |-> op, ins |-> d + 1, at |-> ctx[q].written % ctx[q].slots,
                     size |-> Size(op)])]
      /\ ctx' = Posted(ctx, q, op)
      /\ drained' = d + 1
      /\ UNCHANGED <<stage, qps, iq, cursor, wqeCount, cqeCount, scqeCount, recvEnables, rung>>
  BY <1>1, <1>ins DEF Drain, PostData, counts
<1>5. /\ ctx' \in [QPs -> Ctx \union {NoCtx}]
      /\ \A x \in QPs : ctx[x] = NoCtx => ctx'[x] = NoCtx
      /\ \A x \in QPs : ctx[x] # NoCtx =>
           /\ ctx'[x] \in Ctx
           /\ ctx'[x].pair = ctx[x].pair /\ ctx'[x].slots = ctx[x].slots
           /\ ctx'[x].wqes = ctx[x].wqes /\ ctx'[x].cqes = ctx[x].cqes
           /\ ctx'[x].scqes = ctx[x].scqes /\ ctx'[x].dups = ctx[x].dups
           /\ ctx'[x].written = ctx[x].written + (IF x = q THEN z ELSE 0)
           /\ ctx'[x].cmpl = ctx[x].cmpl + (IF x = Pair[q] THEN 1 ELSE 0)
                + (IF x = q /\ op \in CmplOps /\ ~ HasScq(q) THEN 1 ELSE 0)
           /\ ctx'[x].scmpl =
                ctx[x].scmpl + (IF x = q /\ op \in CmplOps /\ HasScq(q) THEN 1 ELSE 0)
  <2>1. ctx \in [QPs -> Ctx \union {NoCtx}]
    BY DEF IInv, TypeOK
  <2> QED
    BY <1>2, <1>3, <1>4, <2>1, PostedIs
<1>6. ASSUME NEW x \in QPs
      PROVE  /\ WqesOf(iq, x, d + 1) = WqesOf(iq, x, d) + (IF x = q THEN z ELSE 0)
             /\ CqesOf(iq, x, d + 1) =
                  CqesOf(iq, x, d) + (IF x = Pair[q] THEN 1 ELSE 0)
                    + (IF x = q /\ op \in CmplOps /\ ~ HasScq(x) THEN 1 ELSE 0)
             /\ ScqesOf(iq, x, d + 1) =
                  ScqesOf(iq, x, d) + (IF x = q /\ op \in CmplOps THEN 1 ELSE 0)
  <2>1. iq[d + 1].op = op /\ iq[d + 1].qp = q
    BY <1>1, <1>ins
  <2>2. PostAdds(iq, x, d, iq[d + 1].op, iq[d + 1].qp)
    <3>1. iq[d + 1].op \in DataOps /\ iq[d + 1].qp \in Data
      BY <1>2, <2>1
    <3> QED
      BY <3>1, SumsOfPost
  <2>3. PostAdds(iq, x, d, op, q)
    BY <2>1, <2>2
  <2> QED
    BY <1>3, <2>3 DEF PostAdds
<1>7. CtxInv'
  <2> SUFFICES ASSUME NEW x \in QPs, ctx'[x] # NoCtx
               PROVE  CtxOf(x)'
    BY DEF CtxInv
  <2>1. ctx[x] # NoCtx /\ CtxOf(x)
    BY <1>5 DEF IInv, CtxInv
  <2>2. ctx[x].written = WqesOf(iq, x, d)
    BY <1>0, <1>1, <2>1 DEF CtxOf
  <2>3. ctx'[x].written = WqesOf(iq, x, d + 1)
    BY <1>5, <1>6, <2>1, <2>2
  <2>4. WqesOf(iq, x, d + 1) <= ctx[x].wqes
    BY <1>2, <2>1, RoomInBlock
  <2>5. ASSUME x \in Data
        PROVE  /\ ctx'[x].cmpl = CqesOf(iq, x, d + 1)
               /\ HasScq(x) => ctx'[x].scmpl = ScqesOf(iq, x, d + 1)
               /\ ctx'[Pair[x]] # NoCtx => ctx'[x].pair = Pair[x]
    <3>1. Pair[x] \in QPs
      BY <2>5, PairOfPair DEF QPs
    <3>2. /\ ctx[x].cmpl = CqesOf(iq, x, d)
          /\ HasScq(x) => ctx[x].scmpl = ScqesOf(iq, x, d)
          /\ ctx[Pair[x]] # NoCtx => ctx[x].pair = Pair[x]
      BY <1>1, <2>1, <2>5 DEF CtxOf
    <3>3. ctx'[x].cmpl = CqesOf(iq, x, d + 1)
      BY <1>5, <1>6, <2>1, <3>2
    <3>4. HasScq(x) => ctx'[x].scmpl = ScqesOf(iq, x, d + 1)
      BY <1>5, <1>6, <2>1, <3>2
    <3> QED
      BY <1>5, <2>1, <3>1, <3>2, <3>3, <3>4
  <2> QED
    BY <1>4, <1>5, <2>1, <2>3, <2>4, <2>5 DEF CtxOf, Fits
<1>8. ctx[q].written % ctx[q].slots = WqesOf(iq, q, d)
  <2>1. ctx[q] # NoCtx
    BY <1>2, NoCtxIsNone
  <2>2. PICK w \in Nat, t \in Nat \ {0} : w = WqesOf(iq, q, d) /\ t = ctx[q].slots
    BY <1>2, <2>1, RoomInBlock, SumsType
  <2>3. w + z <= t
    BY <1>2, <1>6, <2>1, <2>2, RoomInBlock
  <2>4. z >= 1
    BY <1>3 DEF Size
  <2>5. w % t = w
    BY <2>3, <2>4, SmallRemainder
  <2> QED
    BY <1>0, <1>1, <1>2, <2>2, <2>5 DEF CtxOf
<1>9. ProgInv' /\ (\A x \in Data : prog'[x] \in Seq(Wqe)) /\ prog'[Mqp] = prog[Mqp]
  <2>wqe. PICK w : w = [op |-> op, ins |-> d + 1, at |-> WqesOf(iq, q, d), size |-> z]
    OBVIOUS
  <2>0. DOMAIN prog = QPs /\ Mqp # q /\ Mqp \in QPs
    BY <1>2, PairOfPair DEF IInv, TypeOK, QPs
  <2>1. /\ prog' = [prog EXCEPT ![q] = Append(@, w)]
        /\ prog'[q] = Append(prog[q], w)
        /\ \A x \in QPs : x # q => prog'[x] = prog[x]
        /\ DOMAIN prog' = QPs
    <3>1. prog' = [prog EXCEPT ![q] = Append(@, w)]
      BY <1>3, <1>4, <1>8, <2>wqe
    <3> QED
      BY <1>2, <2>0, <3>1
  <2>2. w \in Wqe
    BY <1>2, <1>3, <2>wqe, SumsType DEF Wqe
  <2>3. DataOf(q, w)'
    <3>1. /\ w.op = op /\ w.ins = d + 1 /\ w.size = Size(op)
          /\ w.at = WqesOf(iq, q, (d + 1) - 1)
      BY <1>3, <2>wqe
    <3>2. w.ins \in 1 .. drained'
      BY <1>4, <3>1
    <3> QED
      BY <1>2, <1>4, <3>1, <3>2 DEF DataOf
  <2>4. /\ \A v : CdOf(v) => CdOf(v)'
        /\ \A x, v : DataOf(x, v) => DataOf(x, v)'
    <3>1. \A x \in Data : ctx'[x].wqes = ctx[x].wqes
      <4> SUFFICES ASSUME NEW x \in Data
                   PROVE  ctx'[x].wqes = ctx[x].wqes
        OBVIOUS
      <4>1. x \in QPs
        BY DEF QPs
      <4> QED
        BY <1>5, <4>1
    <3>2. drained' \in Nat /\ drained <= drained'
      BY <1>1, <1>4
    <3> QED
      BY <1>4, <3>1, <3>2, OldProg
  <2>5. \A x \in Data : prog[x] \in Seq(Wqe) /\ x \in QPs
    BY DEF IInv, TypeOK, QPs
  <2>6. /\ prog'[q] \in Seq(Wqe)
        /\ \A k \in 1 .. Len(prog'[q]) :
             \/ k \in 1 .. Len(prog[q]) /\ prog'[q][k] = prog[q][k]
             \/ prog'[q][k] = w
    BY <1>2, <2>1, <2>2, <2>5
  <2>7. ASSUME NEW x \in Data, NEW v, NEW k \in 1 .. Len(prog'[x]), v = prog'[x][k], v.op # "nop"
        PROVE  DataOf(x, v)'
    <3>1. ASSUME NEW i \in 1 .. Len(prog[x]), v = prog[x][i]
          PROVE  DataOf(x, v)'
      <4>1. DataOf(x, v)
        BY <2>7, <3>1 DEF IInv, ProgInv
      <4> QED
        BY <2>4, <4>1
    <3>2. CASE x = q
      <4>1. prog'[q][k] = v /\ k \in 1 .. Len(prog'[q])
        BY <2>7, <3>2
      <4>2. CASE v = w
        BY <2>3, <3>2, <4>2
      <4>3. CASE v # w
        BY <2>6, <3>1, <3>2, <4>1, <4>3
      <4> QED
        BY <4>2, <4>3
    <3>3. CASE x # q
      BY <2>1, <2>5, <2>7, <3>1, <3>3
    <3> QED
      BY <3>2, <3>3
  <2>8. ASSUME NEW v, NEW k \in 1 .. Len(prog'[Mqp]), v = prog'[Mqp][k], v.op # "nop"
        PROVE  CdOf(v)'
    <3>1. prog'[Mqp] = prog[Mqp]
      BY <2>0, <2>1
    <3>2. CdOf(v)
      BY <2>8, <3>1 DEF IInv, ProgInv
    <3> QED
      BY <2>4, <3>2
  <2>9. \A x \in Data : prog'[x] \in Seq(Wqe)
    BY <2>1, <2>5, <2>6
  <2>10. ProgInv'
    BY <2>7, <2>8, ProgIs
  <2> QED
    BY <2>0, <2>1, <2>9, <2>10
<1>10. TypeOK'
  <2>1. drained' \in 0 .. Len(iq)
    BY <1>2, <1>4
  <2>2. TypeOK
    BY DEF IInv
  <2>3. DOMAIN prog' = QPs /\ prog'[Mqp] \in Seq(Wqe \union CdWqe)
    BY <1>4, <1>9, <2>2 DEF TypeOK
  <2> QED
    BY <1>4, <1>5, <1>9, <2>1, <2>2, <2>3, DrainTyped
<1>11. CountsInv' /\ MemberInv'
  <2>1. UNCHANGED <<qps, iq, wqeCount, cqeCount, scqeCount>>
    BY <1>4
  <2> QED
    BY <2>1, CountsKept DEF IInv
<1>12. StageInv'
  <2>1. \A x \in Registered : x \in QPs
    BY RegisteredAre DEF IInv, TypeOK
  <2>2. \A x \in Registered : ctx'[x] # NoCtx
    BY <1>0, <1>5, <2>1, NoCtxIsNone DEF IInv, StageInv
  <2> QED
    BY <1>0, <1>4, <2>2 DEF StageInv, Registered
<1> QED
  BY <1>7, <1>9, <1>10, <1>11, <1>12 DEF IInv

(* What writing up to v does to the contexts.                              *)
LEMMA WrittenMoves ==
  ASSUME ctx \in [QPs -> Ctx \union {NoCtx}], NEW q \in QPs, ctx[q] \in Ctx,
         NEW v \in Nat, ctx' = [ctx EXCEPT ![q].written = v]
  PROVE  /\ ctx' \in [QPs -> Ctx \union {NoCtx}]
         /\ \A x \in QPs : x # q => ctx'[x] = ctx[x]
         /\ ctx'[q] \in Ctx
         /\ ctx'[q].slots = ctx[q].slots /\ ctx'[q].wqes = ctx[q].wqes
         /\ ctx'[q].cqes = ctx[q].cqes /\ ctx'[q].scqes = ctx[q].scqes
         /\ ctx'[q].cmpl = ctx[q].cmpl /\ ctx'[q].scmpl = ctx[q].scmpl
         /\ ctx'[q].dups = ctx[q].dups /\ ctx'[q].pair = ctx[q].pair
         /\ ctx'[q].written = v
<1>1. PICK c \in Ctx : c = ctx[q]
  OBVIOUS
<1>2. ctx'[q] = [c EXCEPT !.written = v]
  BY <1>1
<1>3. ctx'[q] \in Ctx
  BY <1>2 DEF Ctx
<1>4. \A x \in QPs : x # q => ctx'[x] = ctx[x]
  OBVIOUS
<1>5. ctx' \in [QPs -> Ctx \union {NoCtx}]
  BY <1>3, <1>4
<1>6. /\ ctx'[q].slots = c.slots /\ ctx'[q].wqes = c.wqes
      /\ ctx'[q].cqes = c.cqes /\ ctx'[q].scqes = c.scqes
      /\ ctx'[q].cmpl = c.cmpl /\ ctx'[q].scmpl = c.scmpl
      /\ ctx'[q].dups = c.dups /\ ctx'[q].pair = c.pair
      /\ ctx'[q].written = v
  BY <1>2 DEF Ctx
<1> QED
  BY <1>1, <1>3, <1>4, <1>5, <1>6

(* An instruction of the management queue, with what CdOf says of it.      *)
LEMMA PostCdStep ==
  ASSUME IInv, Drain, NEW index \in Nat \union {-1}, NEW inc \in Nat,
         PostCd(drained + 1, index, inc),
         NEW q, q = iq[drained + 1].qp, NEW op \in CdOps, op = iq[drained + 1].op,
         op = "send_enable" =>
           index = WqesOf(iq, q, drained + 1) /\ inc = ctx[q].wqes,
         op \in WaitOps =>
           IF op = "wait_send" /\ HasScq(q)
             THEN index = ScqesOf(iq, q, drained + 1) - 1 /\ inc = scqeCount[q]
             ELSE index = CqesOf(iq, q, drained + 1) - 1 /\ inc = cqeCount[q]
  PROVE  IInv'
<1>0. stage = "drain" /\ drained < Len(iq)
  BY DEF Drain
<1>1. PICK d \in Nat : d = drained
  BY DEF IInv, TypeOK
<1>2. /\ d + 1 \in 1 .. Len(iq)
      /\ q \in Data /\ iq[d + 1] = Ins(op, q)
      /\ Mqp \in QPs /\ ctx[Mqp] \in Ctx /\ CtxOf(Mqp) /\ Mqp \notin Data
  BY <1>0, <1>1, Draining, PairOfPair
<1>3. /\ drained' = d + 1
      /\ UNCHANGED <<stage, qps, iq, cursor, wqeCount, cqeCount, scqeCount, recvEnables, rung>>
  BY <1>1 DEF Drain, counts
<1>4. ctx[Mqp] # NoCtx
  BY <1>2, NoCtxIsNone
<1>5. /\ ctx' \in [QPs -> Ctx \union {NoCtx}]
      /\ \A x \in QPs : x # Mqp => ctx'[x] = ctx[x]
      /\ ctx'[Mqp] \in Ctx
      /\ ctx'[Mqp].slots = ctx[Mqp].slots /\ ctx'[Mqp].wqes = ctx[Mqp].wqes
      /\ ctx'[Mqp].cqes = ctx[Mqp].cqes /\ ctx'[Mqp].scqes = ctx[Mqp].scqes
      /\ ctx'[Mqp].dups = ctx[Mqp].dups
      /\ ctx'[Mqp].written = ctx[Mqp].written + 1
  <2>1. PICK v \in Nat : v = ctx[Mqp].written + 1
    BY <1>2 DEF Ctx
  <2>2. ctx \in [QPs -> Ctx \union {NoCtx}] /\ ctx' = [ctx EXCEPT ![Mqp].written = v]
    BY <1>2, <2>1 DEF IInv, TypeOK, PostCd
  <2> QED
    BY <1>2, <2>1, <2>2, WrittenMoves
<1>6. ASSUME NEW x \in QPs
      PROVE  /\ WqesOf(iq, x, d + 1) = WqesOf(iq, x, d) + (IF x = Mqp THEN 1 ELSE 0)
             /\ CqesOf(iq, x, d + 1) = CqesOf(iq, x, d)
             /\ ScqesOf(iq, x, d + 1) = ScqesOf(iq, x, d)
  <2>1. iq[d + 1].op \in CdOps /\ iq[d + 1].qp \in Data
    BY <1>1, <1>2
  <2> QED
    BY <2>1, SumsOfCd
<1>7. CtxInv'
  <2> SUFFICES ASSUME NEW x \in QPs, ctx'[x] # NoCtx
               PROVE  CtxOf(x)'
    BY DEF CtxInv
  <2>1. ctx[x] # NoCtx /\ CtxOf(x)
    BY <1>4, <1>5 DEF IInv, CtxInv
  <2>2. ctx[x].written = WqesOf(iq, x, d)
    BY <1>0, <1>1, <2>1 DEF CtxOf
  <2>3. WqesOf(iq, x, d + 1) <= ctx[x].wqes
    BY <1>2, <2>1, RoomInBlock
  <2>4. CASE x = Mqp
    <3>1. ctx'[x].written = WqesOf(iq, x, d + 1)
      BY <1>5, <1>6, <2>2, <2>4
    <3>2. x \notin Data
      BY <1>2, <2>4
    <3>3. /\ ctx'[x].slots = ctx[x].slots /\ ctx'[x].wqes = ctx[x].wqes
          /\ ctx'[x].cqes = ctx[x].cqes /\ ctx'[x].scqes = ctx[x].scqes
          /\ ctx'[x].dups = ctx[x].dups
      BY <1>5, <2>4
    <3> QED
      <4>1. /\ ctx'[x].slots = Granted(wqeCount'[x]) /\ ctx'[x].wqes = Rounded(wqeCount'[x])
            /\ ctx'[x].cqes = cqeCount'[x] /\ ctx'[x].scqes = scqeCount'[x]
            /\ ctx'[x].dups = Granted(wqeCount'[x]) \div Rounded(wqeCount'[x])
        BY <1>3, <2>1, <3>3 DEF CtxOf
      <4>2. Fits(x)'
        BY <1>3, <2>1 DEF CtxOf, Fits
      <4>3. ctx'[x].written <= ctx'[x].wqes
        BY <2>3, <3>1, <3>3
      <4>4. ctx'[x].written = WqesOf(iq', x, drained')
        BY <1>3, <3>1
      <4> QED
        BY <3>2, <4>1, <4>2, <4>3, <4>4 DEF CtxOf, Fits
  <2>5. CASE x # Mqp
    <3>1. ctx'[x] = ctx[x] /\ WqesOf(iq, x, d + 1) = WqesOf(iq, x, d)
      BY <1>5, <1>6, <2>5, SumsType
    <3>2. ASSUME x \in Data
          PROVE  /\ ctx'[x].cmpl = CqesOf(iq, x, d + 1)
                 /\ HasScq(x) => ctx'[x].scmpl = ScqesOf(iq, x, d + 1)
                 /\ ctx'[Pair[x]] # NoCtx => ctx'[x].pair = Pair[x]
      <4>1. Pair[x] \in QPs /\ Pair[x] # Mqp
        BY <3>2, PairOfPair DEF QPs
      <4> QED
        BY <1>1, <1>5, <1>6, <2>1, <3>1, <3>2, <4>1 DEF CtxOf
    <3> QED
      BY <1>3, <2>1, <2>2, <2>3, <3>1, <3>2 DEF CtxOf, Fits
  <2> QED
    BY <2>4, <2>5
<1>8. ctx[Mqp].written % ctx[Mqp].slots \in Nat
  <2>1. PICK t \in Nat \ {0} : t = ctx[Mqp].slots
    BY <1>2, <1>4, RoomInBlock
  <2>2. PICK w \in Nat : w = ctx[Mqp].written
    BY <1>2 DEF Ctx
  <2>3. w % t \in 0 .. t - 1
    BY Division
  <2> QED
    BY <2>1, <2>2, <2>3
<1>9. /\ ProgInv'
      /\ DOMAIN prog' = QPs
      /\ \A x \in Data : prog'[x] \in Seq(Wqe)
      /\ prog'[Mqp] \in Seq(Wqe \union CdWqe)
  <2>wqe. PICK w : w = [op |-> op, ins |-> d + 1, at |-> ctx[Mqp].written % ctx[Mqp].slots,
                       size |-> 1, slave |-> q, index |-> index, inc |-> inc]
    OBVIOUS
  <2>0. DOMAIN prog = QPs /\ prog[Mqp] \in Seq(Wqe \union CdWqe)
    BY DEF IInv, TypeOK
  <2>1. /\ prog'[Mqp] = Append(prog[Mqp], w)
        /\ \A x \in QPs : x # Mqp => prog'[x] = prog[x]
        /\ DOMAIN prog' = QPs
    <3>1. prog' = [prog EXCEPT ![Mqp] = Append(@, w)]
      BY <1>1, <2>wqe DEF PostCd
    <3> QED
      BY <1>2, <2>0, <3>1
  <2>2. w \in Wqe \union CdWqe
    BY <1>2, <1>8, <2>wqe DEF CdWqe, CdOps, EnableOps
  <2>3. CdOf(w)'
    <3>1. /\ w.op = op /\ w.ins = d + 1 /\ w.slave = q /\ w.index = index /\ w.inc = inc
      BY <2>wqe
    <3>2. w.ins \in 1 .. drained'
      BY <1>3, <3>1
    <3>3. ctx'[q].wqes = ctx[q].wqes
      BY <1>2, <1>5 DEF QPs
    <3> QED
      BY <1>1, <1>2, <1>3, <3>1, <3>2, <3>3 DEF CdOf
  <2>4. /\ \A v : CdOf(v) => CdOf(v)'
        /\ \A x, v : DataOf(x, v) => DataOf(x, v)'
    <3>1. \A x \in Data : ctx'[x].wqes = ctx[x].wqes
      <4> SUFFICES ASSUME NEW x \in Data
                   PROVE  ctx'[x].wqes = ctx[x].wqes
        OBVIOUS
      <4>1. x \in QPs /\ x # Mqp
        BY <1>2 DEF QPs
      <4> QED
        BY <1>5, <4>1
    <3>2. drained' \in Nat /\ drained <= drained'
      BY <1>1, <1>3
    <3> QED
      BY <1>3, <3>1, <3>2, OldProg
  <2>5. \A x \in Data : prog[x] \in Seq(Wqe) /\ x \in QPs /\ x # Mqp
    BY <1>2 DEF IInv, TypeOK, QPs
  <2>6. /\ prog'[Mqp] \in Seq(Wqe \union CdWqe)
        /\ \A k \in 1 .. Len(prog'[Mqp]) :
             \/ k \in 1 .. Len(prog[Mqp]) /\ prog'[Mqp][k] = prog[Mqp][k]
             \/ prog'[Mqp][k] = w
    BY <2>0, <2>1, <2>2
  <2>7. ASSUME NEW v, NEW k \in 1 .. Len(prog'[Mqp]), v = prog'[Mqp][k], v.op # "nop"
        PROVE  CdOf(v)'
    <3>1. CASE v = w
      BY <2>3, <3>1
    <3>2. CASE v # w
      <4>1. k \in 1 .. Len(prog[Mqp]) /\ v = prog[Mqp][k]
        BY <2>6, <2>7, <3>2
      <4>2. CdOf(v)
        BY <2>7, <4>1 DEF IInv, ProgInv
      <4> QED
        BY <2>4, <4>2
    <3> QED
      BY <3>1, <3>2
  <2>8. ASSUME NEW x \in Data, NEW v, NEW k \in 1 .. Len(prog'[x]), v = prog'[x][k], v.op # "nop"
        PROVE  DataOf(x, v)'
    <3>1. prog'[x] = prog[x]
      BY <2>1, <2>5
    <3>2. DataOf(x, v)
      BY <2>8, <3>1 DEF IInv, ProgInv
    <3> QED
      BY <2>4, <3>2
  <2>9. \A x \in Data : prog'[x] \in Seq(Wqe)
    BY <2>1, <2>5
  <2>10. ProgInv'
    BY <2>7, <2>8, ProgIs
  <2> QED
    BY <2>1, <2>6, <2>9, <2>10
<1>10. TypeOK'
  <2>1. drained' \in 0 .. Len(iq)
    BY <1>2, <1>3
  <2>2. TypeOK
    BY DEF IInv
  <2> QED
    BY <1>3, <1>5, <1>9, <2>1, <2>2, DrainTyped
<1>11. CountsInv' /\ MemberInv'
  <2>1. UNCHANGED <<qps, iq, wqeCount, cqeCount, scqeCount>>
    BY <1>3
  <2> QED
    BY <2>1, CountsKept DEF IInv
<1>12. StageInv'
  <2>1. \A x \in Registered : x \in QPs
    BY RegisteredAre DEF IInv, TypeOK
  <2>2. \A x \in Registered : ctx'[x] # NoCtx
    BY <1>0, <1>5, <2>1, NoCtxIsNone DEF IInv, StageInv
  <2> QED
    BY <1>0, <1>3, <2>2 DEF StageInv, Registered
<1> QED
  BY <1>7, <1>9, <1>10, <1>11, <1>12 DEF IInv

LEMMA DrainStep == ASSUME IInv, Drain PROVE IInv'
<1> DEFINE i == drained + 1
<1>1. stage = "drain" /\ drained < Len(iq)
  BY DEF Drain
<1>2. PICK q, op : q = iq[i].qp /\ op = iq[i].op
  OBVIOUS
<1>3. /\ drained \in Nat /\ q \in Data /\ q \in QPs /\ ctx[q] \in Ctx /\ CtxOf(q)
      /\ op \in DataOps \union CdOps
  BY <1>1, <1>2, Draining
<1>4. CASE PostData(i)
  BY <1>4, PostDataStep
<1>5. ASSUME op \in CdOps
      PROVE  /\ ctx[q].written = WqesOf(iq, q, i)
             /\ ctx[q].cmpl = CqesOf(iq, q, i)
             /\ HasScq(q) => ctx[q].scmpl = ScqesOf(iq, q, i)
  <2>1. /\ WqesOf(iq, q, i) = WqesOf(iq, q, drained)
        /\ CqesOf(iq, q, i) = CqesOf(iq, q, drained)
        /\ ScqesOf(iq, q, i) = ScqesOf(iq, q, drained)
    <3>1. /\ WqesOf(iq, q, i) = WqesOf(iq, q, drained) + (IF q = Mqp THEN 1 ELSE 0)
          /\ CqesOf(iq, q, i) = CqesOf(iq, q, drained)
          /\ ScqesOf(iq, q, i) = ScqesOf(iq, q, drained)
      BY <1>2, <1>3, <1>5, SumsOfCd
    <3>2. q # Mqp /\ WqesOf(iq, q, drained) \in Nat
      BY <1>3, PairOfPair, SumsType
    <3> QED
      BY <3>1, <3>2
  <2> QED
    BY <1>1, <1>3, <2>1 DEF CtxOf
<1>6. /\ ctx[q].written \in Nat /\ ctx[q].wqes \in Nat
      /\ ctx[q].cqes \in Nat /\ ctx[q].cqes = cqeCount[q]
      /\ ctx[q].scqes \in Nat /\ ctx[q].scqes = scqeCount[q]
      /\ ctx[q].cmpl - 1 \in Nat \union {-1} /\ ctx[q].scmpl - 1 \in Nat \union {-1}
  BY <1>3 DEF Ctx, CtxOf
<1> HIDE DEF i
<1>7. CASE CdSendEnable(i)
  <2>1. op = "send_enable" /\ PostCd(i, ctx[q].written, ctx[q].wqes)
    BY <1>2, <1>7 DEF CdSendEnable
  <2>2. op \in CdOps /\ op \notin WaitOps
    BY <2>1 DEF CdOps, WaitOps, EnableOps
  <2>3. ctx[q].written = WqesOf(iq, q, i)
    BY <1>5, <2>2
  <2> QED
    BY <1>2, <1>6, <2>1, <2>2, <2>3, PostCdStep DEF i
<1>8. CASE CdRecvEnable(i)
  <2>1. op = "recv_enable" /\ PostCd(i, AllReceives, ctx[q].cqes)
    BY <1>2, <1>8 DEF CdRecvEnable
  <2>2. op \in CdOps /\ op \notin WaitOps /\ op # "send_enable" /\ AllReceives \in Nat
    BY <2>1 DEF CdOps, WaitOps, EnableOps, AllReceives
  <2> QED
    BY <1>2, <1>6, <2>1, <2>2, PostCdStep DEF i
<1>9. CASE CdWait(i)
  <2>1. /\ op \in WaitOps /\ ~ (op = "wait_send" /\ HasScq(q))
        /\ PostCd(i, ctx[q].cmpl - 1, ctx[q].cqes)
    BY <1>2, <1>9 DEF CdWait, WaitOps
  <2>2. op \in CdOps /\ op # "send_enable"
    BY <2>1 DEF CdOps, WaitOps
  <2>3. ctx[q].cmpl = CqesOf(iq, q, i)
    BY <1>5, <2>2
  <2> QED
    BY <1>2, <1>6, <2>1, <2>2, <2>3, PostCdStep DEF i
<1>10. CASE CdWaitSend(i)
  <2>1. /\ op = "wait_send" /\ HasScq(q)
        /\ PostCd(i, ctx[q].scmpl - 1, ctx[q].scqes)
    BY <1>2, <1>10 DEF CdWaitSend
  <2>2. op \in CdOps /\ op # "send_enable" /\ op \in WaitOps
    BY <2>1 DEF CdOps, WaitOps
  <2>3. ctx[q].scmpl = ScqesOf(iq, q, i)
    BY <1>5, <2>1, <2>2
  <2> QED
    BY <1>2, <1>6, <2>1, <2>2, <2>3, PostCdStep DEF i
<1> QED
  BY <1>4, <1>7, <1>8, <1>9, <1>10 DEF Drain, i
-----------------------------------------------------------------------------
(* finish: the queues are padded.                                          *)

(* All that fin pads with is NOPs of some size, somewhere in the ring.     *)
LEMMA PadsAreNops ==
  ASSUME NEW q, ctx[q] \in Ctx, ctx[q].slots # 0, ctx[q].written <= ctx[q].wqes
  PROVE  /\ Pads(q) \in Seq(Wqe)
         /\ \A i \in 1 .. Len(Pads(q)) : Pads(q)[i].op = "nop"
<1>1. PICK w \in Nat, t \in Nat \ {0}, rest \in Nat :
        w = ctx[q].written /\ t = ctx[q].slots /\ rest = ctx[q].wqes - ctx[q].written
  <2>1. /\ ctx[q].written \in Nat /\ ctx[q].slots \in Nat \ {0}
        /\ ctx[q].wqes - ctx[q].written \in Nat
    BY DEF Ctx
  <2> QED
    BY <2>1
<1>2. PICK p \in Nat \ {0} : p = PadSize
  BY SizesAre
<1>3. PICK full \in Nat :
        /\ full = IF rest > p THEN (rest - 1) \div p ELSE 0
        /\ rest - full * p \in Nat
  <2>1. CASE rest > p
    <3>1. PICK a \in Nat : a = rest - 1
      BY <2>1
    <3>2. PICK k \in Nat : k = a \div p /\ a - k * p \in Nat
      BY DivRest
    <3>3. k * p \in Int
      OBVIOUS
    <3> QED
      BY <2>1, <3>1, <3>2, <3>3
  <2>2. CASE ~ (rest > p)
    <3>1. 0 * p = 0
      OBVIOUS
    <3> QED
      BY <2>2, <3>1
  <2> QED
    BY <2>1, <2>2
<1>4. Pads(q) = [i \in 1 .. full + 1 |->
                   [op |-> "nop", ins |-> 0, at |-> (w + (i - 1) * p) % t,
                    size |-> IF i <= full THEN p ELSE rest - full * p]]
  BY <1>1, <1>2, <1>3 DEF Pads
<1>5. ASSUME NEW i \in 1 .. full + 1
      PROVE  [op |-> "nop", ins |-> 0, at |-> (w + (i - 1) * p) % t,
              size |-> IF i <= full THEN p ELSE rest - full * p] \in Wqe
  <2>1. (i - 1) * p \in Int
    OBVIOUS
  <2>2. PICK a \in Int : a = w + (i - 1) * p
    BY <2>1
  <2>3. a % t \in Nat
    BY Division
  <2> QED
    BY <1>3, <2>2, <2>3 DEF Wqe
<1>6. Pads(q) \in [1 .. full + 1 -> Wqe]
  BY <1>4, <1>5
<1>7. \A i \in 1 .. full + 1 : Pads(q)[i].op = "nop"
  BY <1>4
<1>8. Pads(q) \in Seq(Wqe) /\ Len(Pads(q)) = full + 1
  BY <1>6
<1> QED
  BY <1>7, <1>8

LEMMA FinQpStep == ASSUME IInv, FinQp PROVE IInv'
<1>0. PICK q : q = qps[cursor + 1]
  OBVIOUS
<1>1. /\ stage = "fin" /\ cursor' = cursor + 1
      /\ prog' = [prog EXCEPT ![q] = @ \o Pads(q)]
      /\ ctx' = [ctx EXCEPT ![q].written = ctx[q].wqes]
      /\ UNCHANGED <<stage, qps, iq, drained, wqeCount, cqeCount, scqeCount, recvEnables, rung>>
  BY <1>0 DEF FinQp, counts
<1>2. cursor + 1 \in 1 .. Len(qps) /\ q \in Registered /\ q \in QPs
  <2>1. PICK i \in Nat, n \in Nat : i = cursor + 1 /\ n = Len(qps) /\ i \in 1 .. n
    <3>1. cursor + 1 \in 1 .. Len(qps) /\ Len(qps) \in Nat
      <4>1. cursor < Len(qps)
        BY DEF FinQp
      <4> QED
        BY <4>1 DEF IInv, TypeOK
    <3> QED
      BY <3>1
  <2>2. q = qps[i] /\ qps \in Seq(QPs)
    BY <1>0, <2>1 DEF IInv, TypeOK
  <2>3. q \in QPs
    BY <2>1, <2>2
  <2> QED
    BY <2>1, <2>2, <2>3 DEF Registered
<1>3. /\ ctx \in [QPs -> Ctx \union {NoCtx}] /\ ctx[q] # NoCtx
      /\ ctx[q] \in Ctx /\ CtxOf(q) /\ ctx[q].slots # 0
  <2>1. ctx[q] # NoCtx /\ ctx[q] \in Ctx /\ CtxOf(q)
    BY <1>1, <1>2 DEF IInv, StageInv, TypeOK, CtxInv
  <2>2. ctx[q].slots # 0
    <3>1. 0 \in Nat /\ 0 <= Len(iq)
      BY DEF IInv, TypeOK
    <3>2. ctx[q].slots \in Nat \ {0}
      BY <1>2, <2>1, <3>1, RoomInBlock
    <3> QED
      BY <3>2
  <2> QED
    BY <2>1, <2>2 DEF IInv, TypeOK
<1>4. /\ ctx' \in [QPs -> Ctx \union {NoCtx}]
      /\ \A x \in QPs : x # q => ctx'[x] = ctx[x]
      /\ ctx'[q] \in Ctx
      /\ ctx'[q].slots = ctx[q].slots /\ ctx'[q].wqes = ctx[q].wqes
      /\ ctx'[q].cqes = ctx[q].cqes /\ ctx'[q].scqes = ctx[q].scqes
      /\ ctx'[q].dups = ctx[q].dups
      /\ ctx'[q].cmpl = ctx[q].cmpl /\ ctx'[q].scmpl = ctx[q].scmpl
      /\ ctx'[q].pair = ctx[q].pair
      /\ ctx'[q].written = ctx[q].wqes
  <2>1. PICK v \in Nat : v = ctx[q].wqes
    BY <1>3 DEF Ctx
  <2>2. ctx' = [ctx EXCEPT ![q].written = v]
    BY <1>1, <2>1
  <2> QED
    BY <1>2, <1>3, <2>1, <2>2, WrittenMoves
<1>5. CtxInv'
  <2> SUFFICES ASSUME NEW x \in QPs, ctx'[x] # NoCtx
               PROVE  CtxOf(x)'
    BY DEF CtxInv
  <2>1. ctx[x] # NoCtx /\ CtxOf(x) /\ ctx[x] \in Ctx
    BY <1>3, <1>4 DEF IInv, CtxInv, TypeOK
  <2>2. /\ ctx'[x].slots = ctx[x].slots /\ ctx'[x].wqes = ctx[x].wqes
        /\ ctx'[x].cqes = ctx[x].cqes /\ ctx'[x].scqes = ctx[x].scqes
        /\ ctx'[x].dups = ctx[x].dups
        /\ ctx'[x].cmpl = ctx[x].cmpl /\ ctx'[x].scmpl = ctx[x].scmpl
        /\ ctx'[x].pair = ctx[x].pair
    BY <1>4
  <2>3. ctx'[x].written <= ctx'[x].wqes
    <3>1. CASE x = q
      <4>1. ctx[q].wqes \in Nat
        BY <1>3 DEF Ctx
      <4> QED
        BY <1>4, <3>1, <4>1
    <3>2. CASE x # q
      BY <1>4, <2>1, <3>2 DEF CtxOf
    <3> QED
      BY <3>1, <3>2
  <2>4. x \in Data => (ctx'[Pair[x]] # NoCtx => ctx[Pair[x]] # NoCtx)
    BY <1>3, <1>4, PairOfPair DEF QPs
  <2>5. stage' \notin {"init", "drain"}
    BY <1>1
  <2> QED
    BY <1>1, <2>1, <2>2, <2>3, <2>4, <2>5 DEF CtxOf, Fits
<1>6. Pads(q) \in Seq(Wqe) /\ \A i \in 1 .. Len(Pads(q)) : Pads(q)[i].op = "nop"
  BY <1>3, PadsAreNops DEF CtxOf
<1>7. /\ ProgInv'
      /\ DOMAIN prog' = QPs
      /\ \A x \in Data : prog'[x] \in Seq(Wqe)
      /\ prog'[Mqp] \in Seq(Wqe \union CdWqe)
  <2>1. /\ DOMAIN prog = QPs /\ Mqp \in QPs /\ Mqp \notin Data /\ Data \subseteq QPs
        /\ \A x \in Data : prog[x] \in Seq(Wqe)
        /\ prog[Mqp] \in Seq(Wqe \union CdWqe)
        /\ q \in Data \/ q = Mqp
    BY <1>2, PairOfPair DEF IInv, TypeOK, QPs
  <2>2. /\ DOMAIN prog' = QPs
        /\ prog'[q] = prog[q] \o Pads(q)
        /\ \A x \in QPs : x # q => prog'[x] = prog[x]
    BY <1>1, <1>2, <2>1
  <2>3. PICK W : /\ W = IF q = Mqp THEN Wqe \union CdWqe ELSE Wqe
                 /\ prog[q] \in Seq(W) /\ Pads(q) \in Seq(W)
    <3>1. Pads(q) \in Seq(Wqe \union CdWqe)
      BY <1>6
    <3> QED
      BY <1>6, <2>1, <3>1
  <2>4. /\ prog'[q] \in Seq(W)
        /\ \A k \in 1 .. Len(prog'[q]) :
             \/ k \in 1 .. Len(prog[q]) /\ prog'[q][k] = prog[q][k]
             \/ prog'[q][k].op = "nop"
    <3>1. PICK m \in Nat, n \in Nat : m = Len(prog[q]) /\ n = Len(Pads(q))
      BY <2>3
    <3>2. /\ prog'[q] \in Seq(W) /\ Len(prog'[q]) = m + n
          /\ \A k \in 1 .. m : prog'[q][k] = prog[q][k]
          /\ \A k \in m + 1 .. m + n : prog'[q][k] = Pads(q)[k - m]
      <4>1. PICK a \in Seq(W), b \in Seq(W) : a = prog[q] /\ b = Pads(q)
        BY <2>3
      <4>2. prog'[q] = a \o b /\ m = Len(a) /\ n = Len(b)
        BY <2>2, <3>1, <4>1
      <4>3. /\ a \o b \in Seq(W) /\ Len(a \o b) = m + n
            /\ \A k \in 1 .. m : (a \o b)[k] = a[k]
            /\ \A k \in m + 1 .. m + n : (a \o b)[k] = b[k - m]
        BY <3>1, <4>2
      <4> QED
        BY <4>1, <4>2, <4>3
    <3>3. ASSUME NEW k \in 1 .. m + n, ~ (k \in 1 .. m)
          PROVE  prog'[q][k].op = "nop"
      <4>1. k \in m + 1 .. m + n /\ k - m \in 1 .. n
        BY <3>3
      <4> QED
        BY <1>6, <3>1, <3>2, <4>1
    <3> QED
      BY <3>1, <3>2, <3>3
  <2>5. (\A x \in Data : prog'[x] \in Seq(Wqe)) /\ prog'[Mqp] \in Seq(Wqe \union CdWqe)
    BY <2>1, <2>2, <2>3, <2>4
  <2>6. /\ \A v : CdOf(v) => CdOf(v)'
        /\ \A x, v : DataOf(x, v) => DataOf(x, v)'
    <3>1. \A x \in Data : ctx'[x].wqes = ctx[x].wqes
      BY <1>4, <2>1
    <3>2. drained' \in Nat /\ drained <= drained'
      BY <1>1 DEF IInv, TypeOK
    <3> QED
      BY <1>1, <3>1, <3>2, OldProg
  <2>7. ASSUME NEW v, NEW k \in 1 .. Len(prog'[Mqp]), v = prog'[Mqp][k], v.op # "nop"
        PROVE  CdOf(v)'
    <3>1. k \in 1 .. Len(prog[Mqp]) /\ v = prog[Mqp][k]
      BY <2>1, <2>2, <2>4, <2>7
    <3>2. CdOf(v)
      BY <2>7, <3>1 DEF IInv, ProgInv
    <3> QED
      BY <2>6, <3>2
  <2>8. ASSUME NEW x \in Data, NEW v, NEW k \in 1 .. Len(prog'[x]), v = prog'[x][k], v.op # "nop"
        PROVE  DataOf(x, v)'
    <3>1. k \in 1 .. Len(prog[x]) /\ v = prog[x][k]
      BY <2>1, <2>2, <2>4, <2>8
    <3>2. DataOf(x, v)
      BY <2>8, <3>1 DEF IInv, ProgInv
    <3> QED
      BY <2>6, <3>2
  <2>9. ProgInv'
    BY <2>7, <2>8, ProgIs
  <2> QED
    BY <2>2, <2>5, <2>9
<1>8. TypeOK'
  <2>1. cursor' \in 0 .. Len(qps)
    BY <1>1, <1>2
  <2> QED
    BY <1>1, <1>4, <1>7, <2>1 DEF IInv, TypeOK
<1>9. CountsInv' /\ MemberInv'
  <2>1. UNCHANGED <<qps, iq, wqeCount, cqeCount, scqeCount>>
    BY <1>1
  <2> QED
    BY <2>1, CountsKept DEF IInv
<1>10. StageInv'
  <2>1. \A x \in Registered : x \in QPs
    BY RegisteredAre DEF IInv, TypeOK
  <2>2. \A x \in Registered : ctx'[x] # NoCtx
    BY <1>1, <1>3, <1>4, <2>1, NoCtxIsNone DEF IInv, StageInv
  <2> QED
    BY <1>1, <2>2 DEF IInv, StageInv, Registered
<1> QED
  BY <1>5, <1>7, <1>8, <1>9, <1>10 DEF IInv
-----------------------------------------------------------------------------
(* What holds of every graph.                                              *)

LEMMA NextStep == IInv /\ [Next]_vars => IInv'
<1> SUFFICES ASSUME IInv, [Next]_vars
             PROVE  IInv'
  OBVIOUS
<1>1. CASE Building
  BY <1>1, BuildingStep
<1>2. CASE Finish \/ InitTrap \/ InitDone \/ DrainDone \/ FinishDb
  BY <1>2, StageStep
<1>3. CASE InitQp
  BY <1>3, InitQpStep
<1>4. CASE Drain
  BY <1>4, DrainStep
<1>5. CASE FinQp
  BY <1>5, FinQpStep
<1>6. CASE UNCHANGED vars
  <2>1. UNCHANGED <<stage, qps, iq, drained, cursor, wqeCount, cqeCount, scqeCount,
                    recvEnables, ctx, prog, rung>>
    BY <1>6 DEF vars, counts
  <2>2. TypeOK'
    BY <2>1 DEF IInv, TypeOK
  <2>6. CountsInv' /\ MemberInv'
    BY <2>1, CountsKept DEF IInv
  <2>3. StageInv'
    BY <2>1 DEF IInv, StageInv, Registered
  <2>4. CtxInv'
    BY <2>1 DEF IInv, CtxInv, CtxOf, Fits
  <2>5. ProgInv'
    BY <2>1 DEF IInv, ProgInv, CdOf, DataOf
  <2> QED
    BY <2>2, <2>3, <2>4, <2>5, <2>6 DEF IInv
<1> QED
  BY <1>1, <1>2, <1>3, <1>4, <1>5, <1>6 DEF Next, Finishing, Over

(* The counts of the calls, the counters of the contexts and the contents  *)
(* of the queues are at every moment the sums over the instruction list    *)
(* that they stand for.                                                    *)
THEOREM Invariance == Spec => []IInv
<1>1. Init => IInv
  BY Start
<1>2. IInv /\ [Next]_vars => IInv'
  BY NextStep
<1> QED
  BY <1>1, <1>2, PTL DEF Spec

(* The types of a graph under construction, and of what it is compiled to. *)
THEOREM TypeCorrect == Spec => []TypeOK
<1>1. IInv => TypeOK
  BY DEF IInv
<1> QED
  BY <1>1, Invariance, PTL

(* The sums of the proof are what the properties count.                    *)
LEMMA SumsAreCqes ==
  ASSUME IInv, NEW q \in Data, NEW n \in 0 .. Len(iq)
  PROVE  CqesOf(iq, q, n) = CqCqes(q, n) /\ ScqesOf(iq, q, n) = Signals(q, n)
<1>1. \A i \in 1 .. n : iq[i].qp \in Data
  <2>1. iq \in Seq(AllIns)
    BY AllInsIs DEF IInv, TypeOK
  <2>2. \A i \in 1 .. Len(iq) : iq[i] \in AllIns
    BY <2>1
  <2>3. \A i \in 1 .. n : i \in 1 .. Len(iq)
    BY <2>1
  <2> QED
    BY <2>2, <2>3 DEF AllIns
<1>2. Chosen(iq, DataOps, Feeders(q), n) =
        {i \in 1 .. n : iq[i].op \in DataOps /\ Pair[iq[i].qp] = q}
  BY <1>1 DEF Chosen, Feeders
<1>3. Chosen(iq, CmplOps, {q}, n) = {i \in 1 .. n : iq[i].op \in CmplOps /\ iq[i].qp = q}
  BY DEF Chosen
<1> QED
  BY <1>2, <1>3 DEF CqesOf, ScqesOf, CountIn, CqCqes, Arrivals, Signals

(* What a wait or an enable of the management queue carries.               *)
LEMMA CdWritten ==
  ASSUME IInv, NEW k \in Written(Mqp, WaitOps \union {"send_enable"}), NEW w, w = prog[Mqp][k]
  PROVE  CdOf(w) /\ w.ins \in 1 .. Len(iq) /\ Len(iq) \in Nat
<1>1. k \in 1 .. Len(prog[Mqp]) /\ prog[Mqp][k].op # "nop"
  BY DEF Written, WaitOps
<1>2. CdOf(w)
  BY <1>1 DEF IInv, ProgInv
<1>3. w.ins \in 1 .. drained /\ drained \in 0 .. Len(iq) /\ Len(iq) \in Nat
  BY <1>2 DEF CdOf, IInv, TypeOK
<1> QED
  BY <1>2, <1>3

(* Every wait on the receive side is for the last of the completions that  *)
(* the operations before it cause, this round and every later one.         *)
THEOREM WaitsAlwaysAim == Spec => []WaitsAim
<1>1. ASSUME IInv, NEW k \in Written(Mqp, WaitOps),
             prog[Mqp][k].op = "wait" \/ ~ HasScq(prog[Mqp][k].slave)
      PROVE  /\ prog[Mqp][k].index = CqCqes(prog[Mqp][k].slave, prog[Mqp][k].ins) - 1
             /\ prog[Mqp][k].inc = CqCqes(prog[Mqp][k].slave, Len(iq))
  <2>1. PICK w : w = prog[Mqp][k]
    OBVIOUS
  <2>2. k \in Written(Mqp, WaitOps \union {"send_enable"}) /\ w.op \in WaitOps
    BY <1>1, <2>1 DEF Written
  <2>3. CdOf(w) /\ w.ins \in 1 .. Len(iq) /\ Len(iq) \in Nat
    BY <1>1, <2>1, <2>2, CdWritten
  <2>4. /\ w.slave \in Data
        /\ w.index = CqesOf(iq, w.slave, w.ins) - 1 /\ w.inc = cqeCount[w.slave]
    BY <1>1, <2>1, <2>2, <2>3 DEF CdOf, WaitOps
  <2>5. cqeCount[w.slave] = CqesOf(iq, w.slave, Len(iq))
    BY <1>1, <2>4 DEF IInv, CountsInv
  <2>6. w.ins \in 0 .. Len(iq) /\ Len(iq) \in 0 .. Len(iq)
    BY <2>3
  <2> QED
    BY <1>1, <2>1, <2>4, <2>5, <2>6, SumsAreCqes
<1>2. IInv => WaitsAim
  BY <1>1 DEF WaitsAim
<1> QED
  BY <1>2, Invariance, PTL

(* The same of the waits for a queue's own sends, unless the graph has a   *)
(* DoublingQp: its writeCmpl signals a completion that it does not count.  *)
THEOREM SendWaitsAlwaysAim ==
  ASSUME \A q \in Data : Kind[q] # "doubling"
  PROVE  Spec => []SendWaitsAim
<1>1. ASSUME IInv, NEW k \in Written(Mqp, {"wait_send"}), HasScq(prog[Mqp][k].slave)
      PROVE  /\ prog[Mqp][k].index = Signals(prog[Mqp][k].slave, prog[Mqp][k].ins) - 1
             /\ prog[Mqp][k].inc = Signals(prog[Mqp][k].slave, Len(iq))
  <2>1. PICK w : w = prog[Mqp][k]
    OBVIOUS
  <2>2. k \in Written(Mqp, WaitOps \union {"send_enable"}) /\ w.op = "wait_send"
    BY <1>1, <2>1 DEF Written, WaitOps
  <2>3. CdOf(w) /\ w.ins \in 1 .. Len(iq) /\ Len(iq) \in Nat
    BY <1>1, <2>1, <2>2, CdWritten
  <2>4. /\ w.slave \in Data
        /\ w.index = ScqesOf(iq, w.slave, w.ins) - 1 /\ w.inc = scqeCount[w.slave]
    BY <1>1, <2>1, <2>2, <2>3 DEF CdOf, WaitOps
  <2>5. scqeCount[w.slave] = ScqesOf(iq, w.slave, Len(iq))
    <3>1. Kind[w.slave] = "ring"
      BY <1>1, <2>1, <2>4 DEF HasScq
    <3> QED
      BY <1>1, <2>4, <3>1 DEF IInv, CountsInv
  <2>6. w.ins \in 0 .. Len(iq) /\ Len(iq) \in 0 .. Len(iq)
    BY <2>3
  <2> QED
    BY <1>1, <2>1, <2>4, <2>5, <2>6, SumsAreCqes
<1>2. IInv => SendWaitsAim
  BY <1>1 DEF SendWaitsAim
<1> QED
  BY <1>2, Invariance, PTL

(* An enable releases the WQEs of its queue that were written before it    *)
(* and none of the later ones, and moves by one block each round.          *)
THEOREM EnablesAlwaysCover == Spec => []EnablesCover
<1>1. ASSUME IInv, NEW k \in Written(Mqp, {"send_enable"}), NEW e, e = prog[Mqp][k],
             NEW q, q = e.slave
      PROVE  /\ e.inc = ctx[q].wqes
             /\ \A j \in Written(q, DataOps) :
                  IF prog[q][j].ins < e.ins THEN prog[q][j].at + prog[q][j].size <= e.index
                                            ELSE e.index <= prog[q][j].at
  <2>1. k \in Written(Mqp, WaitOps \union {"send_enable"}) /\ e.op = "send_enable"
    BY <1>1 DEF Written
  <2>2. CdOf(e) /\ e.ins \in 1 .. Len(iq) /\ Len(iq) \in Nat
    BY <1>1, <2>1, CdWritten
  <2>3. /\ q \in Data /\ q \in QPs
        /\ e.inc = ctx[q].wqes /\ e.index = WqesOf(iq, q, e.ins)
        /\ iq[e.ins] = Ins("send_enable", q)
    BY <1>1, <2>1, <2>2 DEF CdOf, QPs
  <2>4. ASSUME NEW j \in Written(q, DataOps)
        PROVE  IF prog[q][j].ins < e.ins THEN prog[q][j].at + prog[q][j].size <= e.index
                                         ELSE e.index <= prog[q][j].at
    <3>1. PICK w : w = prog[q][j]
      OBVIOUS
    <3>2. DataOf(q, w)
      <4>1. j \in 1 .. Len(prog[q]) /\ w.op # "nop"
        BY <2>4, <3>1 DEF Written, DataOps
      <4> QED
        BY <1>1, <2>3, <3>1, <4>1 DEF IInv, ProgInv
    <3>3. PICK m \in Nat, n \in Nat : n + 1 = w.ins /\ m = e.ins /\ m >= 1
      <4>1. w.ins \in 1 .. drained /\ drained \in Nat
        BY <1>1, <3>2 DEF DataOf, IInv, TypeOK
      <4>2. e.ins \in Nat /\ e.ins >= 1
        BY <2>2
      <4>3. w.ins - 1 \in Nat /\ (w.ins - 1) + 1 = w.ins
        BY <4>1
      <4> QED
        BY <4>2, <4>3
    <3>4. PICK z \in {1, 2} : z = w.size /\ z = Size(w.op)
      BY <3>2 DEF DataOf, Size
    <3>5. /\ w.at = WqesOf(iq, q, n)
          /\ iq[n + 1].op = w.op /\ iq[n + 1].qp = q /\ w.op \in DataOps
      BY <3>2, <3>3 DEF DataOf, Ins
    <3>6. WqesOf(iq, q, n + 1) = WqesOf(iq, q, n) + z
      <4>1. PostAdds(iq, q, n, iq[n + 1].op, iq[n + 1].qp)
        BY <2>3, <3>5, SumsOfPost
      <4>2. PostAdds(iq, q, n, w.op, q)
        BY <3>5, <4>1
      <4> QED
        BY <3>4, <4>2 DEF PostAdds
    <3>7. CASE n + 1 < m
      <4>1. WqesOf(iq, q, n + 1) <= WqesOf(iq, q, m)
        BY <3>7, SumsGrow
      <4> QED
        BY <2>3, <3>1, <3>3, <3>4, <3>5, <3>6, <3>7, <4>1
    <3>8. CASE ~ (n + 1 < m)
      <4>1. n + 1 # m
        <5>1. iq[m].op = "send_enable"
          BY <2>3, <3>3 DEF Ins
        <5> QED
          BY <3>5, <5>1 DEF DataOps
      <4>2. WqesOf(iq, q, m) <= WqesOf(iq, q, n)
        BY <3>8, <4>1, SumsGrow
      <4> QED
        BY <2>3, <3>1, <3>3, <3>5, <3>8, <4>2
    <3> QED
      BY <3>7, <3>8
  <2> QED
    BY <2>3, <2>4
<1>2. IInv => EnablesCover
  BY <1>1 DEF EnablesCover
<1> QED
  BY <1>2, Invariance, PTL
=============================================================================
