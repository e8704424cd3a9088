-------------------------- MODULE RearmRingProofs --------------------------
(***************************************************************************)
(* For every size of the ring, every list of instructions and every pace   *)
(* of the application that Envelope admits, the ring keeps its promise.    *)
(***************************************************************************)
EXTENDS RearmRing, RingArith

-----------------------------------------------------------------------------
(* What the constants give the proofs.                                     *)

LEMMA ArmBoundNat == ArmBound \in Nat /\ PreArms \in Nat
<1>1. Dups - 2 \in Int /\ Word \in Nat \ {0}
  BY RingShape
<1>2. (Dups - 2) % Word \in 0 .. Word - 1
  BY <1>1, Division
<1> QED
  BY <1>1, <1>2 DEF ArmBound, PreArms

LEMMA EnvelopeFacts ==
  ASSUME Envelope
  PROVE  /\ Dups >= 2
         /\ Window + PreArms < Dups
         /\ ~ TailSafe => Window + PreArms + 1 < Dups
BY ArmBoundNat, RingShape DEF Envelope

LEMMA ZeroBlock == 0 % Dups = 0
<1>1. (Dups * 0 + 0) % Dups = 0
  BY RingShape, Remainder
<1> QED
  BY <1>1, RingShape

LEMMA BlockRange == ASSUME NEW n \in Int PROVE n % Dups \in Blocks
BY RingShape, Division DEF Blocks

(* The block after that of round n is that of round n + 1. *)
LEMMA BlockAfter == ASSUME NEW n \in Int PROVE ((n % Dups) + 1) % Dups = (n + 1) % Dups
<1>1. Dups \in Nat \ {0}
  BY RingShape
<1> QED
  BY <1>1, NextBlock, Zenon

(* Fewer than Dups rounds apart means different blocks. *)
LEMMA BlocksApart ==
  ASSUME NEW m \in Int, NEW n \in Int, m < n, n - m < Dups
  PROVE  m % Dups # n % Dups
<1>1. Dups \in Nat \ {0}
  BY RingShape
<1> QED
  BY <1>1, DifferentBlocks, Zenon

(* The constructor's counter is that of round 0. *)
LEMMA FirstIndex ==
  ASSUME NEW t \in Tasks
  PROVE  Unrolled!Index(t, 0) = Base[t]
<1>1. Base[t] \in 0 .. Word - 1 /\ Inc[t] \in Nat
  BY RingShape
<1>2. (Word * 0 + Base[t]) % Word = Base[t]
  BY <1>1, RingShape, Remainder
<1>3. Word * 0 + Base[t] = Base[t] + 0 * Inc[t]
  BY <1>1, RingShape
<1> QED
  BY <1>2, <1>3 DEF Unrolled!Index

(* One re-arming turns the counter of a round into that of the next. *)
LEMMA NextIndex ==
  ASSUME NEW t \in Tasks, NEW n \in Nat
  PROVE  (Unrolled!Index(t, n) + Inc[t]) % Word = Unrolled!Index(t, n + 1)
<1>1. Base[t] \in Int /\ Inc[t] \in Int /\ n \in Int /\ Word \in Nat \ {0}
  BY RingShape
<1> QED
  BY <1>1, NextRoundIndex DEF Unrolled!Index
-----------------------------------------------------------------------------
(* Type correctness needs no assumption on the pace of the application.    *)

LEMMA TypeInit == Init => TypeOK
<1> SUFFICES ASSUME Init
             PROVE  TypeOK
  OBVIOUS
<1>1. 0 \in 0 .. Word - 1 /\ 0 \in Blocks /\ 0 \in 0 .. Wqes
  BY RingShape DEF Blocks
<1>2. \A t \in Tasks : Base[t] \in 0 .. Word - 1
  BY RingShape
<1>3. counter \in [Blocks -> [Tasks -> 0 .. Word - 1]]
  BY <1>1, <1>2 DEF Init
<1>4. /\ phase \in Blocks /\ slot \in 0 .. Wqes /\ dups \in Nat \ {0}
      /\ rung \in Nat /\ polled \in Nat /\ round \in Nat
  BY <1>1 DEF Init, Unrolled!Init
<1>5. pc \in {"copy", "loop", "arm", "run", "due"} /\ todo \subseteq Tasks
  BY DEF Init
<1>6. ready \in BOOLEAN
  BY DEF Init
<1> QED
  BY <1>3, <1>4, <1>5, <1>6 DEF TypeOK

LEMMA NextPhase == ASSUME TypeOK PROVE (phase + 1) % Dups \in Blocks
<1>1. phase + 1 \in Int
  BY RingShape DEF TypeOK, Blocks
<1> QED
  BY <1>1, BlockRange

LEMMA TypeStep == TypeOK /\ [Next]_vars => TypeOK'
<1> SUFFICES ASSUME TypeOK, [Next]_vars
             PROVE  TypeOK'
  OBVIOUS
<1> USE DEF TypeOK
<1>1. CASE FinCopy
  BY <1>1, RingShape DEF FinCopy, hwVars, Blocks
<1>2. CASE FinLoop
  BY <1>2 DEF FinLoop, hwVars
<1>3. CASE FinRing
  BY <1>3 DEF FinRing, hwVars
<1>4. CASE Rearm
  BY <1>4 DEF Rearm, hwVars
<1>5. ASSUME NEW t \in Tasks, ArmTask(t)
      PROVE  TypeOK'
  <2>1. (phase + 1) % Dups \in Blocks
    BY NextPhase
  <2>2. counter[phase][t] + Inc[t] \in Int /\ Word \in Nat \ {0}
    BY RingShape
  <2>3. (counter[phase][t] + Inc[t]) % Word \in 0 .. Word - 1
    BY <2>2, Division
  <2>4. counter' \in [Blocks -> [Tasks -> 0 .. Word - 1]]
    BY <1>5, <2>1, <2>3 DEF ArmTask
  <2> QED
    BY <1>5, <2>4 DEF ArmTask, hwVars
<1>6. CASE ArmEnd
  <2>1. (phase + 1) % Dups \in Blocks
    BY NextPhase
  <2> QED
    BY <1>6, <2>1 DEF ArmEnd, hwVars
<1>7. CASE Db
  BY <1>7 DEF Db, hwVars
<1>8. CASE Poll
  BY <1>8 DEF Poll, hwVars
<1>9. CASE HwExec
  BY <1>9, RingShape DEF HwExec, hostVars
<1>10. CASE HwNextRound
  BY <1>10, RingShape DEF HwNextRound, hostVars
<1>11. CASE UNCHANGED vars
  BY <1>11 DEF vars, hostVars, hwVars
<1> QED
  BY <1>1, <1>2, <1>3, <1>4, <1>5, <1>6, <1>7, <1>8, <1>9, <1>10, <1>11
     DEF Next, Idle

(* Every variable keeps its type: the phase never leaves the ring and no   *)
(* counter leaves its word (rearm and ValRearmTasks::exec in dv_mgr.cc).   *)
THEOREM TypeCorrect == Spec => []TypeOK
BY TypeInit, TypeStep, PTL DEF Spec
-----------------------------------------------------------------------------
(* The host: phase counts the rounds that have been armed.                 *)

LEMMA ArmedNat == TypeOK /\ HostInv => Armed \in Nat
BY ArmBoundNat DEF TypeOK, HostInv, Armed

LEMMA HostInit == Init => HostInv
<1> SUFFICES ASSUME Init
             PROVE  HostInv
  OBVIOUS
<1>1. Armed = 0
  BY DEF Init, Armed
<1>2. counter[0] = [t \in Tasks |-> Base[t]]
  BY RingShape DEF Init, Blocks
<1>3. counter[0] = Base
  BY <1>2, RingShape
<1> QED
  BY <1>1, <1>3, ZeroBlock, ArmBoundNat DEF Init, HostInv

(* What a step does to the count of armed rounds. *)
LEMMA ArmedStep ==
  ASSUME TypeOK, HostInv, [Next]_vars
  PROVE  Armed' = IF ArmEnd THEN Armed + 1 ELSE Armed
<1> USE DEF TypeOK, HostInv, Armed
<1>0. PreArms \in Nat /\ ArmBound \in Nat
  BY ArmBoundNat
<1>1. CASE FinCopy \/ FinLoop \/ Rearm \/ HwExec \/ HwNextRound \/ Poll \/ UNCHANGED vars
  BY <1>1 DEF FinCopy, FinLoop, Rearm, HwExec, HwNextRound, Poll, ArmEnd,
              vars, hostVars, hwVars
<1>2. CASE FinRing
  BY <1>0, <1>2 DEF FinRing, ArmEnd, PreArms
<1>3. ASSUME NEW t \in Tasks, ArmTask(t)
      PROVE  Armed' = Armed /\ ~ ArmEnd
  BY <1>3 DEF ArmTask, ArmEnd
<1>4. CASE ArmEnd
  BY <1>0, <1>4 DEF ArmEnd
<1>5. CASE Db
  BY <1>0, <1>5 DEF Db, ArmEnd
<1> QED
  BY <1>1, <1>2, <1>3, <1>4, <1>5 DEF Next, Idle

LEMMA HostStep ==
  ASSUME TypeOK, HostInv, [Next]_vars
  PROVE  HostInv'
<1>1. PreArms \in Nat /\ ArmBound \in Nat /\ Armed \in Nat
  BY ArmBoundNat, ArmedNat
<1>2. phase' = Armed' % Dups
  <2>1. CASE ArmEnd
    <3>1. phase' = ((Armed % Dups) + 1) % Dups
      BY <2>1 DEF ArmEnd, HostInv
    <3>2. Armed' = Armed + 1
      BY <2>1, ArmedStep
    <3>3. ((Armed % Dups) + 1) % Dups = (Armed + 1) % Dups
      BY <1>1, BlockAfter
    <3> QED
      BY <3>1, <3>2, <3>3
  <2>2. CASE ~ ArmEnd
    <3>1. phase' = phase
      BY <2>2 DEF Next, FinCopy, FinLoop, FinRing, Rearm, ArmTask, Db, Poll,
                  HwExec, HwNextRound, Idle, vars, hostVars
    <3>2. Armed' = Armed
      BY <2>2, ArmedStep
    <3> QED
      BY <3>1, <3>2 DEF HostInv
  <2> QED
    BY <2>1, <2>2
<1> DEFINE Rest ==
      /\ pc = "copy" => dups = 1 /\ counter[0] = Base
      /\ pc # "arm" => todo = {}
      /\ pc \in {"copy", "loop"} => ~ ready
      /\ pc \in {"run", "due"} => ready
      /\ (pc = "due" \/ (pc = "arm" /\ ready)) => rung >= 1
      /\ ~ ready => rung = 0 /\ dups <= PreArms + 1
      /\ (pc = "arm" /\ ~ ready) => dups <= PreArms
<1>3. Rest'
  <2> USE DEF TypeOK, HostInv
  <2>1. CASE FinCopy
    BY <1>1, <2>1 DEF FinCopy
  <2>2. CASE FinLoop
    BY <1>1, <2>2 DEF FinLoop, PreArms
  <2>3. CASE FinRing
    BY <2>3 DEF FinRing
  <2>4. CASE Rearm
    BY <2>4 DEF Rearm
  <2>5. ASSUME NEW t \in Tasks, ArmTask(t)
        PROVE  Rest'
    BY <1>1, <2>5 DEF ArmTask
  <2>6. CASE ArmEnd
    BY <1>1, <2>6 DEF ArmEnd
  <2>7. CASE Db
    BY <2>7 DEF Db
  <2>8. CASE Poll \/ HwExec \/ HwNextRound \/ UNCHANGED vars
    BY <2>8 DEF Poll, HwExec, HwNextRound, vars, hostVars
  <2> QED
    BY <2>1, <2>2, <2>3, <2>4, <2>5, <2>6, <2>7, <2>8 DEF Next, Idle
<1> QED
  BY <1>2, <1>3 DEF HostInv
-----------------------------------------------------------------------------
(* The device and the application.                                         *)

LEMMA DeviceInit == Init => DeviceInv
BY RingShape DEF Init, DeviceInv, Unrolled!Init

LEMMA DeviceStep ==
  ASSUME TypeOK, HostInv, DeviceInv, [Next]_vars
  PROVE  DeviceInv'
<1> USE RingShape DEF TypeOK, HostInv, DeviceInv
<1>1. CASE FinCopy \/ FinLoop \/ FinRing \/ Rearm
  BY <1>1 DEF FinCopy, FinLoop, FinRing, Rearm, hwVars
<1>2. ASSUME NEW t \in Tasks, ArmTask(t)
      PROVE  DeviceInv'
  BY <1>2 DEF ArmTask, hwVars
<1>3. CASE ArmEnd
  BY <1>3 DEF ArmEnd, hwVars
<1>4. CASE Db
  BY <1>4 DEF Db, hwVars
<1>5. CASE Poll
  BY <1>5 DEF Poll, hwVars
<1>6. CASE HwExec
  BY <1>6 DEF HwExec, hostVars, Granted
<1>7. CASE HwNextRound
  BY <1>7 DEF HwNextRound, hostVars
<1>8. CASE UNCHANGED vars
  BY <1>8 DEF vars, hostVars, hwVars
<1> QED
  BY <1>1, <1>2, <1>3, <1>4, <1>5, <1>6, <1>7, <1>8 DEF Next, Idle
-----------------------------------------------------------------------------
(* The blocks: each of the last Dups rounds that were armed is in the ring *)
(* with its own counters, the round being armed as far as it has got.      *)

LEMMA ArmedInit == Init => ArmedInv
BY DEF Init, ArmedInv

(* A step that stores nothing and arms nothing keeps the blocks as they    *)
(* are, whoever takes it.                                                  *)
LEMMA NoStore ==
  ASSUME TypeOK, HostInv, ArmedInv, pc # "copy",
         counter' = counter, Armed' = Armed,
         pc' = "arm" => (pc = "arm" /\ todo' = todo) \/ todo' = Tasks,
         pc = "arm" => pc' = "arm"
  PROVE  ArmedInv'
<1>1. Armed \in Nat
  BY ArmedNat
<1>2. \A n \in 0 .. Armed : InRing(n)' => InRing(n)
  BY <1>1, RingShape DEF InRing
<1>3. \A n \in Nat : \A t \in Tasks : Holds(n, t)' <=> Holds(n, t)
  BY DEF Holds
<1>4. \A n \in 0 .. Armed : InRing(n)' => \A t \in Tasks : Holds(n, t)'
  BY <1>1, <1>2, <1>3 DEF ArmedInv
<1>5. pc' = "arm" => \A t \in Tasks \ todo' : Holds(Armed + 1, t)'
  BY <1>1, <1>3 DEF ArmedInv
<1> QED
  BY <1>4, <1>5 DEF ArmedInv, Holds

(* fin's copy gives every block, block 0 among them, the first round.      *)
LEMMA CopyArms ==
  ASSUME TypeOK, HostInv, FinCopy, Armed' = Armed
  PROVE  ArmedInv'
<1>1. Armed = 0 /\ pc' = "loop"
  BY DEF FinCopy, HostInv, Armed
<1>2. \A t \in Tasks : Holds(0, t)'
  <2> TAKE t \in Tasks
  <2>1. counter'[0 % Dups][t] = Base[t]
    BY ZeroBlock, RingShape DEF FinCopy, HostInv, Blocks
  <2> QED
    BY <2>1, FirstIndex DEF Holds
<1>3. \A n \in 0 .. 0 : \A t \in Tasks : Holds(n, t)'
  BY <1>2
<1> QED
  BY <1>1, <1>3 DEF ArmedInv

(* One store completes one counter of the round being armed and touches    *)
(* that round's block only.                                                *)
LEMMA StoreArms ==
  ASSUME TypeOK, HostInv, ArmedInv, Dups >= 2,
         NEW t \in Tasks, ArmTask(t), Armed' = Armed
  PROVE  ArmedInv'
<1>1. Armed \in Nat /\ pc = "arm" /\ pc' = "arm" /\ todo' = todo \ {t}
  BY ArmedNat DEF ArmTask
<1>2. PICK b \in Blocks : b = (Armed + 1) % Dups
  BY <1>1, BlockRange
<1>3. (phase + 1) % Dups = b
  <2>1. phase = Armed % Dups /\ Armed \in Int
    BY <1>1 DEF HostInv
  <2> QED
    BY <1>2, <2>1, BlockAfter
<1>4. counter' = [counter EXCEPT ![b][t] = (counter[phase][t] + Inc[t]) % Word]
  BY <1>3 DEF ArmTask
<1>5. \A c \in Blocks : \A s \in Tasks :
        (c # b \/ s # t) => counter'[c][s] = counter[c][s]
  BY <1>2, <1>4 DEF TypeOK
<1>6. counter'[b][t] = (counter[phase][t] + Inc[t]) % Word
  BY <1>2, <1>4 DEF TypeOK
<1>7. Holds(Armed, t)
  <2>1. InRing(Armed)
    BY <1>1, RingShape DEF InRing
  <2> QED
    BY <1>1, <2>1 DEF ArmedInv
<1>8. Holds(Armed + 1, t)'
  <2>1. counter[phase][t] = Unrolled!Index(t, Armed)
    BY <1>7 DEF Holds, HostInv
  <2>2. counter'[b][t] = Unrolled!Index(t, Armed + 1)
    BY <1>1, <1>6, <2>1, NextIndex
  <2> QED
    BY <1>2, <2>2 DEF Holds
<1>9. \A s \in Tasks \ todo' : Holds(Armed + 1, s)'
  <2> TAKE s \in Tasks \ todo'
  <2>1. CASE s = t
    BY <1>8, <2>1
  <2>2. CASE s # t
    <3>1. Holds(Armed + 1, s)
      BY <1>1, <2>2 DEF ArmedInv
    <3> QED
      BY <1>2, <1>5, <2>2, <3>1 DEF Holds
  <2> QED
    BY <2>1, <2>2
<1>10. \A n \in 0 .. Armed : InRing(n)' => \A s \in Tasks : Holds(n, s)'
  <2> SUFFICES ASSUME NEW n \in 0 .. Armed, InRing(n)', NEW s \in Tasks
               PROVE  Holds(n, s)'
    OBVIOUS
  <2>1. n \in Int /\ n < Armed + 1 /\ Armed + 1 - n < Dups
    BY <1>1, RingShape DEF InRing
  <2>2. n % Dups # b
    <3>1. PICK m \in Int : m = Armed + 1
      BY <1>1
    <3>2. n < m /\ m - n < Dups
      BY <1>1, <2>1, <3>1, RingShape
    <3>3. n % Dups # m % Dups
      BY <2>1, <3>2, BlocksApart
    <3> QED
      BY <1>2, <3>1, <3>3
  <2>3. InRing(n)
    BY <1>1 DEF InRing
  <2>4. Holds(n, s)
    BY <1>1, <2>3 DEF ArmedInv
  <2>5. n % Dups \in Blocks
    BY <2>1, BlockRange
  <2> QED
    BY <1>5, <2>2, <2>4, <2>5 DEF Holds
<1> QED
  BY <1>1, <1>9, <1>10 DEF ArmedInv, Holds

(* When the stores are done the round counts as armed.                     *)
LEMMA EndArms ==
  ASSUME TypeOK, HostInv, ArmedInv, ArmEnd, Armed' = Armed + 1
  PROVE  ArmedInv'
<1>1. Armed \in Nat /\ pc = "arm" /\ pc' # "arm" /\ counter' = counter
  BY ArmedNat DEF ArmEnd
<1>2. \A t \in Tasks : Holds(Armed + 1, t)
  BY <1>1 DEF ArmedInv, ArmEnd
<1>3. \A n \in 0 .. Armed + 1 : InRing(n)' => n = Armed + 1 \/ (n \in 0 .. Armed /\ InRing(n))
  BY <1>1, RingShape DEF InRing
<1>4. \A n \in 0 .. Armed + 1 : InRing(n)' => \A t \in Tasks : Holds(n, t)
  BY <1>1, <1>2, <1>3 DEF ArmedInv
<1> QED
  BY <1>1, <1>4 DEF ArmedInv, Holds

LEMMA ArmedInvStep ==
  ASSUME TypeOK, HostInv, ArmedInv, Dups >= 2, [Next]_vars
  PROVE  ArmedInv'
<1>1. Armed' = IF ArmEnd THEN Armed + 1 ELSE Armed
  BY ArmedStep
<1>2. CASE FinCopy
  BY <1>1, <1>2, CopyArms DEF FinCopy, ArmEnd
<1>3. ASSUME NEW t \in Tasks, ArmTask(t)
      PROVE  ArmedInv'
  <2>1. Armed' = Armed
    <3>1. ~ ArmEnd
      BY <1>3 DEF ArmTask, ArmEnd
    <3> QED
      BY <1>1, <3>1
  <2> QED
    BY <1>3, <2>1, StoreArms
<1>4. CASE ArmEnd
  BY <1>1, <1>4, EndArms
<1>5. CASE FinLoop \/ FinRing \/ Rearm \/ Db
  BY <1>1, <1>5, NoStore DEF FinLoop, FinRing, Rearm, Db, ArmEnd
<1>6. CASE Poll
  BY <1>1, <1>6, NoStore DEF Poll, ArmEnd
<1>7. CASE (HwExec \/ HwNextRound \/ UNCHANGED vars) /\ ~ ArmEnd
  <2>1. counter' = counter /\ pc' = pc /\ todo' = todo
    BY <1>7 DEF HwExec, HwNextRound, vars, hostVars
  <2>2. CASE pc = "copy"
    BY <2>1, <2>2 DEF ArmedInv
  <2>3. CASE pc # "copy"
    BY <1>1, <1>7, <2>1, <2>3, NoStore
  <2> QED
    BY <2>2, <2>3
<1> QED
  BY <1>2, <1>3, <1>4, <1>5, <1>6, <1>7 DEF Next, Idle
-----------------------------------------------------------------------------
(* The inductive invariant, and what follows from it.                      *)

LEMMA Inductive ==
  ASSUME Envelope
  PROVE  /\ Init => IInv
         /\ IInv /\ [Next]_vars => IInv'
<1>1. Init => IInv
  BY TypeInit, HostInit, DeviceInit, ArmedInit DEF IInv
<1>2. IInv /\ [Next]_vars => IInv'
  BY EnvelopeFacts, TypeStep, HostStep, DeviceStep, ArmedInvStep DEF IInv
<1> QED
  BY <1>1, <1>2

THEOREM Invariance == ASSUME Envelope PROVE Spec => []IInv
BY Inductive, PTL DEF Spec

(* A round with a re-armed instruction outstanding is still in the ring:   *)
(* this is where the application's window and the place of the completion  *)
(* it polls come in.                                                       *)
LEMMA PendingInRing ==
  ASSUME Envelope, IInv, NEW n \in Nat, NEW t \in Tasks, Pending(n, t)
  PROVE  ready /\ pc # "copy" /\ n \in 0 .. Armed /\ InRing(n)
<1> USE DEF IInv, TypeOK, HostInv, DeviceInv
<1>1. PreArms \in Nat /\ Armed \in Nat
  BY ArmBoundNat, ArmedNat
<1>2. ready /\ pc # "copy"
  BY DEF Pending, Granted
<1>3. n <= Armed
  BY <1>1, <1>2, RingShape DEF Pending, Granted, Armed
<1>4. Armed + (IF pc = "arm" THEN 1 ELSE 0) <= PreArms + polled + Window
  BY <1>1, <1>2, RingShape DEF Armed
<1>5. Window + PreArms < Dups /\ (~ TailSafe => Window + PreArms + 1 < Dups)
  BY EnvelopeFacts
<1>6. n >= round /\ (n = round => t >= slot)
  BY DEF Pending
<1>7. CASE polled <= round
  BY <1>1, <1>2, <1>3, <1>4, <1>5, <1>6, <1>7, RingShape DEF InRing
<1>8. CASE polled = round + 1 /\ ~ TailSafe
  BY <1>1, <1>2, <1>3, <1>4, <1>5, <1>6, <1>8, RingShape DEF InRing
<1>9. CASE polled = round + 1 /\ slot >= PollSlot /\ TailSafe
  <2>1. t < PollSlot /\ t \in Int
    BY <1>9, RingShape DEF TailSafe
  <2>2. n > round
    BY <1>6, <1>9, <2>1, RingShape
  <2> QED
    BY <1>1, <1>2, <1>3, <1>4, <1>5, <1>9, <2>2, RingShape DEF InRing
<1> QED
  BY <1>7, <1>8, <1>9

LEMMA PendingHolds ==
  ASSUME Envelope, IInv, NEW n \in Nat, NEW t \in Tasks, Pending(n, t)
  PROVE  Holds(n, t)
BY PendingInRing DEF IInv, ArmedInv

LEMMA RungArmedHolds == ASSUME Envelope PROVE IInv => RungArmed
BY PendingHolds DEF RungArmed, IInv, TypeOK

(* Whatever the device may fetch carries the counter of its own round, for *)
(* every ring, list and pace that Envelope admits (rearm and db of         *)
(* dv_mgr.cc).                                                             *)
THEOREM FetchesArmed == ASSUME Envelope PROVE Spec => []RungArmed
BY RungArmedHolds, Invariance, PTL

(* rearm() never changes the counter of an instruction the device may be   *)
(* fetching, so that the missing lock does no harm (dv_mgr.cc).            *)
THEOREM NothingLiveOverwritten == ASSUME Envelope PROVE Spec => NoLiveOverwrite
<1> DEFINE Safe ==
      \A n \in 0 .. rung : \A t \in Tasks :
         Pending(n, t) => counter'[n % Dups][t] = counter[n % Dups][t]
<1>1. IInv' => RungArmed'
  BY RungArmedHolds, PTL
<1>2. IInv /\ IInv' /\ [Next]_vars => [Safe]_vars
  <2> SUFFICES ASSUME IInv, IInv', [Next]_vars,
                      NEW n \in 0 .. rung, NEW t \in Tasks, Pending(n, t)
               PROVE  counter'[n % Dups][t] = counter[n % Dups][t]
    OBVIOUS
  <2>1. n \in Nat
    BY DEF IInv, TypeOK
  <2>2. Holds(n, t)
    BY <2>1, PendingHolds
  <2>3. CASE counter' = counter
    BY <2>3
  <2>4. ASSUME NEW s \in Tasks, ArmTask(s)
        PROVE  counter'[n % Dups][t] = counter[n % Dups][t]
    <3>1. Pending(n, t)'
      BY <2>4 DEF ArmTask, hwVars, Pending, Granted
    <3>2. n \in 0 .. rung'
      BY <2>4 DEF ArmTask
    <3>3. Holds(n, t)'
      BY <1>1, <3>1, <3>2 DEF RungArmed
    <3> QED
      BY <2>2, <3>3 DEF Holds
  <2>5. CASE FinCopy
    BY <2>1, <2>5, PendingInRing DEF FinCopy
  <2> QED
    BY <2>3, <2>4, <2>5
       DEF Next, FinLoop, FinRing, Rearm, ArmEnd, Db, Poll, HwExec,
           HwNextRound, Idle, vars, hostVars
<1> QED
  BY <1>2, Invariance, PTL DEF Spec, NoLiveOverwrite

(* The ring implements the list written out once per round: the device     *)
(* executes, in order, every instruction with the counter of its round     *)
(* (the purpose of rearm in dv_mgr.cc).                                    *)
THEOREM RingKeepsPromise == ASSUME Envelope PROVE Spec => KeepsPromise
<1>1. Init => Unrolled!Init
  BY DEF Init
<1>2. IInv /\ [Next]_vars => [Unrolled!Next]_<<round, slot, sent>>
  <2> SUFFICES ASSUME IInv, [Next]_vars
               PROVE  Unrolled!Next \/ UNCHANGED <<round, slot, sent>>
    OBVIOUS
  <2>1. CASE HwExec
    <3>1. /\ slot < Wqes /\ slot' = slot + 1 /\ round' = round
          /\ round \in Nat /\ slot \in Nat
      BY <2>1, RingShape DEF HwExec, IInv, TypeOK
    <3>2. slot \in Tasks => counter[round % Dups][slot] = Unrolled!Index(slot, round)
      <4> SUFFICES ASSUME slot \in Tasks
                   PROVE  Holds(round, slot)
        BY DEF Holds
      <4>1. Pending(round, slot)
        BY <2>1, <3>1 DEF HwExec, Pending
      <4> QED
        BY <3>1, <4>1, PendingHolds
    <3> QED
      BY <2>1, <3>1, <3>2 DEF HwExec, Unrolled!Next, Unrolled!Exec
  <2>2. CASE HwNextRound
    BY <2>2 DEF HwNextRound, Unrolled!Next, Unrolled!NextRound
  <2>3. CASE UNCHANGED hwVars
    BY <2>3 DEF hwVars
  <2> QED
    BY <2>1, <2>2, <2>3
       DEF Next, FinCopy, FinLoop, FinRing, Rearm, ArmTask, ArmEnd, Db, Poll,
           Idle, vars
<1> QED
  BY <1>1, <1>2, Invariance, PTL DEF Spec, KeepsPromise, Unrolled!Spec, Unrolled!uvars
=============================================================================
