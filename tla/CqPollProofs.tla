---------------------------- MODULE CqPollProofs ----------------------------
(***************************************************************************)
(* For every size of the completion ring and every number of completions   *)
(* of a round that fits in it, poll never reports a round too early,       *)
(* however far the device runs ahead.                                      *)
(***************************************************************************)
EXTENDS CqPoll, RingArith

-----------------------------------------------------------------------------
(* What the constants give the proofs.                                     *)

LEMMA WordIsLaps == \E k \in Nat : Word = (2 * CqeCnt) * k
<1>1. PICK c \in Nat \ {0} : c = 2 * CqeCnt
  BY CqShape
<1>2. PICK k \in Int : Word = c * k + (Word % c)
  <2>1. Word \in Int
    BY CqShape
  <2>2. Word \div c \in Int /\ Word = c * (Word \div c) + (Word % c)
    BY <2>1, Division
  <2> QED
    BY <2>2
<1>3. Word = c * k /\ Word >= 1
  BY <1>1, <1>2, CqShape
<1>4. k >= 0
  <2> SUFFICES ASSUME k <= -1
               PROVE  FALSE
    BY <1>2
  <2>1. c * (-k) >= c
    BY <1>1, MultipleIsFar
  <2>2. c * (-k) = - (c * k)
    BY <1>1, <1>2
  <2> QED
    BY <1>1, <1>3, <2>1, <2>2
<1> QED
  BY <1>1, <1>3, <1>4

(* poll_cnt wraps without moving the slot or the parity.                   *)
LEMMA Wraps ==
  ASSUME NEW n \in Int
  PROVE  (n % Word) % CqeCnt = n % CqeCnt /\ Lap(n % Word) = Lap(n)
BY WordIsLaps, WrappedCount, CqShape DEF Lap

LEMMA SlotRange == ASSUME NEW n \in Int PROVE n % CqeCnt \in Slots
BY Division, CqShape DEF Slots

LEMMA LapRange == ASSUME NEW n \in Int PROVE Lap(n) \in {0, 1}
<1>1. n \div CqeCnt \in Int
  BY Division, CqShape
<1> QED
  BY <1>1 DEF Lap

(* An entry of the lap before has the other owner bit.                     *)
LEMMA OtherLap ==
  ASSUME NEW n \in Int
  PROVE  (n - CqeCnt) % CqeCnt = n % CqeCnt /\ Lap(n - CqeCnt) # Lap(n)
<1>1. CqeCnt \in Nat \ {0}
  BY CqShape
<1>2. (n - CqeCnt) % CqeCnt = n % CqeCnt
  BY <1>1, LapBefore
<1>3. (n - CqeCnt) \div CqeCnt = (n \div CqeCnt) - 1
  BY <1>1, LapBefore
<1>4. PICK q \in Int : q = n \div CqeCnt
  BY <1>1, Division
<1>5. (q - 1) % 2 # q % 2
  OBVIOUS
<1> QED
  BY <1>2, <1>3, <1>4, <1>5 DEF Lap

LEMMA AwaitedNat == TypeOK => Awaited \in Nat /\ Awaited >= polled * Cqes
<1> SUFFICES ASSUME TypeOK
             PROVE  Awaited \in Nat /\ Awaited >= polled * Cqes
  OBVIOUS
<1>1. polled \in Nat /\ Cqes \in Nat /\ Cqes >= 1
  BY CqShape DEF TypeOK
<1>2. polled * Cqes \in Nat /\ (polled + 1) * Cqes = polled * Cqes + Cqes
  BY <1>1
<1> QED
  BY <1>1, <1>2 DEF Awaited
-----------------------------------------------------------------------------
(* Types.                                                                  *)

LEMMA TypeInit == Init => TypeOK
<1> SUFFICES ASSUME Init
             PROVE  TypeOK
  OBVIOUS
<1>1. entry \in [Slots -> [op : {"invalid", "done"}, owner : {0, 1}]]
  BY DEF Init, Blank
<1>2. curCqe \in Slots
  BY SlotRange, CqShape DEF Init
<1>3. Cqes - 1 \in 0 .. Word - 1
  <2>1. PICK k \in Nat : Word = (2 * CqeCnt) * k
    BY WordIsLaps
  <2>2. k >= 1
    BY <2>1, CqShape
  <2>3. (2 * CqeCnt) * k >= 2 * CqeCnt
    BY <2>2, CqShape, MultipleIsFar
  <2> QED
    BY <2>1, <2>3, CqShape
<1> QED
  BY <1>1, <1>2, <1>3 DEF Init, TypeOK

LEMMA TypeStep == TypeOK /\ [Next]_vars => TypeOK'
<1> SUFFICES ASSUME TypeOK, [Next]_vars
             PROVE  TypeOK'
  OBVIOUS
<1> USE DEF TypeOK
<1>1. CASE Ring
  BY <1>1 DEF Ring, hwVars, appVars
<1>2. CASE HwWrite
  <2>1. written % CqeCnt \in Slots /\ Lap(written) \in {0, 1}
    BY SlotRange, LapRange
  <2>2. entry' \in [Slots -> [op : {"invalid", "done"}, owner : {0, 1}]]
    BY <1>2, <2>1 DEF HwWrite
  <2> QED
    BY <1>2, <2>2 DEF HwWrite, appVars
<1>3. CASE PollOpcode
  BY <1>3 DEF PollOpcode, hwVars
<1>4. CASE PollDone
  <2>1. pollCnt + Cqes \in Int /\ Word \in Nat \ {0}
    BY CqShape
  <2>2. pollCnt' \in 0 .. Word - 1
    BY <1>4, <2>1, Division DEF PollDone
  <2>3. curCqe' \in Slots
    BY <1>4, <2>2, SlotRange DEF PollDone
  <2> QED
    BY <1>4, <2>2, <2>3 DEF PollDone, hwVars
<1>5. CASE PollMiss
  BY <1>5 DEF PollMiss, hwVars
<1>6. CASE UNCHANGED vars
  BY <1>6 DEF vars, hwVars, appVars
<1> QED
  BY <1>1, <1>2, <1>3, <1>4, <1>5, <1>6 DEF Next, Poll, Idle
-----------------------------------------------------------------------------
(* The step that matters: the owner bit of this lap, in an entry that is   *)
(* not blank, means that the awaited completion has been written.  Were it *)
(* not, the entry would be blank or left from the lap before, since the    *)
(* previous round is in and a round is no longer than the ring.            *)
LEMMA OwnerBitTells ==
  ASSUME TypeOK, PollInv, EntryInv, PollDone
  PROVE  Awaited < written
<1> SUFFICES ASSUME Awaited >= written
             PROVE  FALSE
  BY AwaitedNat DEF TypeOK
<1>1. /\ entry[curCqe].op # "invalid"
      /\ entry[curCqe].owner = Lap(pollCnt)
  BY DEF PollDone, PollInv
<1>2. Awaited \in Nat /\ written \in Nat /\ CqeCnt \in Nat \ {0}
  BY AwaitedNat, CqShape DEF TypeOK
<1>3. Lap(pollCnt) = Lap(Awaited)
  BY <1>2, Wraps DEF PollInv
<1>4. Awaited < written + CqeCnt
  <2>1. polled * Cqes \in Nat /\ (polled + 1) * Cqes = polled * Cqes + Cqes
    BY CqShape DEF TypeOK
  <2> QED
    BY <1>2, <2>1, CqShape DEF PollInv, Awaited
<1>5. CASE Awaited < CqeCnt
  <2>1. curCqe = Awaited /\ Awaited \in Slots
    BY <1>2, <1>5, SmallRemainder DEF PollInv, Slots
  <2>2. entry[curCqe] = Blank
    BY <2>1 DEF EntryInv
  <2> QED
    BY <1>1, <2>2 DEF Blank
<1>6. CASE Awaited >= CqeCnt
  <2>1. PICK n \in Nat : n = Awaited - CqeCnt
    BY <1>2, <1>6
  <2>2. n \in 0 .. written - 1 /\ n >= written - CqeCnt
    BY <1>2, <1>4, <2>1
  <2>3. entry[n % CqeCnt] = [op |-> "done", owner |-> Lap(n)]
    BY <2>2 DEF EntryInv
  <2>4. n % CqeCnt = curCqe /\ Lap(n) # Lap(Awaited)
    <3>1. PICK a \in Int : a = Awaited
      BY <1>2
    <3>2. (a - CqeCnt) % CqeCnt = a % CqeCnt /\ Lap(a - CqeCnt) # Lap(a)
      BY OtherLap
    <3> QED
      BY <2>1, <3>1, <3>2 DEF PollInv
  <2> QED
    BY <1>1, <1>3, <2>3, <2>4
<1> QED
  BY <1>2, <1>5, <1>6

LEMMA PollInit == Init => PollInv /\ EntryInv
<1> SUFFICES ASSUME Init
             PROVE  PollInv /\ EntryInv
  OBVIOUS
<1>1. Awaited = Cqes - 1 /\ polled * Cqes = 0 /\ written = 0
  BY CqShape DEF Init, Awaited
<1>2. Cqes - 1 \in 0 .. Word - 1 /\ Word \in Nat \ {0}
  BY TypeInit, CqShape DEF Init, TypeOK
<1>3. (Cqes - 1) % Word = Cqes - 1
  BY <1>2, SmallRemainder
<1>4. PollInv
  BY <1>1, <1>3 DEF Init, PollInv
<1>5. EntryInv
  BY <1>1 DEF Init, EntryInv
<1> QED
  BY <1>4, <1>5

LEMMA PollInvStep ==
  ASSUME TypeOK, PollInv, EntryInv, [Next]_vars
  PROVE  PollInv'
<1>1. Awaited \in Nat /\ polled \in Nat /\ written \in Nat
  BY AwaitedNat DEF TypeOK
<1>2. CASE Ring
  BY <1>2 DEF Ring, hwVars, appVars, PollInv, Awaited
<1>3. CASE HwWrite
  <2>1. entry'[curCqe] = entry[curCqe] \/ entry'[curCqe].op = "done"
    BY <1>3 DEF HwWrite, TypeOK
  <2>2. polled * Cqes <= written'
    <3>1. polled * Cqes \in Nat
      BY <1>1, CqShape
    <3> QED
      BY <1>1, <1>3, <3>1 DEF HwWrite, PollInv
  <2> QED
    BY <1>3, <2>1, <2>2 DEF HwWrite, appVars, PollInv, Awaited
<1>4. CASE PollOpcode
  BY <1>4 DEF PollOpcode, hwVars, PollInv, Awaited
<1>5. CASE PollDone
  <2>1. Awaited < written
    BY <1>5, OwnerBitTells
  <2>2. /\ Awaited' = Awaited + Cqes
        /\ polled' * Cqes = Awaited + 1
    <3>1. polled' = polled + 1
      BY <1>5 DEF PollDone
    <3>2. (polled + 1 + 1) * Cqes = (polled + 1) * Cqes + Cqes /\ (polled + 1) * Cqes \in Nat
      BY <1>1, CqShape
    <3> QED
      BY <3>1, <3>2, CqShape DEF Awaited
  <2>3. ((Awaited % Word) + Cqes) % Word = (Awaited + Cqes) % Word
    <3>1. Cqes \in Int /\ Word \in Nat \ {0} /\ Awaited \in Int
      BY <1>1, CqShape
    <3> QED
      BY <3>1, RemainderOfSum
  <2>4. pollCnt' = Awaited' % Word
    BY <1>5, <2>2, <2>3 DEF PollDone, PollInv
  <2>5. curCqe' = Awaited' % CqeCnt
    <3>1. Awaited' \in Int
      BY <1>1, <2>2, CqShape
    <3>2. curCqe' = (Awaited' % Word) % CqeCnt
      BY <1>5, <2>4 DEF PollDone
    <3>3. PICK n \in Int : n = Awaited'
      BY <3>1
    <3>4. (n % Word) % CqeCnt = n % CqeCnt
      BY Wraps
    <3> QED
      BY <3>2, <3>3, <3>4
  <2>6. written' = written /\ pc' = "idle"
    BY <1>5 DEF PollDone, hwVars
  <2>7. polled' * Cqes <= written'
    BY <1>1, <2>1, <2>2, <2>6
  <2> QED
    BY <2>4, <2>5, <2>6, <2>7 DEF PollInv
<1>6. CASE PollMiss
  BY <1>6 DEF PollMiss, hwVars, PollInv, Awaited
<1>7. CASE UNCHANGED vars
  BY <1>7 DEF vars, hwVars, appVars, PollInv, Awaited
<1> QED
  BY <1>2, <1>3, <1>4, <1>5, <1>6, <1>7 DEF Next, Poll, Idle

LEMMA EntryInvStep ==
  ASSUME TypeOK, EntryInv, [Next]_vars
  PROVE  EntryInv'
<1>1. CASE HwWrite
  <2>1. written \in Nat /\ CqeCnt \in Nat \ {0} /\ written' = written + 1
    BY <1>1, CqShape DEF TypeOK, HwWrite
  <2>2. PICK w \in Slots : w = written % CqeCnt
    BY <2>1, SlotRange
  <2>3. /\ entry'[w] = [op |-> "done", owner |-> Lap(written)]
        /\ \A s \in Slots : s # w => entry'[s] = entry[s]
    BY <1>1, <2>2 DEF HwWrite, TypeOK
  <2>4. ASSUME NEW n \in 0 .. written' - 1, n >= written' - CqeCnt
        PROVE  entry'[n % CqeCnt] = [op |-> "done", owner |-> Lap(n)]
    <3>1. CASE n = written
      BY <2>2, <2>3, <3>1
    <3>2. CASE n # written
      <4>1. n \in 0 .. written - 1 /\ n < written /\ written - n < CqeCnt /\ n \in Int
        BY <2>1, <2>4, <3>2
      <4>2. n % CqeCnt # w
        <5>1. written \in Int
          BY <2>1
        <5>2. n % CqeCnt # written % CqeCnt
          BY <2>1, <4>1, <5>1, DifferentBlocks
        <5> QED
          BY <2>2, <5>2
      <4>3. n % CqeCnt \in Slots
        BY <4>1, SlotRange
      <4>4. entry[n % CqeCnt] = [op |-> "done", owner |-> Lap(n)]
        BY <2>1, <4>1 DEF EntryInv
      <4> QED
        BY <2>3, <4>2, <4>3, <4>4
    <3> QED
      BY <3>1, <3>2
  <2>5. ASSUME NEW s \in Slots, s >= written'
        PROVE  entry'[s] = Blank
    <3>1. written \in 0 .. CqeCnt - 1 /\ s # written /\ s >= written
      BY <2>1, <2>5 DEF Slots
    <3>2. w = written
      BY <2>1, <2>2, <3>1, SmallRemainder
    <3> QED
      BY <2>3, <3>1, <3>2 DEF EntryInv
  <2> QED
    BY <2>4, <2>5 DEF EntryInv, Blank
<1>2. CASE UNCHANGED hwVars
  BY <1>2 DEF hwVars, EntryInv, Blank
<1> QED
  BY <1>1, <1>2 DEF Next, Ring, Poll, PollOpcode, PollDone, PollMiss, Idle, vars

LEMMA RungInvStep ==
  ASSUME TypeOK, RungInv, [Next]_vars
  PROVE  RungInv'
<1> USE DEF TypeOK, RungInv
<1>1. CASE Ring
  <2>1. (rung + 1) * Cqes = rung * Cqes + Cqes /\ rung * Cqes \in Nat
    BY CqShape
  <2>2. written' = written /\ rung' = rung + 1 /\ polled' = polled
    BY <1>1 DEF Ring, hwVars, appVars
  <2>3. written' <= rung' * Cqes
    BY <2>1, <2>2, CqShape
  <2>4. rung' <= polled' + Window
    BY <1>1, <2>2, CqShape DEF Ring
  <2> QED
    BY <2>3, <2>4
<1>2. CASE HwWrite
  <2>1. rung * Cqes \in Nat
    BY CqShape
  <2> QED
    BY <1>2, <2>1 DEF HwWrite, appVars
<1>3. CASE PollDone
  BY <1>3, CqShape DEF PollDone, hwVars
<1>4. CASE UNCHANGED <<written, rung, polled>>
  BY <1>4
<1> QED
  BY <1>1, <1>2, <1>3, <1>4
     DEF Next, Poll, PollOpcode, PollMiss, Idle, vars, hwVars, appVars

(* The inductive invariant holds of every behaviour: the host's two        *)
(* counters and the marks in the ring agree with how many completions      *)
(* the device has written and the host has seen (poll of dv_mgr.cc).       *)
THEOREM Invariance == Spec => []IInv
<1>1. Init => IInv
  <2>1. Init => RungInv
    BY CqShape DEF Init, RungInv
  <2> QED
    BY <2>1, TypeInit, PollInit DEF IInv
<1>2. IInv /\ [Next]_vars => IInv'
  BY TypeStep, PollInvStep, EntryInvStep, RungInvStep DEF IInv
<1> QED
  BY <1>1, <1>2, PTL DEF Spec

(* The types of the completion ring and of the counters beside it.         *)
THEOREM TypeCorrect == Spec => []TypeOK
<1>1. IInv => TypeOK
  BY DEF IInv
<1> QED
  BY <1>1, Invariance, PTL

(* poll returns 1 only when every completion of the round is written, for  *)
(* every ring at least one round long and every pace of the application    *)
(* (poll of dv_mgr.cc: the one bit it looks at is enough).                 *)
THEOREM PollNeverEarly == Spec => []NoFalseCompletion
<1>1. IInv => NoFalseCompletion
  BY DEF IInv, PollInv, NoFalseCompletion
<1> QED
  BY <1>1, Invariance, PTL

(* At a pace that leaves the device less than a ring ahead, the completion *)
(* that poll waits for is not written over before it is seen: the missing  *)
(* overrun check of cd_create_cq in qps.cc does no harm.                   *)
THEOREM CompletionsStay == ASSUME Pace PROVE Spec => []CompletionStays
<1>1. IInv => CompletionStays
  <2> SUFFICES ASSUME IInv, written >= (polled + 1) * Cqes
               PROVE  entry[curCqe] = [op |-> "done", owner |-> Lap(pollCnt)]
    BY DEF CompletionStays
  <2> USE DEF IInv, TypeOK
  <2>1. Awaited \in Nat
    BY AwaitedNat
  <2>2. PICK p \in Nat : p = polled * Cqes
    BY CqShape
  <2>3. PICK d \in Nat : d = (Window - 1) * Cqes
    BY CqShape
  <2>4. (polled + 1) * Cqes = p + Cqes /\ (polled + Window) * Cqes = p + d + Cqes
    BY <2>2, <2>3, CqShape
  <2>5. rung * Cqes <= (polled + Window) * Cqes
    BY CqShape DEF RungInv
  <2>6. Awaited \in 0 .. written - 1 /\ Awaited >= written - CqeCnt
    <3>1. rung * Cqes \in Nat /\ d < CqeCnt
      BY <2>3, CqShape DEF Pace
    <3> QED
      BY <2>1, <2>4, <2>5, <3>1, CqShape DEF RungInv, Awaited
  <2>7. entry[Awaited % CqeCnt] = [op |-> "done", owner |-> Lap(Awaited)]
    BY <2>6 DEF EntryInv
  <2>8. Lap(pollCnt) = Lap(Awaited)
    BY <2>1, Wraps DEF PollInv
  <2> QED
    BY <2>7, <2>8 DEF PollInv
<1> QED
  BY <1>1, Invariance, PTL
=============================================================================
