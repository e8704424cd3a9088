------------------------- MODULE RingConnectProofs -------------------------
(***************************************************************************)
(* The handshakes of RingConnect are right for every number of processes,  *)
(* of graphs and of QPs, as long as the tags are apart and rings have an   *)
(* even number of ranks.                                                   *)
(***************************************************************************)
EXTENDS RingConnect, TLAPS

(* ------------------------------------------------------------------------ *)
(* The ends of a connection.                                               *)

LEMMA Pairs ==
  ASSUME NEW t \in Threads
  PROVE  t[1] \in Ranks /\ t[2] \in Graphs /\ t = <<t[1], t[2]>>
BY DEF Threads

LEMMA LegsNat ==
  ASSUME NEW g \in Graphs
  PROVE  Len(Tag[g]) \in Nat \ {0} /\ Legs(g) \subseteq Nat \ {0}
<1>1. Tag[g] \in Seq(Nat)
  BY ConnectShape
<1>2. Len(Tag[g]) \in Nat
  BY <1>1
<1>3. Len(Tag[g]) >= 1
  <2>1. CASE g \in Rings
    <3>1. Len(Tag[g]) = 2
      BY <2>1, ConnectShape
    <3> QED
      BY <3>1
  <2>2. CASE g \in Doublings
    <3>1. \A h \in Doublings : Len(Tag[h]) >= 1
      BY ConnectShape
    <3> QED
      BY <2>2, <3>1
  <2> QED
    BY <2>1, <2>2 DEF Graphs
<1> QED
  BY <1>2, <1>3 DEF Legs

(* Neighbours on the ring, and the parity of their ranks. *)
LEMMA Neighbours ==
  ASSUME NEW r \in Ranks
  PROVE  /\ RightRank(r) = IF r = N - 1 THEN 0 ELSE r + 1
         /\ LeftRank(r) = IF r = 0 THEN N - 1 ELSE r - 1
<1>1. r \in Int /\ N \in Int /\ N >= 2 /\ r >= 0 /\ r < N
  BY ConnectShape DEF Ranks
<1>2. RightRank(r) = IF r = N - 1 THEN 0 ELSE r + 1
  BY <1>1, Z3 DEF RightRank
<1>3. LeftRank(r) = IF r = 0 THEN N - 1 ELSE r - 1
  BY <1>1, Z3 DEF LeftRank
<1> QED
  BY <1>2, <1>3

LEMMA SideTurns ==
  ASSUME NEW r \in Ranks, N % 2 = 0
  PROVE  \A k : /\ Side(RightRank(r), k) # Side(r, k)
               /\ Side(LeftRank(r), k) # Side(r, k)
               /\ Side(r, k) \in {"left", "right"}
<1>1. r \in Int /\ N \in Int /\ N >= 2 /\ r >= 0 /\ r < N
  BY ConnectShape DEF Ranks
<1>2. (RightRank(r) % 2 = 1) # (r % 2 = 1)
  <2>1. CASE r = N - 1
    <3>1. RightRank(r) = 0
      BY Neighbours, <2>1
    <3>2. r % 2 = 1 /\ 0 % 2 = 0
      BY <1>1, <2>1, Z3
    <3> QED
      BY <3>1, <3>2
  <2>2. CASE r # N - 1
    <3>1. RightRank(r) = r + 1
      BY Neighbours, <2>2
    <3>2. ((r + 1) % 2 = 1) # (r % 2 = 1)
      BY <1>1, Z3
    <3> QED
      BY <3>1, <3>2
  <2> QED
    BY <2>1, <2>2
<1>3. (LeftRank(r) % 2 = 1) # (r % 2 = 1)
  <2>1. CASE r = 0
    <3>1. LeftRank(r) = N - 1
      BY Neighbours, <2>1
    <3>2. (N - 1) % 2 = 1 /\ r % 2 = 0
      BY <1>1, <2>1, Z3
    <3> QED
      BY <3>1, <3>2
  <2>2. CASE r # 0
    <3>1. LeftRank(r) = r - 1
      BY Neighbours, <2>2
    <3>2. ((r - 1) % 2 = 1) # (r % 2 = 1)
      BY <1>1, Z3
    <3> QED
      BY <3>1, <3>2
  <2> QED
    BY <2>1, <2>2
<1> QED
  BY <1>2, <1>3 DEF Side

(* The other end's peer is this end. *)
LEMMA MeetsBack ==
  ASSUME Paired, NEW t \in Threads, NEW k \in Legs(t[2])
  PROVE  /\ Meets(t, k) \in Threads
         /\ Meets(t, k)[2] = t[2]
         /\ Meets(t, k)[1] # t[1]
         /\ Meets(Meets(t, k), k) = t
<1> DEFINE r == t[1]
           g == t[2]
           p == Peer(r, g, k)
<1>1. r \in Ranks /\ g \in Graphs /\ t = <<r, g>>
  BY Pairs
<1>2. p \in Ranks /\ p # r /\ Peer(p, g, k) = r
  <2>1. CASE g \in Doublings
    BY <1>1, <2>1, ConnectShape DEF Peer
  <2>2. CASE g \in Rings
    <3>1. g \notin Doublings /\ N % 2 = 0
      BY <2>2, ConnectShape DEF Paired
    <3>2. N \in Nat /\ N >= 2
      BY ConnectShape
    <3>3. RightRank(r) \in Ranks /\ LeftRank(r) \in Ranks
      BY <1>1, <3>2, Neighbours DEF Ranks
    <3>4. LeftRank(RightRank(r)) = r /\ RightRank(LeftRank(r)) = r
      BY <1>1, <3>2, <3>3, Neighbours DEF Ranks
    <3>5. RightRank(r) # r /\ LeftRank(r) # r
      BY <1>1, <3>2, Neighbours DEF Ranks
    <3>6. CASE Side(r, k) = "right"
      <4>1. p = RightRank(r)
        BY <3>1, <3>6 DEF Peer
      <4>2. Side(p, k) # "right"
        BY <1>1, <3>1, <3>6, <4>1, SideTurns
      <4> QED
        BY <3>1, <3>3, <3>4, <3>5, <4>1, <4>2 DEF Peer
    <3>7. CASE Side(r, k) # "right"
      <4>1. p = LeftRank(r)
        BY <3>1, <3>7 DEF Peer
      <4>2. Side(p, k) = "right"
        BY <1>1, <3>1, <3>3, <3>7, <4>1, SideTurns
      <4> QED
        BY <3>1, <3>3, <3>4, <3>5, <4>1, <4>2 DEF Peer
    <3> QED
      BY <3>6, <3>7
  <2> QED
    BY <1>1, <2>1, <2>2 DEF Graphs
<1>3. Meets(t, k) = <<p, g>>
  BY DEF Meets
<1> QED
  BY <1>1, <1>2, <1>3 DEF Meets, Threads

(* A QP receives what the QP at the other end sends. *)
LEMMA InIsOut ==
  ASSUME Paired, NEW t \in Threads, NEW k \in Legs(t[2])
  PROVE  In(t, k) = Out(Meets(t, k), k)
<1>1. Meets(t, k) = <<Peer(t[1], t[2], k), t[2]>>
  BY DEF Meets
<1>2. Meets(Meets(t, k), k) = t
  BY MeetsBack
<1>3. \A u : Meets(u, k)[1] = Peer(u[1], u[2], k)
  BY DEF Meets
<1>4. Peer(Meets(t, k)[1], Meets(t, k)[2], k) = t[1]
  BY <1>2, <1>3
<1> QED
  BY <1>1, <1>4 DEF In, Out

LEMMA TagNat == ASSUME NEW g \in Graphs, NEW k \in Legs(g) PROVE Tag[g][k] \in Nat
<1>1. Tag[g] \in Seq(Nat)
  BY ConnectShape
<1> QED
  BY <1>1 DEF Legs

LEMMA OutIsChannel ==
  ASSUME Paired, NEW t \in Threads, NEW k \in Legs(t[2])
  PROVE  Out(t, k) \in Channels /\ Barrier(Out(t, k)) \in Channels
<1>1. t[1] \in Ranks /\ Peer(t[1], t[2], k) \in Ranks
  BY MeetsBack, Pairs DEF Meets, Threads
<1>2. Tag[t[2]][k] \in Tags /\ Tag[t[2]][k] + BarrierOffset \in Tags
  BY Pairs DEF Tags
<1> QED
  BY <1>1, <1>2 DEF Out, Barrier, Channels

(* Every QP has two channels to send on that no other QP sends on. *)
LEMMA ChannelsApart ==
  ASSUME TagsApart, NEW t \in Threads, NEW k \in Legs(t[2]),
         NEW u \in Threads, NEW j \in Legs(u[2])
  PROVE  /\ Out(t, k) = Out(u, j) => t = u /\ k = j
         /\ Barrier(Out(t, k)) = Barrier(Out(u, j)) => t = u /\ k = j
         /\ Out(t, k) # Barrier(Out(u, j))
<1>1. t[2] \in Graphs /\ u[2] \in Graphs /\ t = <<t[1], t[2]>> /\ u = <<u[1], u[2]>>
  BY Pairs
<1>2. Tag[t[2]][k] \in Nat /\ Tag[u[2]][j] \in Nat /\ BarrierOffset \in Nat
  BY <1>1, TagNat, ConnectShape
<1>3. /\ Tag[t[2]][k] # Tag[u[2]][j] + BarrierOffset
      /\ Tag[t[2]][k] = Tag[u[2]][j] => t[2] = u[2] /\ k = j
  BY <1>1 DEF TagsApart
<1>4. Out(t, k) = Out(u, j) => t = u /\ k = j
  BY <1>1, <1>3 DEF Out
<1>5. Barrier(Out(t, k)) = Barrier(Out(u, j)) => t = u /\ k = j
  <2> SUFFICES ASSUME Barrier(Out(t, k)) = Barrier(Out(u, j)) PROVE t = u /\ k = j
    OBVIOUS
  <2>1. t[1] = u[1] /\ Tag[t[2]][k] + BarrierOffset = Tag[u[2]][j] + BarrierOffset
    BY DEF Out, Barrier
  <2>2. Tag[t[2]][k] = Tag[u[2]][j]
    BY <1>2, <2>1
  <2> QED
    BY <1>1, <1>3, <2>1, <2>2
<1>6. Out(t, k) # Barrier(Out(u, j))
  BY <1>3 DEF Out, Barrier
<1> QED
  BY <1>4, <1>5, <1>6

-----------------------------------------------------------------------------
(* The mutex. *)

HolderInv == \A t \in Threads : Inside(t) => holder[t[1]] = t[2]

LEMMA HolderIsMutex == HolderInv <=> MutexProtects
<1>1. HolderInv => MutexProtects
  <2> SUFFICES ASSUME HolderInv, NEW r \in Ranks, NEW g \in Graphs, Inside(<<r, g>>)
               PROVE  /\ holder[r] = g
                      /\ \A h \in Graphs \ {g} : ~ Inside(<<r, h>>)
    BY DEF MutexProtects
  <2>1. \A h \in Graphs : Inside(<<r, h>>) => holder[r] = h
    BY DEF HolderInv, Threads
  <2> QED
    BY <2>1
<1>2. MutexProtects => HolderInv
  <2> SUFFICES ASSUME MutexProtects, NEW t \in Threads, Inside(t)
               PROVE  holder[t[1]] = t[2]
    BY DEF HolderInv
  <2> QED
    BY Pairs DEF MutexProtects
<1> QED
  BY <1>1, <1>2

(* A thread that goes to a place outside, or takes the mutex, or has it.   *)
LEMMA HolderMove ==
  ASSUME NEW t \in Threads, NEW place, HolderInv,
         TypeOK,
         pc' = [pc EXCEPT ![t] = place],
         \/ Acquire(t)
         \/ Inside(t) /\ Release(t) /\ place \notin {"create", "connect", "ctx", "fin"}
         \/ Inside(t) /\ holder' = holder
         \/ place \notin {"create", "connect", "ctx", "fin"} /\ holder' = holder
  PROVE  HolderInv'
<1> SUFFICES ASSUME NEW u \in Threads, Inside(u)'
             PROVE  holder'[u[1]] = u[2]
  BY DEF HolderInv
<1>1. t[1] \in Ranks /\ t[2] \in Graphs /\ u[1] \in Ranks /\ u[2] \in Graphs
  BY Pairs
<1>2. Free \notin Graphs
  BY ConnectShape DEF Free
<1> DOMAIN pc = Threads /\ DOMAIN holder = Ranks
  BY DEF TypeOK
<1>3. CASE u = t
  <2>1. pc'[t] = place
    OBVIOUS
  <2>2. place \in {"create", "connect", "ctx", "fin"}
    BY <1>3, <2>1 DEF Inside
  <2> QED
    BY <1>1, <1>3, <2>2 DEF HolderInv, Acquire
<1>4. CASE u # t
  <2>1. Inside(u)
    BY <1>4 DEF Inside
  <2>2. holder[u[1]] = u[2]
    BY <2>1 DEF HolderInv
  <2>3. u[1] = t[1] => u[2] # t[2]
    BY <1>4, Pairs
  <2> QED
    BY <1>1, <1>2, <2>2, <2>3 DEF HolderInv, Acquire, Release
<1> QED
  BY <1>3, <1>4

LEMMA HolderInit == Init => HolderInv
BY DEF Init, HolderInv, Inside

LEMMA HolderStep ==
  ASSUME TypeOK, HolderInv, [Next]_vars
  PROVE  HolderInv'
<1>1. ASSUME NEW t \in Threads, Lock(t) PROVE HolderInv'
  <2>1. pc' = [pc EXCEPT ![t] = "create"] /\ Acquire(t)
    BY <1>1 DEF Lock, Goto
  <2> QED
    BY <2>1, HolderMove
<1>2. ASSUME NEW t \in Threads, CallExchange(t) PROVE HolderInv'
  <2>1. pc' = [pc EXCEPT ![t] = "exchange"] /\ Inside(t) /\ Release(t)
    BY <1>2 DEF CallExchange, At, Inside, Goto
  <2> QED
    BY <2>1, HolderMove
<1>3. ASSUME NEW t \in Threads, ExchangeReturns(t) PROVE HolderInv'
  <2>1. pc' = [pc EXCEPT ![t] = "relock"] /\ holder' = holder
    BY <1>3 DEF ExchangeReturns, Goto
  <2> QED
    BY <2>1, HolderMove
<1>4. ASSUME NEW t \in Threads, Relock(t) PROVE HolderInv'
  <2>1. pc' = [pc EXCEPT ![t] = "connect"] /\ Acquire(t)
    BY <1>4 DEF Relock, Goto
  <2> QED
    BY <2>1, HolderMove
<1>5. ASSUME NEW t \in Threads, CallBarrier(t) PROVE HolderInv'
  <2>1. pc' = [pc EXCEPT ![t] = "barrier"] /\ Inside(t) /\ Release(t)
    BY <1>5 DEF CallBarrier, At, Inside, Goto
  <2> QED
    BY <2>1, HolderMove
<1>6. ASSUME NEW t \in Threads, BarrierReturns(t) PROVE HolderInv'
  <2>1. pc' = [pc EXCEPT ![t] = "relockCtx"] /\ holder' = holder
    BY <1>6 DEF BarrierReturns, Goto
  <2> QED
    BY <2>1, HolderMove
<1>7. ASSUME NEW t \in Threads, RelockCtx(t) PROVE HolderInv'
  <2>1. pc' = [pc EXCEPT ![t] = "ctx"] /\ Acquire(t)
    BY <1>7 DEF RelockCtx, Goto
  <2> QED
    BY <2>1, HolderMove
<1>8. ASSUME NEW t \in Threads, InitNext(t) PROVE HolderInv'
  <2>1. pc' = [pc EXCEPT ![t] = "create"] /\ Inside(t) /\ holder' = holder
    BY <1>8 DEF InitNext, At, Inside, Goto
  <2> QED
    BY <2>1, HolderMove
<1>9. ASSUME NEW t \in Threads, InitLast(t) PROVE HolderInv'
  <2>1. pc' = [pc EXCEPT ![t] = "fin"] /\ Inside(t) /\ holder' = holder
    BY <1>9 DEF InitLast, At, Inside, Goto
  <2> QED
    BY <2>1, HolderMove
<1>10. ASSUME NEW t \in Threads, Unlock(t) PROVE HolderInv'
  <2>1. pc' = [pc EXCEPT ![t] = "done"] /\ Inside(t) /\ Release(t)
    BY <1>10 DEF Unlock, At, Inside, Goto
  <2> QED
    BY <2>1, HolderMove
<1>11. ASSUME NEW t \in Threads, Throw(t) PROVE HolderInv'
  BY <1>11 DEF Throw, HolderInv, Inside
<1>12. ASSUME UNCHANGED vars PROVE HolderInv'
  BY <1>12 DEF vars, HolderInv, Inside
<1> QED
  BY <1>1, <1>2, <1>3, <1>4, <1>5, <1>6, <1>7, <1>8, <1>9, <1>10, <1>11, <1>12
     DEF Next, Thread, Over

-----------------------------------------------------------------------------
(* The wire.                                                               *)

WirePart(t, k) ==
  /\ Taken(Meets(t, k), k) => Posted(t, k)
  /\ Met(Meets(t, k), k) => Joined(t, k)
  /\ wire[Out(t, k)] =
       IF Posted(t, k) /\ ~ Taken(Meets(t, k), k) THEN <<Qp(t, k)>> ELSE <<>>
  /\ wire[Barrier(Out(t, k))] =
       IF Joined(t, k) /\ ~ Met(Meets(t, k), k) THEN <<Ack>> ELSE <<>>

LEMMA WireParts == WireInv <=> \A t \in Threads : \A k \in Legs(t[2]) : WirePart(t, k)
BY DEF WireInv, WirePart

LinkPart(t, k) ==
  /\ remote[t][k] = IF Joined(t, k) THEN Qp(Meets(t, k), k) ELSE NoQp
  /\ (k = leg[t] /\ pc[t] \in {"relock", "connect"}) => info[t] = Qp(Meets(t, k), k)

LEMMA LinkParts == LinkInv <=> \A t \in Threads : \A k \in Legs(t[2]) : LinkPart(t, k)
BY DEF LinkInv, LinkPart

(* How far a thread is with the QP it is at, and what a move changes.      *)
LEMMA Here ==
  ASSUME TypeOK, NEW t \in Threads
  PROVE  /\ Posted(t, leg[t]) <=> pc[t] \in PostedAt
         /\ Taken(t, leg[t]) <=> pc[t] \in TakenAt
         /\ Joined(t, leg[t]) <=> pc[t] \in JoinedAt
         /\ Met(t, leg[t]) <=> pc[t] \in MetAt
BY DEF TypeOK, Past, Posted, Taken, Joined, Met

LEMMA Advance ==
  ASSUME TypeOK, NEW t \in Threads,
         leg' = leg, pc' = [pc EXCEPT ![t] = pc'[t]],
         NEW u \in Threads, NEW k \in Legs(u[2])
  PROVE  /\ Posted(u, k)' <=> IF u = t /\ k = leg[t] THEN pc'[t] \in PostedAt ELSE Posted(u, k)
         /\ Taken(u, k)' <=> IF u = t /\ k = leg[t] THEN pc'[t] \in TakenAt ELSE Taken(u, k)
         /\ Joined(u, k)' <=> IF u = t /\ k = leg[t] THEN pc'[t] \in JoinedAt ELSE Joined(u, k)
         /\ Met(u, k)' <=> IF u = t /\ k = leg[t] THEN pc'[t] \in MetAt ELSE Met(u, k)
<1> DOMAIN pc = Threads /\ leg[t] \in Nat
  BY DEF TypeOK
<1> QED
  BY DEF Past, Posted, Taken, Joined, Met

(* A step that sends and receives nothing keeps the wire as it should be.  *)
LEMMA WireSame ==
  ASSUME Paired, WireInv, wire' = wire,
         \A u \in Threads : \A k \in Legs(u[2]) :
           /\ Posted(u, k)' <=> Posted(u, k)
           /\ Taken(u, k)' <=> Taken(u, k)
           /\ Joined(u, k)' <=> Joined(u, k)
           /\ Met(u, k)' <=> Met(u, k)
  PROVE  WireInv'
<1> SUFFICES ASSUME NEW u \in Threads, NEW k \in Legs(u[2]) PROVE WirePart(u, k)'
  BY DEF WireInv, WirePart
<1>1. Meets(u, k) \in Threads /\ k \in Legs(Meets(u, k)[2])
  BY MeetsBack
<1>2. WirePart(u, k)
  BY WireParts
<1> QED
  BY <1>1, <1>2 DEF WirePart

LEMMA LinkSame ==
  ASSUME LinkInv, remote' = remote, info' = info,
         \A u \in Threads : \A k \in Legs(u[2]) :
           /\ Joined(u, k)' <=> Joined(u, k)
           /\ (k = leg'[u] /\ pc'[u] \in {"relock", "connect"}) =>
                 (k = leg[u] /\ pc[u] \in {"relock", "connect"})
  PROVE  LinkInv'
<1> SUFFICES ASSUME NEW u \in Threads, NEW k \in Legs(u[2]) PROVE LinkPart(u, k)'
  BY DEF LinkInv, LinkPart
<1>1. LinkPart(u, k)
  BY LinkParts
<1> QED
  BY <1>1 DEF LinkPart

(* A move between two places that no progress counts. *)
LEMMA SamePast ==
  ASSUME TypeOK, NEW t \in Threads,
         leg' = leg, pc' = [pc EXCEPT ![t] = pc'[t]],
         \/ pc[t] = "new" /\ pc'[t] = "create"
         \/ pc[t] = "relock" /\ pc'[t] = "connect"
         \/ pc[t] = "relockCtx" /\ pc'[t] = "ctx"
         \/ pc[t] = "ctx" /\ pc'[t] = "fin"
         \/ pc[t] = "fin" /\ pc'[t] = "done"
  PROVE  \A u \in Threads : \A k \in Legs(u[2]) :
           /\ Posted(u, k)' <=> Posted(u, k)
           /\ Taken(u, k)' <=> Taken(u, k)
           /\ Joined(u, k)' <=> Joined(u, k)
           /\ Met(u, k)' <=> Met(u, k)
           /\ (k = leg'[u] /\ pc'[u] \in {"relock", "connect"}) =>
                 (k = leg[u] /\ pc[u] \in {"relock", "connect"})
<1> SUFFICES ASSUME NEW u \in Threads, NEW k \in Legs(u[2])
             PROVE  /\ Posted(u, k)' <=> Posted(u, k)
                    /\ Taken(u, k)' <=> Taken(u, k)
                    /\ Joined(u, k)' <=> Joined(u, k)
                    /\ Met(u, k)' <=> Met(u, k)
                    /\ (k = leg'[u] /\ pc'[u] \in {"relock", "connect"}) =>
                          (k = leg[u] /\ pc[u] \in {"relock", "connect"})
  OBVIOUS
<1> DOMAIN pc = Threads
  BY DEF TypeOK
<1> USE DEF MetAt, JoinedAt, TakenAt, PostedAt
<1>1. Posted(u, k)' <=> Posted(u, k)
  BY Advance, Here
<1>2. Taken(u, k)' <=> Taken(u, k)
  BY Advance, Here
<1>3. Joined(u, k)' <=> Joined(u, k)
  BY Advance, Here
<1>4. Met(u, k)' <=> Met(u, k)
  BY Advance, Here
<1>5. (k = leg'[u] /\ pc'[u] \in {"relock", "connect"}) =>
         (k = leg[u] /\ pc[u] \in {"relock", "connect"})
  BY DEF TypeOK
<1> QED
  BY <1>1, <1>2, <1>3, <1>4, <1>5

(* The four steps that use the wire. *)
LEMMA CallExchangeWire ==
  ASSUME Paired, TagsApart, TypeOK, WireInv, NEW t \in Threads, CallExchange(t)
  PROVE  WireInv'
<1> DEFINE l == leg[t]
           c == Out(t, l)
<1> USE DEF MetAt, JoinedAt, TakenAt, PostedAt
<1> l \in Legs(t[2]) /\ pc[t] = "create" /\ leg' = leg /\ pc'[t] = "exchange"
      /\ pc' = [pc EXCEPT ![t] = pc'[t]]
  BY DEF TypeOK, CallExchange, At, Goto
<1> SUFFICES ASSUME NEW u \in Threads, NEW k \in Legs(u[2]) PROVE WirePart(u, k)'
  BY DEF WireInv, WirePart
<1> DEFINE v == Meets(u, k)
<1>1. v \in Threads /\ k \in Legs(v[2])
  BY MeetsBack
<1>2. WirePart(u, k) /\ WirePart(t, l)
  BY WireParts
<1>3. c \in Channels /\ wire' = [wire EXCEPT ![c] = Append(wire[c], Qp(t, l))]
  BY OutIsChannel DEF CallExchange, Send
<1>4. wire[c] = <<>>
  BY <1>2, Here DEF WirePart
<1>5. wire'[Out(u, k)] = IF u = t /\ k = l THEN <<Qp(t, l)>> ELSE wire[Out(u, k)]
  BY <1>3, <1>4, ChannelsApart, OutIsChannel DEF TypeOK
<1>6. wire'[Barrier(Out(u, k))] = wire[Barrier(Out(u, k))]
  BY <1>3, ChannelsApart, OutIsChannel DEF TypeOK
<1>7. /\ Posted(u, k)' <=> Posted(u, k) \/ (u = t /\ k = l)
      /\ Joined(u, k)' <=> Joined(u, k)
  BY Advance, Here
<1>8. /\ Taken(v, k)' <=> Taken(v, k)
      /\ Met(v, k)' <=> Met(v, k)
  BY <1>1, Advance, Here
<1>9. u = t /\ k = l => ~ Taken(v, k)
  BY <1>2, Here DEF WirePart
<1> QED
  BY <1>2, <1>5, <1>6, <1>7, <1>8, <1>9 DEF WirePart

LEMMA CallBarrierWire ==
  ASSUME Paired, TagsApart, TypeOK, WireInv, NEW t \in Threads, CallBarrier(t)
  PROVE  WireInv'
<1> DEFINE l == leg[t]
           c == Barrier(Out(t, l))
<1> USE DEF MetAt, JoinedAt, TakenAt, PostedAt
<1> l \in Legs(t[2]) /\ pc[t] = "connect" /\ leg' = leg /\ pc'[t] = "barrier"
      /\ pc' = [pc EXCEPT ![t] = pc'[t]]
  BY DEF TypeOK, CallBarrier, At, Goto
<1> SUFFICES ASSUME NEW u \in Threads, NEW k \in Legs(u[2]) PROVE WirePart(u, k)'
  BY DEF WireInv, WirePart
<1> DEFINE v == Meets(u, k)
<1>1. v \in Threads /\ k \in Legs(v[2])
  BY MeetsBack
<1>2. WirePart(u, k) /\ WirePart(t, l)
  BY WireParts
<1>3. c \in Channels /\ wire' = [wire EXCEPT ![c] = Append(wire[c], Ack)]
  BY OutIsChannel DEF CallBarrier, Send
<1>4. wire[c] = <<>>
  BY <1>2, Here DEF WirePart
<1>5. wire'[Barrier(Out(u, k))] =
        IF u = t /\ k = l THEN <<Ack>> ELSE wire[Barrier(Out(u, k))]
  BY <1>3, <1>4, ChannelsApart, OutIsChannel DEF TypeOK
<1>6. wire'[Out(u, k)] = wire[Out(u, k)]
  BY <1>3, ChannelsApart, OutIsChannel DEF TypeOK
<1>7. /\ Posted(u, k)' <=> Posted(u, k)
      /\ Joined(u, k)' <=> Joined(u, k) \/ (u = t /\ k = l)
  BY Advance, Here
<1>8. /\ Taken(v, k)' <=> Taken(v, k)
      /\ Met(v, k)' <=> Met(v, k)
  BY <1>1, Advance, Here
<1>9. u = t /\ k = l => ~ Met(v, k)
  BY <1>2, Here DEF WirePart
<1> QED
  BY <1>2, <1>5, <1>6, <1>7, <1>8, <1>9 DEF WirePart

LEMMA ExchangeReturnsWire ==
  ASSUME Paired, TagsApart, TypeOK, WireInv, NEW t \in Threads, ExchangeReturns(t)
  PROVE  /\ WireInv'
         /\ Posted(Meets(t, leg[t]), leg[t])
         /\ info'[t] = Qp(Meets(t, leg[t]), leg[t])
<1> DEFINE l == leg[t]
           w == Meets(t, l)
           c == Out(w, l)
<1> USE DEF MetAt, JoinedAt, TakenAt, PostedAt
<1> l \in Legs(t[2]) /\ pc[t] = "exchange" /\ leg' = leg /\ pc'[t] = "relock"
      /\ pc' = [pc EXCEPT ![t] = pc'[t]]
  BY DEF TypeOK, ExchangeReturns, At, Goto
<1>1. w \in Threads /\ l \in Legs(w[2]) /\ Meets(w, l) = t /\ In(t, l) = c
  BY MeetsBack, InIsOut
<1>2. WirePart(w, l) /\ WirePart(t, l)
  BY <1>1, WireParts
<1>3. c \in Channels /\ wire[c] # <<>> /\ wire' = [wire EXCEPT ![c] = Tail(wire[c])]
  BY <1>1, OutIsChannel DEF ExchangeReturns, Receive
<1>4. Posted(w, l) /\ wire[c] = <<Qp(w, l)>>
  BY <1>1, <1>2, <1>3 DEF WirePart
<1>5. info'[t] = Qp(w, l)
  BY <1>1, <1>4 DEF ExchangeReturns, TypeOK
<1>6. ASSUME NEW u \in Threads, NEW k \in Legs(u[2]) PROVE WirePart(u, k)'
  <2> DEFINE v == Meets(u, k)
  <2>1. v \in Threads /\ k \in Legs(v[2]) /\ Meets(v, k) = u
    BY MeetsBack
  <2>2. WirePart(u, k)
    BY WireParts
  <2>3. v = t /\ k = l <=> u = w /\ k = l
    BY <1>1, <2>1
  <2>4. wire'[Out(u, k)] = IF v = t /\ k = l THEN <<>> ELSE wire[Out(u, k)]
    BY <1>1, <1>3, <1>4, <2>3, ChannelsApart, OutIsChannel DEF TypeOK
  <2>5. wire'[Barrier(Out(u, k))] = wire[Barrier(Out(u, k))]
    BY <1>1, <1>3, ChannelsApart, OutIsChannel DEF TypeOK
  <2>6. /\ Posted(u, k)' <=> Posted(u, k)
        /\ Joined(u, k)' <=> Joined(u, k)
    BY Advance, Here
  <2>7. /\ Taken(v, k)' <=> Taken(v, k) \/ (v = t /\ k = l)
        /\ Met(v, k)' <=> Met(v, k)
    BY <2>1, Advance, Here
  <2> QED
    BY <1>4, <2>2, <2>3, <2>4, <2>5, <2>6, <2>7 DEF WirePart
<1> QED
  BY <1>4, <1>5, <1>6 DEF WireInv, WirePart

LEMMA BarrierReturnsWire ==
  ASSUME Paired, TagsApart, TypeOK, WireInv, NEW t \in Threads, BarrierReturns(t)
  PROVE  WireInv'
<1> DEFINE l == leg[t]
           w == Meets(t, l)
           c == Barrier(Out(w, l))
<1> USE DEF MetAt, JoinedAt, TakenAt, PostedAt
<1> l \in Legs(t[2]) /\ pc[t] = "barrier" /\ leg' = leg /\ pc'[t] = "relockCtx"
      /\ pc' = [pc EXCEPT ![t] = pc'[t]]
  BY DEF TypeOK, BarrierReturns, At, Goto
<1>1. w \in Threads /\ l \in Legs(w[2]) /\ Meets(w, l) = t /\ In(t, l) = Out(w, l)
  BY MeetsBack, InIsOut
<1>2. WirePart(w, l) /\ WirePart(t, l)
  BY <1>1, WireParts
<1>3. c \in Channels /\ wire[c] # <<>> /\ wire' = [wire EXCEPT ![c] = Tail(wire[c])]
  BY <1>1, OutIsChannel DEF BarrierReturns, Receive
<1>4. Joined(w, l) /\ wire[c] = <<Ack>>
  BY <1>1, <1>2, <1>3 DEF WirePart
<1>5. ASSUME NEW u \in Threads, NEW k \in Legs(u[2]) PROVE WirePart(u, k)'
  <2> DEFINE v == Meets(u, k)
  <2>1. v \in Threads /\ k \in Legs(v[2]) /\ Meets(v, k) = u
    BY MeetsBack
  <2>2. WirePart(u, k)
    BY WireParts
  <2>3. v = t /\ k = l <=> u = w /\ k = l
    BY <1>1, <2>1
  <2>4. wire'[Barrier(Out(u, k))] =
          IF v = t /\ k = l THEN <<>> ELSE wire[Barrier(Out(u, k))]
    BY <1>1, <1>3, <1>4, <2>3, ChannelsApart, OutIsChannel DEF TypeOK
  <2>5. wire'[Out(u, k)] = wire[Out(u, k)]
    BY <1>1, <1>3, ChannelsApart, OutIsChannel DEF TypeOK
  <2>6. /\ Posted(u, k)' <=> Posted(u, k)
        /\ Joined(u, k)' <=> Joined(u, k)
    BY Advance, Here
  <2>7. /\ Taken(v, k)' <=> Taken(v, k)
        /\ Met(v, k)' <=> Met(v, k) \/ (v = t /\ k = l)
    BY <2>1, Advance, Here
  <2> QED
    BY <1>4, <2>2, <2>3, <2>4, <2>5, <2>6, <2>7 DEF WirePart
<1> QED
  BY <1>5 DEF WireInv, WirePart

-----------------------------------------------------------------------------
(* Every step, every part of the invariant.                                *)

LEMMA QpIsQp == ASSUME NEW t \in Threads, NEW k \in Legs(t[2]) PROVE Qp(t, k) \in AllQps
BY DEF AllQps

Messages == AllQps \union {Ack}

LEMMA SendType ==
  ASSUME wire \in [Channels -> Seq(Messages)], NEW c, NEW m \in Messages, Send(c, m)
  PROVE  wire' \in [Channels -> Seq(Messages)]
<1>1. ASSUME c \in Channels PROVE Append(wire[c], m) \in Seq(Messages)
  BY <1>1
<1> QED
  BY <1>1 DEF Send

LEMMA ReceiveType ==
  ASSUME wire \in [Channels -> Seq(Messages)], NEW c \in Channels, Receive(c)
  PROVE  wire' \in [Channels -> Seq(Messages)]
<1>1. Tail(wire[c]) \in Seq(Messages)
  BY DEF Receive
<1> QED
  BY <1>1 DEF Receive

LEMMA TypeInit == Init => TypeOK
<1> SUFFICES ASSUME Init PROVE TypeOK
  OBVIOUS
<1>1. \A t \in Threads : 1 \in Legs(t[2])
  BY LegsNat, Pairs DEF Legs
<1> QED
  BY <1>1 DEF Init, TypeOK

LEMMA WireInit == ASSUME Paired PROVE Init => WireInv /\ LinkInv /\ QuietInv
<1> SUFFICES ASSUME Init PROVE WireInv /\ LinkInv /\ QuietInv
  OBVIOUS
<1> USE DEF MetAt, JoinedAt, TakenAt, PostedAt
<1>1. \A u \in Threads : \A k \in Legs(u[2]) :
        ~ Posted(u, k) /\ ~ Taken(u, k) /\ ~ Joined(u, k) /\ ~ Met(u, k)
  <2> SUFFICES ASSUME NEW u \in Threads, NEW k \in Legs(u[2])
               PROVE  ~ Posted(u, k) /\ ~ Taken(u, k) /\ ~ Joined(u, k) /\ ~ Met(u, k)
    OBVIOUS
  <2>1. leg[u] = 1 /\ pc[u] = "new" /\ ~ (k < 1)
    BY LegsNat, Pairs DEF Init, Legs
  <2> QED
    BY <2>1 DEF Posted, Taken, Joined, Met, Past
<1>2. WireInv
  <2> SUFFICES ASSUME NEW u \in Threads, NEW k \in Legs(u[2]) PROVE WirePart(u, k)
    BY WireParts
  <2>1. Meets(u, k) \in Threads /\ k \in Legs(Meets(u, k)[2])
    BY MeetsBack
  <2>2. wire[Out(u, k)] = <<>> /\ wire[Barrier(Out(u, k))] = <<>>
    BY OutIsChannel DEF Init
  <2> QED
    BY <1>1, <2>1, <2>2 DEF WirePart
<1>3. LinkInv
  BY <1>1 DEF Init, LinkInv
<1>4. QuietInv
  BY DEF Init, QuietInv
<1> QED
  BY <1>2, <1>3, <1>4

LEMMA TypeStep ==
  ASSUME Paired, TagsApart, TypeOK, WireInv, LinkInv, [Next]_vars
  PROVE  TypeOK'
<1>1. ASSUME NEW t \in Threads, Lock(t) PROVE TypeOK'
  BY <1>1, Pairs DEF Lock, TypeOK, Acquire, Goto
<1>2. ASSUME NEW t \in Threads, CallExchange(t) PROVE TypeOK'
  <2>1. Qp(t, leg[t]) \in AllQps
    BY QpIsQp DEF TypeOK
  <2>2. wire' \in [Channels -> Seq(Messages)]
    BY <1>2, <2>1, SendType DEF CallExchange, TypeOK, Messages
  <2> QED
    BY <1>2, <2>2, Pairs DEF CallExchange, TypeOK, Release, Goto, Messages
<1>3. ASSUME NEW t \in Threads, ExchangeReturns(t) PROVE TypeOK'
  <2>0. leg[t] \in Legs(t[2])
    BY DEF TypeOK
  <2>1. info'[t] \in AllQps
    <3>1. Meets(t, leg[t]) \in Threads /\ leg[t] \in Legs(Meets(t, leg[t])[2])
      BY <2>0, MeetsBack
    <3>2. info'[t] = Qp(Meets(t, leg[t]), leg[t])
      BY <1>3, ExchangeReturnsWire
    <3> QED
      BY <3>1, <3>2, QpIsQp
  <2>2. info' \in [Threads -> AllQps \union {NoQp}]
    BY <1>3, <2>1 DEF ExchangeReturns, TypeOK
  <2>3. wire' \in [Channels -> Seq(Messages)]
    <3>1. In(t, leg[t]) \in Channels
      BY <2>0, MeetsBack, InIsOut, OutIsChannel
    <3> QED
      BY <1>3, <3>1, ReceiveType DEF ExchangeReturns, TypeOK, Messages
  <2> QED
    BY <1>3, <2>2, <2>3 DEF ExchangeReturns, TypeOK, Goto, Messages
<1>4. ASSUME NEW t \in Threads, Relock(t) PROVE TypeOK'
  BY <1>4, Pairs DEF Relock, TypeOK, Acquire, Goto
<1>5. ASSUME NEW t \in Threads, CallBarrier(t) PROVE TypeOK'
  <2>1. wire' \in [Channels -> Seq(Messages)]
    BY <1>5, SendType DEF CallBarrier, TypeOK, Messages
  <2>2. \A u \in Threads : remote'[u] \in [Legs(u[2]) -> AllQps \union {NoQp}]
    BY <1>5 DEF CallBarrier, TypeOK
  <2> QED
    BY <1>5, <2>1, <2>2, Pairs DEF CallBarrier, TypeOK, Release, Goto, Messages
<1>6. ASSUME NEW t \in Threads, BarrierReturns(t) PROVE TypeOK'
  <2>1. wire' \in [Channels -> Seq(Messages)]
    <3>1. leg[t] \in Legs(t[2])
      BY DEF TypeOK
    <3>2. Barrier(In(t, leg[t])) \in Channels
      BY <3>1, MeetsBack, InIsOut, OutIsChannel
    <3> QED
      BY <1>6, <3>2, ReceiveType DEF BarrierReturns, TypeOK, Messages
  <2> QED
    BY <1>6, <2>1 DEF BarrierReturns, TypeOK, Goto, Messages
<1>7. ASSUME NEW t \in Threads, RelockCtx(t) PROVE TypeOK'
  BY <1>7, Pairs DEF RelockCtx, TypeOK, Acquire, Goto
<1>8. ASSUME NEW t \in Threads, InitNext(t) PROVE TypeOK'
  <2>1. leg[t] + 1 \in Legs(t[2])
    BY <1>8, LegsNat, Pairs DEF InitNext, TypeOK, Legs
  <2> QED
    BY <1>8, <2>1 DEF InitNext, TypeOK, Goto
<1>9. ASSUME NEW t \in Threads, InitLast(t) PROVE TypeOK'
  BY <1>9 DEF InitLast, TypeOK, Goto
<1>10. ASSUME NEW t \in Threads, Unlock(t) PROVE TypeOK'
  BY <1>10, Pairs DEF Unlock, TypeOK, Release, Goto
<1>11. ASSUME NEW t \in Threads, Throw(t) PROVE TypeOK'
  BY <1>11 DEF Throw, TypeOK
<1>12. ASSUME UNCHANGED vars PROVE TypeOK'
  BY <1>12 DEF vars, TypeOK
<1> QED
  BY <1>1, <1>2, <1>3, <1>4, <1>5, <1>6, <1>7, <1>8, <1>9, <1>10, <1>11, <1>12
     DEF Next, Thread, Over

(* The steps that use no wire and connect nothing. *)
LEMMA SilentStep ==
  ASSUME Paired, TypeOK, WireInv, LinkInv, NEW t \in Threads,
         \/ Lock(t) \/ Relock(t) \/ RelockCtx(t) \/ InitLast(t) \/ Unlock(t)
  PROVE  WireInv' /\ LinkInv'
<1> DOMAIN pc = Threads
  BY DEF TypeOK
<1>1. /\ leg' = leg /\ wire' = wire /\ remote' = remote /\ info' = info
      /\ pc' = [pc EXCEPT ![t] = pc'[t]]
      /\ \/ pc[t] = "new" /\ pc'[t] = "create"
         \/ pc[t] = "relock" /\ pc'[t] = "connect"
         \/ pc[t] = "relockCtx" /\ pc'[t] = "ctx"
         \/ pc[t] = "ctx" /\ pc'[t] = "fin"
         \/ pc[t] = "fin" /\ pc'[t] = "done"
  BY DEF Lock, Relock, RelockCtx, InitLast, Unlock, At, Goto
<1> QED
  BY <1>1, SamePast, WireSame, LinkSame

(* finish goes on to the next QP, of which nothing has happened yet. *)
LEMMA NextLegStep ==
  ASSUME Paired, TypeOK, WireInv, LinkInv, NEW t \in Threads, InitNext(t)
  PROVE  WireInv' /\ LinkInv'
<1> USE DEF MetAt, JoinedAt, TakenAt, PostedAt
<1>1. /\ leg' = [leg EXCEPT ![t] = leg[t] + 1] /\ pc[t] = "ctx"
      /\ wire' = wire /\ remote' = remote /\ info' = info
      /\ pc' = [pc EXCEPT ![t] = "create"]
  BY DEF InitNext, At, Goto
<1>2. \A u \in Threads : \A k \in Legs(u[2]) :
        /\ Posted(u, k)' <=> Posted(u, k)
        /\ Taken(u, k)' <=> Taken(u, k)
        /\ Joined(u, k)' <=> Joined(u, k)
        /\ Met(u, k)' <=> Met(u, k)
        /\ (k = leg'[u] /\ pc'[u] \in {"relock", "connect"}) =>
              (k = leg[u] /\ pc[u] \in {"relock", "connect"})
  <2> SUFFICES ASSUME NEW u \in Threads, NEW k \in Legs(u[2])
               PROVE  /\ Posted(u, k)' <=> Posted(u, k)
                      /\ Taken(u, k)' <=> Taken(u, k)
                      /\ Joined(u, k)' <=> Joined(u, k)
                      /\ Met(u, k)' <=> Met(u, k)
                      /\ (k = leg'[u] /\ pc'[u] \in {"relock", "connect"}) =>
                            (k = leg[u] /\ pc[u] \in {"relock", "connect"})
    OBVIOUS
  <2>1. k \in Nat /\ leg[u] \in Nat /\ DOMAIN pc = Threads /\ DOMAIN leg = Threads
    BY LegsNat, Pairs DEF TypeOK
  <2>2. CASE u = t
    <3>1. leg'[u] = leg[u] + 1 /\ pc'[u] = "create" /\ pc[u] = "ctx"
      BY <1>1, <2>1, <2>2
    <3> QED
      BY <2>1, <3>1 DEF Past, Posted, Taken, Joined, Met
  <2>3. CASE u # t
    <3>1. leg'[u] = leg[u] /\ pc'[u] = pc[u]
      BY <1>1, <2>1, <2>3
    <3> QED
      BY <3>1 DEF Past, Posted, Taken, Joined, Met
  <2> QED
    BY <2>2, <2>3
<1> QED
  BY <1>1, <1>2, WireSame, LinkSame

(* Of the others only two change what is connected, or what to connect to. *)
LEMMA LinkStep ==
  ASSUME Paired, TagsApart, TypeOK, WireInv, LinkInv, NEW t \in Threads,
         CallExchange(t) \/ ExchangeReturns(t) \/ CallBarrier(t) \/ BarrierReturns(t)
  PROVE  LinkInv'
<1> DEFINE l == leg[t]
<1> USE DEF MetAt, JoinedAt, TakenAt, PostedAt
<1> l \in Legs(t[2]) /\ DOMAIN pc = Threads
  BY DEF TypeOK
<1>0. leg' = leg /\ pc' = [pc EXCEPT ![t] = pc'[t]]
  BY DEF CallExchange, ExchangeReturns, CallBarrier, BarrierReturns, Goto
<1> SUFFICES ASSUME NEW u \in Threads, NEW k \in Legs(u[2]) PROVE LinkPart(u, k)'
  BY DEF LinkInv, LinkPart
<1>1. LinkPart(u, k)
  BY LinkParts
<1>2. CASE CallExchange(t)
  <2>1. pc[t] = "create" /\ pc'[t] = "exchange" /\ remote' = remote /\ info' = info
    BY <1>2 DEF CallExchange, At, Goto
  <2>2. Joined(u, k)' <=> Joined(u, k)
    BY <1>0, <2>1, Advance, Here
  <2> QED
    BY <1>0, <1>1, <2>1, <2>2 DEF LinkPart
<1>3. CASE ExchangeReturns(t)
  <2>1. pc[t] = "exchange" /\ pc'[t] = "relock" /\ remote' = remote
    BY <1>3 DEF ExchangeReturns, At, Goto
  <2>2. Joined(u, k)' <=> Joined(u, k)
    BY <1>0, <2>1, Advance, Here
  <2>3. info'[t] = Qp(Meets(t, l), l) /\ (u # t => info'[u] = info[u])
    BY <1>3, ExchangeReturnsWire DEF ExchangeReturns, TypeOK
  <2> QED
    BY <1>0, <1>1, <2>1, <2>2, <2>3 DEF LinkPart
<1>4. CASE CallBarrier(t)
  <2>1. pc[t] = "connect" /\ pc'[t] = "barrier" /\ info' = info
    BY <1>4 DEF CallBarrier, At, Goto
  <2>2. Joined(u, k)' <=> Joined(u, k) \/ (u = t /\ k = l)
    BY <1>0, <2>1, Advance, Here
  <2>3. info[t] = Qp(Meets(t, l), l)
    BY <2>1, LinkParts DEF LinkPart
  <2>4. remote'[u][k] = IF u = t /\ k = l THEN info[t] ELSE remote[u][k]
    <3>1. remote' = [remote EXCEPT ![t] = [remote[t] EXCEPT ![l] = info[t]]]
      BY <1>4 DEF CallBarrier
    <3>2. DOMAIN remote = Threads /\ DOMAIN remote[t] = Legs(t[2])
      BY DEF TypeOK
    <3> QED
      BY <3>1, <3>2
  <2> QED
    BY <1>0, <1>1, <2>1, <2>2, <2>3, <2>4 DEF LinkPart
<1>5. CASE BarrierReturns(t)
  <2>1. pc[t] = "barrier" /\ pc'[t] = "relockCtx" /\ remote' = remote /\ info' = info
    BY <1>5 DEF BarrierReturns, At, Goto
  <2>2. Joined(u, k)' <=> Joined(u, k)
    BY <1>0, <2>1, Advance, Here
  <2> QED
    BY <1>0, <1>1, <2>1, <2>2 DEF LinkPart
<1> QED
  BY <1>2, <1>3, <1>4, <1>5

LEMMA QuietStep ==
  ASSUME Paired, TypeOK, QuietInv, [Next]_vars
  PROVE  QuietInv'
<1> SUFFICES ASSUME NEW c \in Channels,
                    \A t \in Threads : \A k \in Legs(t[2]) :
                      c # Out(t, k) /\ c # Barrier(Out(t, k))
             PROVE  wire'[c] = <<>>
  BY DEF QuietInv
<1>1. wire[c] = <<>>
  BY DEF QuietInv
<1>2. ASSUME NEW t \in Threads, CallExchange(t) PROVE wire'[c] = wire[c]
  BY <1>2 DEF CallExchange, Send, TypeOK
<1>3. ASSUME NEW t \in Threads, CallBarrier(t) PROVE wire'[c] = wire[c]
  BY <1>3 DEF CallBarrier, Send, TypeOK
<1>4. ASSUME NEW t \in Threads, ExchangeReturns(t) \/ BarrierReturns(t) PROVE wire'[c] = wire[c]
  <2>1. leg[t] \in Legs(t[2])
    BY DEF TypeOK
  <2>2. c # In(t, leg[t]) /\ c # Barrier(In(t, leg[t]))
    BY <2>1, MeetsBack, InIsOut
  <2> QED
    BY <1>4, <2>2 DEF ExchangeReturns, BarrierReturns, Receive, TypeOK
<1>5. CASE UNCHANGED wire
  BY <1>1, <1>5
<1> QED
  BY <1>1, <1>2, <1>3, <1>4, <1>5
     DEF Next, Thread, Over, vars, Lock, Relock, RelockCtx, InitNext, InitLast, Unlock, Throw

LEMMA LastLegStep ==
  ASSUME TypeOK, LastLeg, [Next]_vars
  PROVE  LastLeg'
<1> DOMAIN pc = Threads /\ DOMAIN leg = Threads
  BY DEF TypeOK
<1> USE DEF LastLeg, At, Goto
<1>1. ASSUME NEW t \in Threads, InitNext(t) PROVE LastLeg'
  BY <1>1 DEF InitNext
<1>2. ASSUME NEW t \in Threads, InitLast(t) \/ Unlock(t) PROVE LastLeg'
  BY <1>2 DEF InitLast, Unlock
<1>3. ASSUME NEW t \in Threads, NEW u \in Threads,
             Lock(t) \/ CallExchange(t) \/ ExchangeReturns(t) \/ Relock(t)
               \/ CallBarrier(t) \/ BarrierReturns(t) \/ RelockCtx(t),
             pc'[u] \in {"fin", "done"}
      PROVE  pc[u] \in {"fin", "done"} /\ leg' = leg
  BY <1>3 DEF Lock, CallExchange, ExchangeReturns, Relock, CallBarrier, BarrierReturns,
              RelockCtx
<1>4. ASSUME UNCHANGED <<pc, leg>> PROVE LastLeg'
  BY <1>4
<1> QED
  BY <1>1, <1>2, <1>3, <1>4 DEF Next, Thread, Over, Throw, vars

LEMMA Inductive ==
  ASSUME Paired, TagsApart, IInv, [Next]_vars
  PROVE  IInv'
<1> USE DEF IInv
<1>1. TypeOK'
  BY TypeStep
<1>2. MutexProtects'
  <2>1. HolderInv
    BY HolderIsMutex
  <2>2. HolderInv'
    BY <2>1, HolderStep
  <2>3. (HolderInv <=> MutexProtects)'
    BY HolderIsMutex, PTL
  <2> QED
    BY <2>2, <2>3
<1>3. WireInv' /\ LinkInv'
  <2>1. ASSUME NEW t \in Threads, Thread(t) PROVE WireInv' /\ LinkInv'
    BY <2>1, SilentStep, NextLegStep, LinkStep, CallExchangeWire, CallBarrierWire,
       ExchangeReturnsWire, BarrierReturnsWire DEF Thread
  <2>2. ASSUME NEW t \in Threads, Throw(t) PROVE WireInv' /\ LinkInv'
    <3>1. /\ pc' = pc /\ leg' = leg
          /\ wire' = wire /\ remote' = remote /\ info' = info
      BY <2>2 DEF Throw
    <3> QED
      BY <3>1 DEF WireInv, LinkInv, Past, Posted, Taken, Joined, Met
  <2>3. ASSUME UNCHANGED vars PROVE WireInv' /\ LinkInv'
    BY <2>3 DEF vars, WireInv, LinkInv, Past, Posted, Taken, Joined, Met
  <2> QED
    BY <2>1, <2>2, <2>3 DEF Next, Over
<1>4. QuietInv'
  BY QuietStep
<1>5. LastLeg'
  BY LastLegStep
<1> QED
  BY <1>1, <1>2, <1>3, <1>4, <1>5

(* The inductive invariant holds of every behaviour: what is on the wire   *)
(* and what is connected follow from how far the two ends of a connection  *)
(* have come (the handshake in init of qps.cc).                            *)
THEOREM Invariance == ASSUME Paired, TagsApart PROVE Spec => []IInv
<1>1. Init => IInv
  <2>1. Init => LastLeg
    BY DEF Init, LastLeg
  <2> QED
    BY <2>1, TypeInit, HolderInit, HolderIsMutex, WireInit DEF IInv
<1>2. IInv /\ [Next]_vars => IInv'
  BY Inductive
<1> QED
  BY <1>1, <1>2, PTL DEF Spec

(* The types of the handshake: threads, QPs and what is under way.         *)
THEOREM TypeCorrect == ASSUME Paired, TagsApart PROVE Spec => []TypeOK
<1>1. IInv => TypeOK
  BY DEF IInv
<1> QED
  BY <1>1, Invariance, PTL

(* ctx->mtx keeps the threads of a process apart, through every unlock and *)
(* lock of init and whatever call throws (MutexProtects).                  *)
THEOREM OneThreadInside == ASSUME Paired, TagsApart PROVE Spec => []MutexProtects
<1>1. IInv => MutexProtects
  BY DEF IInv
<1> QED
  BY <1>1, Invariance, PTL

(* After init of a QP the other end is connected, and to this QP           *)
(* (ReadyMeansConnected): its own barrier returns only when the peer has   *)
(* called it, and the peer calls it connected.                             *)
THEOREM ReadyIsConnected == ASSUME Paired, TagsApart PROVE Spec => []ReadyMeansConnected
<1>1. IInv => ReadyMeansConnected
  <2> SUFFICES ASSUME IInv, NEW t \in Threads, NEW k \in Legs(t[2]), Made(t, k)
               PROVE  \E u \in Threads : \E j \in Legs(u[2]) :
                        remote[t][k] = Qp(u, j) /\ remote[u][j] = Qp(t, k)
    BY DEF ReadyMeansConnected
  <2> DEFINE u == Meets(t, k)
  <2>1. u \in Threads /\ k \in Legs(u[2]) /\ Meets(u, k) = t
    BY MeetsBack
  <2>2. Met(t, k) /\ Joined(t, k)
    <3>1. leg[t] \in Legs(t[2])
      BY DEF IInv, TypeOK
    <3>2. pc[t] \in {"fin", "done"} => leg[t] = Len(Tag[t[2]])
      BY DEF IInv, LastLeg
    <3>3. pc[t] \in {"fin", "done"} => k < leg[t] \/ k = leg[t]
      BY <3>2, LegsNat, Pairs DEF Legs
    <3> QED
      BY <3>3 DEF Made, Met, Joined, Past, MetAt, JoinedAt
  <2>3. Joined(u, k)
    BY <2>1, <2>2 DEF IInv, WireInv
  <2>4. remote[t][k] = Qp(u, k) /\ remote[u][k] = Qp(t, k)
    BY <2>1, <2>2, <2>3 DEF IInv, LinkInv
  <2> QED
    BY <2>1, <2>4
<1> QED
  BY <1>1, Invariance, PTL

(* A ring is a ring: right QPs are connected to the left QPs of the rank   *)
(* to the right, and left ones to right ones (RingCloses).                 *)
THEOREM RingIsClosed == ASSUME Paired, TagsApart PROVE Spec => []RingCloses
<1>1. IInv => RingCloses
  <2> SUFFICES ASSUME IInv, NEW t \in Ranks \X Rings, NEW k \in Legs(t[2]), remote[t][k] # NoQp
               PROVE  LET u == remote[t][k].thread
                          j == remote[t][k].leg
                      IN  /\ u[2] = t[2]
                          /\ Side(t[1], k) # Side(u[1], j)
                          /\ u[1] = IF Side(t[1], k) = "right" THEN RightRank(t[1])
                                                             ELSE LeftRank(t[1])
    BY DEF RingCloses
  <2>1. t \in Threads /\ t[1] \in Ranks /\ t[2] \in Rings
    BY DEF Threads, Graphs
  <2>2. remote[t][k] = Qp(Meets(t, k), k)
    BY <2>1 DEF IInv, LinkInv
  <2>3. remote[t][k].thread = Meets(t, k) /\ remote[t][k].leg = k
    BY <2>2 DEF Qp
  <2>4. /\ Meets(t, k)[2] = t[2]
        /\ Meets(t, k)[1] = IF Side(t[1], k) = "right" THEN RightRank(t[1])
                                                      ELSE LeftRank(t[1])
    BY <2>1, ConnectShape DEF Meets, Peer
  <2>5. Side(Meets(t, k)[1], k) # Side(t[1], k)
    BY <2>1, <2>4, SideTurns DEF Paired
  <2> QED
    BY <2>3, <2>4, <2>5
<1> QED
  BY <1>1, Invariance, PTL

(* A finished handshake leaves no message behind (NothingLeftOver).        *)
THEOREM WireIsEmptied == ASSUME Paired, TagsApart PROVE Spec => []NothingLeftOver
<1>1. IInv => NothingLeftOver
  <2> SUFFICES ASSUME IInv, AllDone, NEW c \in Channels PROVE wire[c] = <<>>
    BY DEF NothingLeftOver
  <2>1. \A t \in Threads : \A k \in Legs(t[2]) : Taken(t, k) /\ Met(t, k)
    <3> SUFFICES ASSUME NEW t \in Threads, NEW k \in Legs(t[2]) PROVE Taken(t, k) /\ Met(t, k)
      OBVIOUS
    <3>1. pc[t] = "done" /\ leg[t] = Len(Tag[t[2]])
      BY DEF AllDone, IInv, LastLeg
    <3>2. k < leg[t] \/ k = leg[t]
      BY <3>1, LegsNat, Pairs DEF Legs
    <3> QED
      BY <3>1, <3>2 DEF Taken, Met, Past, TakenAt, JoinedAt, MetAt
  <2>2. ASSUME NEW t \in Threads, NEW k \in Legs(t[2])
        PROVE  wire[Out(t, k)] = <<>> /\ wire[Barrier(Out(t, k))] = <<>>
    <3>1. Taken(Meets(t, k), k) /\ Met(Meets(t, k), k)
      BY <2>1, MeetsBack
    <3> QED
      BY <3>1 DEF IInv, WireInv
  <2> QED
    BY <2>2 DEF IInv, QuietInv
<1> QED
  BY <1>1, Invariance, PTL
=============================================================================
