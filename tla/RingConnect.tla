---------------------------- MODULE RingConnect ----------------------------
(***************************************************************************)
(* How the queue pairs of N processes find each other (RingPair, RingQp    *)
(* and DoublingQp of qps.cc).  Each process builds its graphs in threads   *)
(* of their own, one graph a thread.  All threads of a process share the   *)
(* verbs context and its mutex: CommGraph's constructor locks it, finish() *)
(* unlocks it, and init() of each QP gives it up twice, to exchange        *)
(* addresses with the QP at the other end and to meet it in a barrier.     *)
(*                                                                         *)
(* exchange and barrier are the application's: a blocking send and receive *)
(* with one peer under one tag.  What the program sends is modelled as the *)
(* name of the QP, what it receives as the name of whoever it connects to. *)
(***************************************************************************)
EXTENDS Integers, Sequences

CONSTANTS
  N,              \* commSize
  Rings,          \* the graphs built on a RingPair
  Doublings,      \* the graphs built on a list of DoublingQps
  Tag,            \* Tag[g][k]: the tag given to the k-th QP of graph g;
                  \* of a RingPair these are tag1 and tag2
  DblPeer,        \* DblPeer[g][k][r]: the peer that rank r of a doubling
                  \* graph names for its k-th QP (the application's choice)
  BarrierOffset,  \* 0xf000 in the program
  MayThrow        \* verbs calls may fail

Ranks == 0 .. N - 1
Graphs == Rings \union Doublings
Threads == Ranks \X Graphs
Legs(g) == 1 .. Len(Tag[g])

ASSUME ConnectShape ==
  /\ N \in Nat /\ N >= 2
  /\ "free" \notin Graphs
  /\ Rings \intersect Doublings = {}
  /\ Tag \in [Graphs -> Seq(Nat)]
  /\ \A g \in Rings : Len(Tag[g]) = 2
  /\ \A g \in Doublings : Len(Tag[g]) >= 1
  /\ \A g \in Doublings : \A k \in Legs(g) : \A r \in Ranks :
       /\ DblPeer[g][k][r] \in Ranks \ {r}
       /\ DblPeer[g][k][DblPeer[g][k][r]] = r
  /\ BarrierOffset \in Nat
  /\ MayThrow \in BOOLEAN

VARIABLES
  holder,  \* holder[r]: the graph whose thread holds ctx->mtx in process r
  pc,      \* where the thread is
  leg,     \* which of its QPs init is at
  wire,    \* wire[c]: what has been sent on channel c and not received
  info,    \* remote_info of the init under way
  remote,  \* remote[t][k]: the QP that t's k-th QP is connected to
  thrown   \* the threads that an exception has ended

vars == <<holder, pc, leg, wire, info, remote, thrown>>

Free == "free"
NoQp == [thread |-> "none"]
Ack == [thread |-> "ack"]
Qp(t, k) == [thread |-> t, leg |-> k]

(* Mutant: every rank makes its left QP first. *)
LeftFirst(r, k) == IF k = 1 THEN "left" ELSE "right"

(* RingPair: odd ranks make the right QP first, even ranks the left one. *)
Side(r, k) == IF (r % 2 = 1) = (k = 1) THEN "right" ELSE "left"

RightRank(r) == (r + 1) % N
LeftRank(r) == (r - 1 + N) % N

Peer(r, g, k) ==
  IF g \in Doublings THEN DblPeer[g][k][r]
  ELSE IF Side(r, k) = "right" THEN RightRank(r)
  ELSE LeftRank(r)

(* A channel of the application: from, to and tag. *)
Out(t, k) == <<t[1], Peer(t[1], t[2], k), Tag[t[2]][k]>>
In(t, k) == <<Peer(t[1], t[2], k), t[1], Tag[t[2]][k]>>
Barrier(c) == <<c[1], c[2], c[3] + BarrierOffset>>

Tags ==
  LET given == UNION {{Tag[g][k] : k \in Legs(g)} : g \in Graphs}
  IN  given \union {n + BarrierOffset : n \in given}
Channels == Ranks \X Ranks \X Tags
-----------------------------------------------------------------------------
Init ==
  /\ holder = [r \in Ranks |-> Free]
  /\ pc = [t \in Threads |-> "new"]
  /\ leg = [t \in Threads |-> 1]
  /\ wire = [c \in Channels |-> <<>>]
  /\ info = [t \in Threads |-> NoQp]
  /\ remote = [t \in Threads |-> [k \in Legs(t[2]) |-> NoQp]]
  /\ thrown = {}

At(t, place) == pc[t] = place /\ t \notin thrown

Goto(t, place) == pc' = [pc EXCEPT ![t] = place]

Send(c, m) == wire' = [wire EXCEPT ![c] = Append(@, m)]

Receive(c) == wire[c] # <<>> /\ wire' = [wire EXCEPT ![c] = Tail(@)]

Acquire(t) == holder[t[1]] = Free /\ holder' = [holder EXCEPT ![t[1]] = t[2]]

Release(t) == holder' = [holder EXCEPT ![t[1]] = Free]

(* The constructor of CommGraph. *)
Lock(t) ==
  /\ At(t, "new")
  /\ Acquire(t)
  /\ Goto(t, "create")
  /\ UNCHANGED <<leg, wire, info, remote, thrown>>

(* Mutant: the mutex is kept during the exchange. *)
CallExchangeLocked(t) ==
  /\ At(t, "create")
  /\ Send(Out(t, leg[t]), Qp(t, leg[t]))
  /\ Goto(t, "exchange")
  /\ UNCHANGED <<holder, leg, info, remote, thrown>>

(* init: the CQs and the QP are there; unlock, then exchange sends. *)
CallExchange(t) ==
  /\ At(t, "create")
  /\ Release(t)
  /\ Send(Out(t, leg[t]), Qp(t, leg[t]))
  /\ Goto(t, "exchange")
  /\ UNCHANGED <<leg, info, remote, thrown>>

(* exchange has received the peer's answer. *)
ExchangeReturns(t) ==
  /\ At(t, "exchange")
  /\ Receive(In(t, leg[t]))
  /\ info' = [info EXCEPT ![t] = Head(wire[In(t, leg[t])])]
  /\ Goto(t, "relock")
  /\ UNCHANGED <<holder, leg, remote, thrown>>

(* Mutant: init goes on without the mutex. *)
RelockMissing(t) ==
  /\ At(t, "relock")
  /\ Goto(t, "connect")
  /\ UNCHANGED <<holder, leg, wire, info, remote, thrown>>

(* init: lock after the exchange. *)
Relock(t) ==
  /\ At(t, "relock")
  /\ Acquire(t)
  /\ Goto(t, "connect")
  /\ UNCHANGED <<leg, wire, info, remote, thrown>>

(* init: rc_qp_connect; unlock, then barrier sends. *)
CallBarrier(t) ==
  /\ At(t, "connect")
  /\ remote' = [remote EXCEPT ![t][leg[t]] = info[t]]
  /\ Release(t)
  /\ Send(Barrier(Out(t, leg[t])), Ack)
  /\ Goto(t, "barrier")
  /\ UNCHANGED <<leg, info, thrown>>

(* Mutant: the barrier does not wait. *)
BarrierSkipped(t) ==
  /\ At(t, "barrier")
  /\ Goto(t, "relockCtx")
  /\ UNCHANGED <<holder, leg, wire, info, remote, thrown>>

(* barrier has heard of the peer. *)
BarrierReturns(t) ==
  /\ At(t, "barrier")
  /\ Receive(Barrier(In(t, leg[t])))
  /\ Goto(t, "relockCtx")
  /\ UNCHANGED <<holder, leg, info, remote, thrown>>

(* init: lock after the barrier. *)
RelockCtx(t) ==
  /\ At(t, "relockCtx")
  /\ Acquire(t)
  /\ Goto(t, "ctx")
  /\ UNCHANGED <<leg, wire, info, remote, thrown>>

(* Mutant: init is called past the last QP. *)
InitBeyond(t) ==
  /\ At(t, "ctx")
  /\ leg' = [leg EXCEPT ![t] = @ + 1]
  /\ Goto(t, "create")
  /\ UNCHANGED <<holder, wire, info, remote, thrown>>

(* init: the qp_ctx is made (its sizes and pair are in CommGraph); finish  *)
(* goes on to the next QP.                                                 *)
InitNext(t) ==
  /\ At(t, "ctx")
  /\ leg[t] < Len(Tag[t[2]])
  /\ leg' = [leg EXCEPT ![t] = @ + 1]
  /\ Goto(t, "create")
  /\ UNCHANGED <<holder, wire, info, remote, thrown>>

(* The same of the last QP. *)
InitLast(t) ==
  /\ At(t, "ctx")
  /\ leg[t] = Len(Tag[t[2]])
  /\ Goto(t, "fin")
  /\ UNCHANGED <<holder, leg, wire, info, remote, thrown>>

(* finish: the queues are written and rung; unlock. *)
Unlock(t) ==
  /\ At(t, "fin")
  /\ Release(t)
  /\ Goto(t, "done")
  /\ UNCHANGED <<leg, wire, info, remote, thrown>>

(* A verbs call fails: creating the CQs and the QP, or connecting it.  The *)
(* exception leaves finish() with the mutex locked.                        *)
Throw(t) ==
  /\ MayThrow
  /\ At(t, "create") \/ At(t, "connect")
  /\ thrown' = thrown \union {t}
  /\ UNCHANGED <<holder, pc, leg, wire, info, remote>>

Thread(t) ==
  \/ Lock(t) \/ CallExchange(t) \/ ExchangeReturns(t) \/ Relock(t)
  \/ CallBarrier(t) \/ BarrierReturns(t) \/ RelockCtx(t)
  \/ InitNext(t) \/ InitLast(t) \/ Unlock(t)

AllDone == \A t \in Threads : pc[t] = "done"

(* Nothing more to do; or an exception has left a mutex locked and a peer  *)
(* without an answer, which the others may wait for in vain.               *)
Over == (AllDone \/ thrown # {}) /\ UNCHANGED vars

Next == (\E t \in Threads : Thread(t) \/ Throw(t)) \/ Over

(* Every thread is scheduled, and exchange returns once both ends call it. *)
Spec == Init /\ [][Next]_vars /\ \A t \in Threads : WF_vars(Thread(t))
-----------------------------------------------------------------------------
AllQps == UNION {{Qp(t, k) : k \in Legs(t[2])} : t \in Threads}

TypeOK ==
  /\ holder \in [Ranks -> Graphs \union {Free}]
  /\ pc \in [Threads -> {"new", "create", "exchange", "relock", "connect", "barrier",
                         "relockCtx", "ctx", "fin", "done"}]
  /\ leg \in [Threads -> Nat]
  /\ \A t \in Threads : leg[t] \in Legs(t[2])
  /\ wire \in [Channels -> Seq(AllQps \union {Ack})]
  /\ info \in [Threads -> AllQps \union {NoQp}]
  /\ DOMAIN remote = Threads
  /\ \A t \in Threads : remote[t] \in [Legs(t[2]) -> AllQps \union {NoQp}]
  /\ thrown \subseteq Threads

(* The tags are the application's: none is used twice, and no barrier tag  *)
(* is the tag of an exchange.                                              *)
TagsApart ==
  /\ \A g, h \in Graphs : \A j \in Legs(g), k \in Legs(h) :
       /\ Tag[g][j] # Tag[h][k] + BarrierOffset
       /\ Tag[g][j] = Tag[h][k] => g = h /\ j = k

(* RingPair's order by parity needs an even number of ranks.               *)
Paired == Rings = {} \/ N % 2 = 0

(* Where the code works on the context or its device objects. *)
Inside(t) == pc[t] \in {"create", "connect", "ctx", "fin"}

(* No two threads of a process work on the context at once, though init    *)
(* gives the mutex up in its middle, twice (qps.cc, init of RingQp and     *)
(* DoublingQp, against the constructor and finish of CommGraph).           *)
MutexProtects ==
  \A r \in Ranks : \A g \in Graphs :
    Inside(<<r, g>>) => /\ holder[r] = g
                        /\ \A h \in Graphs \ {g} : ~ Inside(<<r, h>>)

(* The init of t's k-th QP has returned. *)
Made(t, k) == k < leg[t] \/ pc[t] \in {"fin", "done"}

(* Once init of a QP has returned, the QP at the other end is connected,   *)
(* and to this one: nothing the device sends from then on can be lost for  *)
(* want of a connection (what the exchange and the barrier are for).       *)
ReadyMeansConnected ==
  \A t \in Threads : \A k \in Legs(t[2]) :
    Made(t, k) =>
      \E u \in Threads : \E j \in Legs(u[2]) :
        remote[t][k] = Qp(u, j) /\ remote[u][j] = Qp(t, k)

(* The right QP of a rank is connected to the left QP of the rank to its   *)
(* right, in the same graph, and the other way round (RingPair).           *)
RingCloses ==
  \A t \in Ranks \X Rings : \A k \in Legs(t[2]) :
    remote[t][k] # NoQp =>
      LET u == remote[t][k].thread
          j == remote[t][k].leg
      IN  /\ u[2] = t[2]
          /\ Side(t[1], k) # Side(u[1], j)
          /\ u[1] = IF Side(t[1], k) = "right" THEN RightRank(t[1]) ELSE LeftRank(t[1])

(* When all graphs are built nothing is left on the wire that the next use *)
(* of a tag could take for its own.                                        *)
NothingLeftOver == AllDone => \A c \in Channels : wire[c] = <<>>

(* Unless a verbs call fails every graph is built, however the threads and *)
(* the processes interleave (the order of RingPair's two handshakes, and   *)
(* the mutex given up in init).                                            *)
EverybodyConnects == <>(AllDone \/ thrown # {})
-----------------------------------------------------------------------------
(* The inductive invariant of the proofs in RingConnectProofs.             *)

(* The thread at the other end of t's k-th QP. *)
Meets(t, k) == <<Peer(t[1], t[2], k), t[2]>>

(* How far t has come with its k-th QP: it has met its peer in the         *)
(* barrier; it is connected and has called the barrier; it has received    *)
(* the peer's address; it has sent its own.                                *)
MetAt == {"relockCtx", "ctx", "fin", "done"}
JoinedAt == MetAt \union {"barrier"}
TakenAt == JoinedAt \union {"relock", "connect"}
PostedAt == TakenAt \union {"exchange"}

Past(t, k, places) == k < leg[t] \/ (k = leg[t] /\ pc[t] \in places)
Met(t, k) == Past(t, k, MetAt)
Joined(t, k) == Past(t, k, JoinedAt)
Taken(t, k) == Past(t, k, TakenAt)
Posted(t, k) == Past(t, k, PostedAt)

(* A channel carries what one end has sent and the other not yet taken.    *)
WireInv ==
  \A t \in Threads : \A k \in Legs(t[2]) :
    /\ Taken(Meets(t, k), k) => Posted(t, k)
    /\ Met(Meets(t, k), k) => Joined(t, k)
    /\ wire[Out(t, k)] =
         IF Posted(t, k) /\ ~ Taken(Meets(t, k), k) THEN <<Qp(t, k)>> ELSE <<>>
    /\ wire[Barrier(Out(t, k))] =
         IF Joined(t, k) /\ ~ Met(Meets(t, k), k) THEN <<Ack>> ELSE <<>>

(* The k-th QPs of the two ends are connected to each other. *)
LinkInv ==
  \A t \in Threads : \A k \in Legs(t[2]) :
    /\ remote[t][k] = IF Joined(t, k) THEN Qp(Meets(t, k), k) ELSE NoQp
    /\ (k = leg[t] /\ pc[t] \in {"relock", "connect"}) => info[t] = Qp(Meets(t, k), k)

(* Nothing is ever sent on a channel that no QP uses. *)
QuietInv ==
  \A c \in Channels :
    (\A t \in Threads : \A k \in Legs(t[2]) : c # Out(t, k) /\ c # Barrier(Out(t, k)))
      => wire[c] = <<>>

(* Whoever has left the loop over the QPs has been through all of them.    *)
LastLeg == \A t \in Threads : pc[t] \in {"fin", "done"} => leg[t] = Len(Tag[t[2]])

IInv == TypeOK /\ MutexProtects /\ WireInv /\ LinkInv /\ QuietInv /\ LastLeg
=============================================================================
