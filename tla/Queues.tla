------------------------------- MODULE Queues -------------------------------
(***************************************************************************)
(* The verbs objects of graphs (qps.cc): finish() creates for each QP of a *)
(* graph its CQs and the QP and connects it, the destructors take them     *)
(* down.  Here is what CommGraph and RingConnect leave out: calls that     *)
(* fail half way, and what the destructors do to a graph that was not      *)
(* finished or built in part.  The handshake is only the time in which the *)
(* mutex is given up; DoublingQp::init makes RingQp::init's calls.         *)
(*                                                                         *)
(* The author's operations are left out but for this: whether a QP has a   *)
(* WQE to execute (busy).                                                  *)
(***************************************************************************)
EXTENDS NetMem

CONSTANTS
  MaxQps,  \* bound: QPs of a graph, the management QP counted
  MaxCqs   \* bound: CQs of a thread when it starts a graph

VARIABLES
  cqs,     \* the completion queues that exist
  graph,   \* graph[t]: the graph of thread t
  ctxMtx,  \* who has locked VerbCtx::mtx
  death    \* what the process has died of: a NULL that was dereferenced, a
           \* division by zero, an exception in a destructor, or "none"

queueVars == <<cqs, graph, ctxMtx, death>>

Nobody == "nobody"
NoGraph == [stage |-> "none"]

QueueInit ==
  /\ cqs = {}
  /\ graph = [t \in Threads |-> NoGraph]
  /\ ctxMtx = Nobody
  /\ death = "none"

alive == death = "none"

Untouched == UNCHANGED <<dm, mem, umrVars>>

DataKinds == {"loopback", "ring"}
Described(kind, busy) == [kind |-> kind, busy |-> busy]

KindAt(t) == graph[t].qps[Len(graph[t].made) + 1].kind
TwoCqs(kind) == kind = "ring"

(* CommGraph's constructor: the mutex is locked until the end of finish.   *)
NewGraph(t) ==
  /\ reg[t] = NotRegistering
  /\ graph[t] = NoGraph
  /\ "graph" \in Uses[t]
  /\ Cardinality({c \in cqs : c.of = t}) < MaxCqs
  /\ ctxMtx = Nobody
  /\ ctxMtx' = t
  /\ graph' = [graph EXCEPT ![t] = [stage |-> "built", qps |-> <<Described("management", FALSE)>>,
                                    step |-> "cq", made |-> <<>>, own |-> {}]]
  /\ UNCHANGED <<pd, fails, cqs, death>> /\ Untouched

Describes(t, g) ==
  /\ graph' = [graph EXCEPT ![t] = g]
  /\ UNCHANGED <<pd, fails, cqs, ctxMtx, death>> /\ Untouched

(* A data QP is constructed, which queues an enable on the management QP.  *)
NewQp(t, kind) ==
  /\ graph[t].stage = "built"
  /\ Len(graph[t].qps) < MaxQps
  /\ Describes(t, [graph[t] EXCEPT !.qps = Append([@ EXCEPT ![1].busy = TRUE],
                                                 Described(kind, FALSE))])

(* The first operation on a data QP; no other changes anything here.       *)
Operate(t) ==
  /\ graph[t].stage = "built"
  /\ \E i \in 2 .. Len(graph[t].qps) :
       /\ ~ graph[t].qps[i].busy
       /\ Describes(t, [graph[t] EXCEPT !.qps[i].busy = TRUE])

(* finish() up to the first init. *)
Finish(t) ==
  /\ graph[t].stage = "built"
  /\ Describes(t, [graph[t] EXCEPT !.stage = "init"])

At(t, step) == graph[t].stage = "init" /\ graph[t].step = step

(* An exception goes through finish with the mutex locked.  What there was *)
(* of the QP at hand is lost.                                              *)
Throws(t) == graph' = [graph EXCEPT ![t].stage = "failed", ![t].step = "cq", ![t].own = {}]

(* cd_create_cq; a CQ that cannot be set to ignore overrun is lost. *)
CreateCq(t) ==
  LET is == IF At(t, "cq") THEN "cq" ELSE "scq"
      cq == Fresh(cqs, is, t)
  IN  /\ At(t, "cq") \/ At(t, "scq")
      /\ \/ /\ cqs' = cqs \union {cq}
            /\ graph' = [graph EXCEPT ![t].own = @ \union {cq},
                           ![t].step = IF is = "cq" /\ TwoCqs(KindAt(t)) THEN "scq" ELSE "qp"]
            /\ UNCHANGED fails
         \/ Fails /\ Throws(t) /\ UNCHANGED cqs
         \/ Fails /\ Throws(t) /\ cqs' = cqs \union {cq}
      /\ UNCHANGED <<pd, ctxMtx, death>> /\ Untouched

(* The QP at hand exists, in the state given, and ibqp names it. *)
Named(t, qp, state, next) ==
  [graph EXCEPT ![t].made = Append(@, [obj |-> qp, state |-> state, cqs |-> graph[t].own]),
                ![t].own = {},
                ![t].step = next]

(* The QP at hand gets its qp_ctx, whose constructor divides by the number *)
(* of WQEs; then init of the next one, or the end of finish.               *)
Initiated(t, g) ==
  LET n == Len(g[t].made)
  IN  \/ /\ ~ g[t].qps[n].busy
         /\ death' = "division"
         /\ graph' = g /\ ctxMtx' = t
      \/ /\ g[t].qps[n].busy
         /\ IF n = Len(g[t].qps)
              THEN graph' = [g EXCEPT ![t].stage = "ready"] /\ ctxMtx' = Nobody
              ELSE graph' = [g EXCEPT ![t].step = "cq"] /\ ctxMtx' = t
         /\ UNCHANGED death

(* create_management_qp: only a refused RTR throws.  A QP that stays in    *)
(* RESET or RTR is returned like one that is ready.                        *)
CreateManagementQp(t) ==
  LET qp == Fresh(pd, "qp", t)
  IN  /\ At(t, "qp") /\ KindAt(t) = "management"
      /\ \/ Initiated(t, Named(t, qp, "RTS", "cq")) /\ UNCHANGED fails
         \/ Fails /\ \E state \in {"RESET", "RTR"} : Initiated(t, Named(t, qp, state, "cq"))
         \/ Fails /\ Throws(t) /\ UNCHANGED <<ctxMtx, death>>
      /\ pd' = pd \union {qp}
      /\ UNCHANGED cqs /\ Untouched

(* rc_qp_create; a QP that is refused INIT is lost.  RingQp::init gives up *)
(* the mutex for the exchange.                                             *)
CreateQp(t) ==
  LET qp == Fresh(pd, "qp", t)
      swap == TwoCqs(KindAt(t))
  IN  /\ At(t, "qp") /\ KindAt(t) # "management"
      /\ \/ /\ graph' = Named(t, qp, "INIT", IF swap THEN "exchange" ELSE "connect")
            /\ ctxMtx' = IF swap THEN Nobody ELSE t
            /\ UNCHANGED fails
         \/ Fails /\ Throws(t) /\ UNCHANGED ctxMtx
      /\ pd' = pd \union {qp}
      /\ UNCHANGED <<cqs, death>> /\ Untouched

(* ibv_exp_create_qp returned NULL, which is passed on and dereferenced    *)
(* (by ibv_modify_qp, or by the constructor of qp_ctx).                    *)
NoQp(t) ==
  /\ At(t, "qp")
  /\ Fails
  /\ death' = "null"
  /\ UNCHANGED <<pd, cqs, graph, ctxMtx>> /\ Untouched

(* rc_qp_connect, for a RingQp after the mutex is locked again; a refused  *)
(* RTR or RTS throws.  The barrier gives up the mutex once more.           *)
Connect(t) ==
  LET n == Len(graph[t].made)
      g == [graph EXCEPT ![t].made[n].state = "RTS"]
  IN  /\ \/ At(t, "connect")
         \/ At(t, "exchange") /\ ctxMtx = Nobody
      /\ \/ At(t, "connect") /\ Initiated(t, g) /\ UNCHANGED fails
         \/ /\ At(t, "exchange")
            /\ graph' = [g EXCEPT ![t].step = "barrier"] /\ ctxMtx' = Nobody
            /\ UNCHANGED <<fails, death>>
         \/ Fails /\ Throws(t) /\ ctxMtx' = t /\ UNCHANGED death
      /\ UNCHANGED <<pd, cqs>> /\ Untouched

BarrierDone(t) ==
  /\ At(t, "barrier")
  /\ ctxMtx = Nobody
  /\ Initiated(t, graph)
  /\ UNCHANGED <<pd, fails, cqs>> /\ Untouched

(* All QPs of the graph have been created. *)
Complete(t) ==
  /\ graph[t].stage \in {"ready", "failed"}
  /\ Len(graph[t].made) = Len(graph[t].qps)

Made(t) == {graph[t].made[i] : i \in 1 .. Len(graph[t].made)}
Cqs(objects) == {c \in objects : c.is = "cq"}

(* Mutant: the CQs go first and, being in use, stay. *)
DestroyCqsFirst(t) ==
  /\ Complete(t)
  /\ pd' = pd \ {q.obj : q \in Made(t)}
  /\ graph' = [graph EXCEPT ![t] = NoGraph]
  /\ UNCHANGED <<fails, cqs, ctxMtx, death>> /\ Untouched

(* The destructors: of each QP ibqp, then ibcq; ibscq is left.  They look  *)
(* at no return value: of one QP the CQ, or both, may stay.                *)
DeleteGraph(t) ==
  /\ Complete(t)
  /\ \/ /\ pd' = pd \ {q.obj : q \in Made(t)}
        /\ cqs' = cqs \ UNION {Cqs(q.cqs) : q \in Made(t)}
        /\ UNCHANGED fails
     \/ \E left \in Made(t) :
          /\ Fails
          /\ pd' \in {pd \ {q.obj : q \in Made(t)}, pd \ {q.obj : q \in Made(t) \ {left}}}
          /\ cqs' = cqs \ UNION {Cqs(q.cqs) : q \in Made(t) \ {left}}
  /\ graph' = [graph EXCEPT ![t] = NoGraph]
  /\ UNCHANGED <<ctxMtx, death>> /\ Untouched

(* The destructor of a QP whose ibqp was never set dereferences NULL,      *)
(* whether finish() was never called or threw.                             *)
DeleteUnmade(t) ==
  /\ graph[t].stage \in {"built", "failed"}
  /\ Len(graph[t].made) < Len(graph[t].qps)
  /\ death' = "null"
  /\ UNCHANGED <<pd, fails, cqs, graph, ctxMtx>> /\ Untouched

(* The author lets go of a graph that he did not finish, or whose finish() *)
(* threw; the mutex stays locked.                                          *)
Abandon(t) ==
  /\ graph[t].stage \in {"built", "failed"}
  /\ graph' = [graph EXCEPT ![t] = NoGraph]
  /\ UNCHANGED <<pd, fails, cqs, ctxMtx, death>> /\ Untouched

BuildGraph(t) ==
  CreateCq(t) \/ CreateManagementQp(t) \/ CreateQp(t) \/ NoQp(t) \/ Connect(t) \/ BarrierDone(t)
UseGraph(t) ==
  (\E kind \in DataKinds : NewQp(t, kind)) \/ Operate(t) \/ Finish(t)
    \/ DeleteGraph(t) \/ DeleteUnmade(t) \/ Abandon(t)
-----------------------------------------------------------------------------
(* A graph that finish() has announced as READY has all its QPs ready to   *)
(* send (create_management_qp, rc_qp_connect).                             *)
ReadyIsRts ==
  \A t \in Threads : graph[t].stage = "ready" =>
    \A q \in Made(t) : q.state = "RTS"
=============================================================================
