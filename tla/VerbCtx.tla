------------------------------ MODULE VerbCtx ------------------------------
(***************************************************************************)
(* The verbs context of a process (verbs_ctx.cc): one object, made by the  *)
(* first getInstance and deleted by the last remInstance, counted in       *)
(* between under iniMtx.  Threads that hold it construct memory (NetMem)   *)
(* and graphs (Queues) and have deleted, or given up, what they made when  *)
(* they call remInstance.                                                  *)
(*                                                                         *)
(* A context is known by its number.  The steps of the two calls between   *)
(* lock and unlock are kept apart where the other threads' unlocked read   *)
(* of the pointer could see the difference.                                *)
(***************************************************************************)
EXTENDS Queues

CONSTANTS
  MaxVisits, \* bound: calls of getInstance
  MaxHeld    \* bound: memory objects and graphs of a thread at a time

ASSUME ThreadsShape == IsFiniteSet(Threads) /\ Nobody \notin Threads

VARIABLES
  pc,        \* pc[t]: "out", "get", "return", "in", "rem", "delete" or "clear"
  instance,  \* VerbCtx::instance: the number of a context, 0 for NULL
  opened,    \* contexts constructed so far
  open,      \* the contexts whose verbs objects exist
  ref,       \* VerbCtx::ref
  safeFlag,
  iniMtx,    \* who has locked it
  got,       \* got[t]: what getInstance has returned to t
  visits     \* how often it has been called

ctxVars == <<pc, instance, opened, open, ref, safeFlag, iniMtx, got, visits>>
vars == <<memVars, queueVars, ctxVars>>

Init ==
  /\ MemInit
  /\ QueueInit
  /\ pc = [t \in Threads |-> "out"]
  /\ instance = 0
  /\ opened = 0
  /\ open = {}
  /\ ref = 0
  /\ safeFlag = FALSE
  /\ iniMtx = Nobody
  /\ got = [t \in Threads |-> 0]
  /\ visits = 0

Goto(t, place) == pc' = [pc EXCEPT ![t] = place]
-----------------------------------------------------------------------------
(* getInstance: iniMtx.lock(). *)
CallGet(t) ==
  /\ pc[t] = "out"
  /\ visits < MaxVisits
  /\ Goto(t, "get")
  /\ visits' = visits + 1
  /\ UNCHANGED <<memVars, queueVars, instance, opened, open, ref, safeFlag, iniMtx, got>>

(* The counter that was not 0, or is set by the constructor's caller. *)
Count(t) ==
  /\ ref' = ref + 1
  /\ Goto(t, "return")

GetShared(t) ==
  /\ pc[t] = "get"
  /\ iniMtx = Nobody
  /\ ref # 0
  /\ Count(t)
  /\ UNCHANGED <<memVars, queueVars, instance, opened, open, safeFlag, iniMtx, got, visits>>

(* The first one constructs the context; nobody else gets past iniMtx. *)
GetNew(t) ==
  /\ pc[t] = "get"
  /\ iniMtx = Nobody
  /\ ref = 0
  /\ ~ safeFlag
  /\ safeFlag' = TRUE
  /\ opened' = opened + 1
  /\ instance' = opened + 1
  /\ open' = open \union {opened + 1}
  /\ Count(t)
  /\ UNCHANGED <<memVars, queueVars, iniMtx, got, visits>>

(* The constructor throws: because a verbs call failed, or because there   *)
(* is a context.  iniMtx stays locked, safeFlag set.                       *)
GetThrows(t) ==
  /\ pc[t] = "get"
  /\ iniMtx = Nobody
  /\ ref = 0
  /\ IF safeFlag THEN UNCHANGED fails ELSE Fails
  /\ safeFlag' = TRUE
  /\ iniMtx' = t
  /\ Goto(t, "out")
  /\ UNCHANGED <<pd, dm, mem, umrVars, queueVars, instance, opened, open, ref, got, visits>>

(* return instance, read after the unlock. *)
GetReturns(t) ==
  /\ pc[t] = "return"
  /\ got' = [got EXCEPT ![t] = instance]
  /\ Goto(t, "in")
  /\ UNCHANGED <<memVars, queueVars, instance, opened, open, ref, safeFlag, iniMtx, visits>>
-----------------------------------------------------------------------------
CallRem(t) ==
  /\ pc[t] = "in"
  /\ reg[t] = NotRegistering /\ mem[t] = {} /\ graph[t] = NoGraph
  /\ Goto(t, "rem")
  /\ got' = [got EXCEPT ![t] = 0]
  /\ UNCHANGED <<memVars, queueVars, instance, opened, open, ref, safeFlag, iniMtx, visits>>

(* Mutant: the last but one deletes. *)
RemLastButOne(t) ==
  /\ pc[t] = "rem"
  /\ iniMtx = Nobody
  /\ ref' = ref - 1
  /\ IF ref <= 2 THEN iniMtx' = t /\ Goto(t, "delete")
                 ELSE Goto(t, "out") /\ UNCHANGED iniMtx
  /\ UNCHANGED <<memVars, queueVars, instance, opened, open, safeFlag, got, visits>>

(* remInstance: --ref under iniMtx. *)
Rem(t) ==
  /\ pc[t] = "rem"
  /\ iniMtx = Nobody
  /\ ref' = ref - 1
  /\ IF ref = 1 THEN iniMtx' = t /\ Goto(t, "delete")
                ELSE Goto(t, "out") /\ UNCHANGED iniMtx
  /\ UNCHANGED <<memVars, queueVars, instance, opened, open, safeFlag, got, visits>>

(* ~VerbCtx: the UMR QP and CQ, the protection domain if nothing is left   *)
(* on it, the device with all the rest.                                    *)
Destroy(t) ==
  /\ pc[t] = "delete"
  /\ pd = {}
  /\ open' = open \ {instance}
  /\ dm' = 0
  /\ umrError' = FALSE /\ umrSq' = <<>> /\ umrCq' = <<>>
  /\ written' = {}
  /\ cqs' = {}
  /\ ctxMtx' = Nobody
  /\ Goto(t, "clear")
  /\ UNCHANGED <<pd, mem, reg, refused, fails, graph, death,
                 instance, opened, ref, safeFlag, iniMtx, got, visits>>

(* A destructor that throws ends the process. *)
DestroyThrows(t) ==
  /\ pc[t] = "delete"
  /\ IF pd # {} THEN UNCHANGED fails ELSE Fails
  /\ death' = "thrown"
  /\ UNCHANGED <<pd, dm, mem, umrVars, cqs, graph, ctxMtx, ctxVars>>

(* Mutant: safeFlag is not reset. *)
ClearKeepingFlag(t) ==
  /\ pc[t] = "clear"
  /\ instance' = 0
  /\ iniMtx' = Nobody
  /\ Goto(t, "out")
  /\ UNCHANGED <<memVars, queueVars, opened, open, ref, safeFlag, got, visits>>

(* The rest of remInstance. *)
Clear(t) ==
  /\ pc[t] = "clear"
  /\ instance' = 0
  /\ safeFlag' = FALSE
  /\ iniMtx' = Nobody
  /\ Goto(t, "out")
  /\ UNCHANGED <<memVars, queueVars, opened, open, ref, got, visits>>
-----------------------------------------------------------------------------
(* What a thread that is inside a call of this code does next. *)
Inside(t) ==
  \/ GetShared(t) \/ GetNew(t) \/ GetThrows(t) \/ GetReturns(t)
  \/ Rem(t) \/ Destroy(t) \/ DestroyThrows(t) \/ Clear(t)
  \/ RegisterUmr(t) /\ UNCHANGED <<queueVars, ctxVars>>
  \/ BuildGraph(t) /\ UNCHANGED ctxVars

Room(t) == Cardinality(mem[t]) + (IF graph[t] = NoGraph THEN 0 ELSE 1) < MaxHeld

(* What it may choose to do with the context. *)
Choose(t) ==
  \/ CallGet(t) \/ CallRem(t)
  \/ pc[t] = "in" /\ graph[t].stage # "init"
       /\ ((Room(t) /\ NewMemory(t)) \/ DeleteMemory(t))
       /\ UNCHANGED <<queueVars, ctxVars>>
  \/ pc[t] = "in" /\ ((Room(t) /\ NewGraph(t)) \/ UseGraph(t)) /\ UNCHANGED ctxVars

Device == HwUmr /\ UNCHANGED <<queueVars, ctxVars>>

LeftLocked == \E t \in Threads : iniMtx = t /\ pc[t] \notin {"delete", "clear"}

(* By a finish() that threw, or an author who let go of his graph.         *)
CtxLeftLocked == \E t \in Threads : ctxMtx = t /\ graph[t].stage \notin {"built", "init"}

(* Dead, or waiting for a lock that a throw left locked, or out for good. *)
Over ==
  /\ \/ ~ alive
     \/ LeftLocked \/ CtxLeftLocked
     \/ visits = MaxVisits /\ \A t \in Threads : pc[t] = "out"
  /\ UNCHANGED vars

Next ==
  \/ alive /\ (Device \/ \E t \in Threads : Inside(t) \/ Choose(t))
  \/ Over

Spec ==
  /\ Init
  /\ [][Next]_vars
  /\ WF_vars(alive /\ Device)
  /\ \A t \in Threads : WF_vars(alive /\ Inside(t))
-----------------------------------------------------------------------------
Objects(kinds) == [is : kinds, of : Threads, nr : Nat]

TypeOK ==
  /\ pd \subseteq Objects({"mr", "key", "list", "qp"})
  /\ dm \in 0 .. DeviceMem
  /\ \A t \in Threads : {m.obj : m \in mem[t]} \subseteq Objects({"mr", "key"})
  /\ Len(umrSq) + Len(umrCq) \in Nat
  /\ written \subseteq Objects({"key"})
  /\ refused \in BOOLEAN
  /\ fails \in 0 .. MaxFails
  /\ cqs \subseteq Objects({"cq", "scq"})
  /\ ctxMtx \in Threads \union {Nobody}
  /\ death \in {"none", "null", "division", "thrown"}
  /\ pc \in [Threads -> {"out", "get", "return", "in", "rem", "delete", "clear"}]
  /\ instance \in 0 .. opened
  /\ ref \in 0 .. Cardinality(Threads)
  /\ iniMtx \in Threads \union {Nobody}

(* The context a thread was given stays the one there is, and open, for as *)
(* long as the thread holds it, although getInstance reads the pointer     *)
(* after it has unlocked (getInstance, remInstance).                       *)
HolderHasContext ==
  \A t \in Threads : pc[t] = "in" => got[t] = instance /\ got[t] \in open

(* There is never a second context beside the first, and the constructor's *)
(* complaint that it is "initiated twice" is never met but after an        *)
(* exception of its own (verbs_ctx.cc, safeFlag).                          *)
OneContext ==
  /\ Cardinality(open) <= 1
  /\ \A t \in Threads : pc[t] = "get" /\ iniMtx = Nobody /\ ref = 0 => ~ safeFlag

(* The process dies of nothing but this: a NULL is dereferenced because a  *)
(* verbs call failed or a graph was deleted that its author did not        *)
(* finish; a division by zero is by the WQEs of a QP without operations;   *)
(* and ~VerbCtx throws because a verbs call failed, or because two threads *)
(* registered a key at the same time.  In any other case the destructors,  *)
(* in whatever order they are called, have left nothing behind.            *)
DeathHasCause ==
  /\ death = "null" => fails > 0 \/ \E t \in Threads : graph[t].stage = "built"
  /\ death = "division" => \E t \in Threads :
       graph[t].stage = "init" /\ \E i \in 1 .. Len(graph[t].made) : ~ graph[t].qps[i].busy
  /\ death = "thrown" => fails > 0 \/ refused

(* Where no verbs call has failed and none was refused, every object on    *)
(* the protection domain and every receive CQ belongs to a thread that     *)
(* will take it down, and the device's memory is that of the objects.  The *)
(* send CQs are there as long as their QPs are; they are what the          *)
(* destructors of QPs leave (NetMem, PcxQp, register_umr).                 *)
Accounted ==
  LET keys(t)   == IF reg[t] = NotRegistering THEN {} ELSE {reg[t].key} \union reg[t].list
      queues(t) == IF graph[t] = NoGraph THEN {} ELSE {q.obj : q \in Made(t)}
      own(t)    == IF graph[t] = NoGraph THEN {}
                   ELSE graph[t].own \union UNION {q.cqs : q \in Made(t)}
      owned     == UNION {own(t) : t \in Threads}
  IN  fails = 0 /\ ~ refused =>
        /\ pd = UNION {{m.obj : m \in mem[t]} \union keys(t) \union queues(t) : t \in Threads}
        /\ owned \subseteq cqs
        /\ \A c \in cqs \ owned : c.is = "scq"
        /\ dm = Cardinality(UNION {{<<t, m>> : m \in {o \in mem[t] : o.in = "device"}} : t \in Threads})

Describing == \E t \in Threads : ctxMtx = t /\ graph[t].stage = "built"

InCall(t) ==
  pc[t] \notin {"out", "in"} \/ reg[t] # NotRegistering \/ graph[t].stage = "init"

(* Every call comes back, by return or by exception, unless the process    *)
(* has died or a mutex was left locked, or is the author's who has not     *)
(* finished his graph: no thread waits for a completion that another has   *)
(* consumed, or for a mutex that is passed on for ever (getInstance,       *)
(* remInstance, register_umr, finish).                                     *)
CallsReturn ==
  \A t \in Threads :
    InCall(t) ~> (~ InCall(t) \/ ~ alive \/ LeftLocked
                    \/ (graph[t].stage = "init" /\ (CtxLeftLocked \/ Describing)))
=============================================================================
