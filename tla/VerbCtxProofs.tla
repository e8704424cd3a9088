--------------------------- MODULE VerbCtxProofs ---------------------------
(***************************************************************************)
(* For every finite set of threads, whatever they make of the context and  *)
(* however often verbs calls fail: the context a thread holds is the one   *)
(* there is, there is no second one, and a memory key is handed out only   *)
(* after the device has written it.                                        *)
(*                                                                         *)
(* Second part, who owns the verbs objects of the process: as long as no   *)
(* verbs call has failed and none was refused, each object on the          *)
(* protection domain, each receive CQ and each allocation of device memory *)
(* belongs to one of the threads; so the last one to leave finds nothing   *)
(* left to trip over.  From this follows what a process may die of.        *)
(***************************************************************************)
EXTENDS VerbCtx, FiniteSetTheorems, WellFoundedInduction, TLAPS

-----------------------------------------------------------------------------
(* The inductive invariant.                                                *)

Places == {"out", "get", "return", "in", "rem", "delete", "clear"}

CtxTypes ==
  /\ pc \in [Threads -> Places]
  /\ iniMtx \in Threads \union {Nobody}
  /\ opened \in Nat
  /\ got = [t \in Threads |-> got[t]]

(* The threads that getInstance has counted and remInstance has not yet.   *)
Counted == {t \in Threads : pc[t] \in {"return", "in", "rem"}}

(* Who is between --ref and unlock has the lock, and nobody is counted.    *)
LastInv ==
  \A t \in Threads : pc[t] \in {"delete", "clear"} =>
    /\ iniMtx = t
    /\ ref = 0
    /\ pc[t] = "clear" => open = {}

OpenInv ==
  /\ open \subseteq {instance}
  /\ ref # 0 => instance \in open
  /\ iniMtx = Nobody /\ ref = 0 => ~ safeFlag /\ open = {}

HeldInv == \A t \in Threads : pc[t] = "in" => got[t] = instance

CtxInv ==
  /\ CtxTypes
  /\ ref = Cardinality(Counted)
  /\ LastInv
  /\ OpenInv
  /\ HeldInv

(* What register_umr keeps of a thread, and that it has no key meanwhile.  *)
RegInv ==
  /\ mem = [t \in Threads |-> mem[t]]
  /\ reg = [t \in Threads |-> reg[t]]
  /\ \A t \in Threads :
       \/ reg[t] = NotRegistering
       \/ /\ reg[t] = [at |-> reg[t].at, key |-> reg[t].key, list |-> reg[t].list]
          /\ reg[t].at \in {"post", "poll"}
          /\ reg[t].key.of = t
          /\ Keys(t) = {}

(* Only who holds the context has memory or is making some.                *)
QuietInv ==
  \A t \in Threads : pc[t] # "in" => reg[t] = NotRegistering /\ mem[t] = {}

(* Keys are written, and the memory of different threads is not the same.  *)
KeysInv ==
  \A t \in Threads :
    /\ \A m \in mem[t] : m.obj.of = t
    /\ \A m \in Keys(t) : m.obj \in written /\ Keys(t) = {m}

(* The one slot: a request, its completion, or nothing.                    *)
SlotInv ==
  \/ umrSq = <<>> /\ umrCq = <<>>
  \/ umrSq # <<>> /\ umrSq = <<umrSq[1]>> /\ umrCq = <<>>
  \/ umrSq = <<>> /\ umrCq \in {<<TRUE>>, <<FALSE>>}

(* Who polls is alone, and what is in the slot is his.                     *)
PollInv ==
  \A t \in Threads : reg[t].at = "poll" =>
    /\ \A u \in Threads : reg[u].at = "poll" => u = t
    /\ \/ umrSq = <<reg[t].key>>
       \/ umrCq = <<TRUE>> /\ reg[t].key \in written
       \/ umrCq = <<FALSE>>

UmrInv == RegInv /\ QuietInv /\ KeysInv /\ SlotInv /\ PollInv

IInv == CtxInv /\ UmrInv
-----------------------------------------------------------------------------
(* Counting threads.                                                       *)

LEMMA CountedFinite ==
  /\ IsFiniteSet(Counted)
  /\ Cardinality(Counted) \in Nat
  /\ \A t \in Threads : t \in Counted => Cardinality(Counted) >= 1
<1>1. IsFiniteSet(Counted)
  BY ThreadsShape, FS_Subset DEF Counted
<1>2. Cardinality(Counted) \in Nat
  BY <1>1, FS_CardinalityType
<1>3. Cardinality(Counted) = 0 <=> Counted = {}
  BY <1>1, FS_EmptySet
<1> QED
  BY <1>1, <1>2, <1>3

(* A step by which thread t alone goes on.                                 *)
LEMMA CountedStep ==
  ASSUME NEW t \in Threads, NEW place \in Places,
         pc \in [Threads -> Places], Goto(t, place)
  PROVE  /\ pc' \in [Threads -> Places]
         /\ pc'[t] = place
         /\ \A u \in Threads : u # t => pc'[u] = pc[u]
         /\ Cardinality(Counted') =
              Cardinality(Counted)
                + (IF place \in {"return", "in", "rem"} THEN 1 ELSE 0)
                - (IF pc[t] \in {"return", "in", "rem"} THEN 1 ELSE 0)
<1> DEFINE Inner == {"return", "in", "rem"}
<1>1. /\ pc' \in [Threads -> Places]
      /\ pc'[t] = place
      /\ \A u \in Threads : u # t => pc'[u] = pc[u]
  BY DEF Goto
<1>2. IsFiniteSet(Counted) /\ Cardinality(Counted) \in Nat
  BY CountedFinite
<1>3. CASE place \in Inner /\ pc[t] \notin Inner
  <2>1. Counted' = Counted \union {t} /\ t \notin Counted
    BY <1>1, <1>3 DEF Counted
  <2>2. Cardinality(Counted') = Cardinality(Counted) + 1
    BY <1>2, <2>1, FS_AddElement
  <2> QED
    BY <1>1, <1>2, <1>3, <2>2
<1>4. CASE place \notin Inner /\ pc[t] \in Inner
  <2>1. Counted' = Counted \ {t} /\ t \in Counted
    BY <1>1, <1>4 DEF Counted
  <2>2. Cardinality(Counted') = Cardinality(Counted) - 1
    BY <1>2, <2>1, FS_RemoveElement
  <2> QED
    BY <1>1, <1>2, <1>4, <2>2
<1>5. CASE (place \in Inner) = (pc[t] \in Inner)
  <2>1. Counted' = Counted
    BY <1>1, <1>5 DEF Counted
  <2> QED
    BY <1>1, <1>2, <1>5, <2>1
<1> QED
  BY <1>3, <1>4, <1>5
-----------------------------------------------------------------------------
(* The context.                                                            *)

LEMMA CtxStart == Init => CtxInv
<1> SUFFICES ASSUME Init
             PROVE  CtxInv
  OBVIOUS
<1>1. CtxTypes /\ LastInv /\ OpenInv /\ HeldInv
  BY DEF Init, CtxTypes, LastInv, OpenInv, HeldInv, Places
<1>2. Counted = {}
  BY DEF Init, Counted
<1> QED
  BY <1>1, <1>2, FS_EmptySet DEF CtxInv, Init

LEMMA CtxUnchanged == CtxInv /\ UNCHANGED ctxVars => CtxInv'
BY DEF CtxInv, ctxVars, CtxTypes, Counted, LastInv, OpenInv, HeldInv

LEMMA CtxStep == ASSUME CtxInv, NEW t \in Threads, Inside(t) \/ Choose(t) PROVE CtxInv'
<1> USE DEF Places
<1>0. /\ pc \in [Threads -> Places]
      /\ ref \in Nat
      /\ Nobody # t
      /\ \A u \in Threads : pc[u] \in {"return", "in", "rem"} => ref >= 1
  <2>1. \A u \in Threads : pc[u] \in {"return", "in", "rem"} => u \in Counted
    BY DEF Counted
  <2> QED
    BY <2>1, ThreadsShape, CountedFinite DEF CtxInv, CtxTypes
<1>1. CASE CallGet(t)
  BY <1>0, <1>1, CountedStep
  DEF CallGet, CtxInv, CtxTypes, LastInv, OpenInv, HeldInv
<1>2. CASE GetShared(t)
  BY <1>0, <1>2, CountedStep
  DEF GetShared, Count, CtxInv, CtxTypes, LastInv, OpenInv, HeldInv
<1>3. CASE GetNew(t)
  <2>1. ref' = 1 /\ ref' = Cardinality(Counted')
    BY <1>0, <1>3, CountedStep DEF GetNew, Count, CtxInv
  <2>2. open' = {instance'} /\ opened' \in Nat
    BY <1>3 DEF GetNew, CtxInv, CtxTypes, OpenInv
  <2>3. \A u \in Threads : pc'[u] \notin {"in", "delete", "clear"}
    <3>1. \A u \in Threads : pc[u] \notin {"in", "delete", "clear"}
      BY <1>0, <1>3, ThreadsShape DEF GetNew, CtxInv, LastInv
    <3> QED
      BY <1>0, <1>3, <3>1, CountedStep DEF GetNew, Count
  <2> QED
    BY <1>0, <1>3, <2>1, <2>2, <2>3, CountedStep
    DEF GetNew, Count, CtxInv, CtxTypes, LastInv, OpenInv, HeldInv
<1>4. CASE GetThrows(t)
  BY <1>0, <1>4, CountedStep, ThreadsShape
  DEF GetThrows, CtxInv, CtxTypes, LastInv, OpenInv, HeldInv
<1>5. CASE GetReturns(t)
  BY <1>0, <1>5, CountedStep
  DEF GetReturns, CtxInv, CtxTypes, LastInv, OpenInv, HeldInv
<1>6. CASE CallRem(t)
  BY <1>0, <1>6, CountedStep
  DEF CallRem, CtxInv, CtxTypes, LastInv, OpenInv, HeldInv
<1>7. CASE Rem(t)
  <2>1. CASE ref = 1
    BY <1>0, <1>7, <2>1, CountedStep, ThreadsShape
    DEF Rem, CtxInv, CtxTypes, LastInv, OpenInv, HeldInv
  <2>2. CASE ref # 1
    BY <1>0, <1>7, <2>2, CountedStep
    DEF Rem, CtxInv, CtxTypes, LastInv, OpenInv, HeldInv
  <2> QED
    BY <2>1, <2>2
<1>8. CASE Destroy(t)
  <2>1. open' = {} /\ ref = 0 /\ iniMtx = t
    BY <1>8 DEF Destroy, CtxInv, LastInv, OpenInv
  <2>2. \A u \in Threads : u # t => pc[u] \notin {"delete", "clear"}
    BY <2>1 DEF CtxInv, LastInv
  <2> QED
    BY <1>0, <1>8, <2>1, <2>2, CountedStep
    DEF Destroy, CtxInv, CtxTypes, LastInv, OpenInv, HeldInv
<1>9. CASE DestroyThrows(t)
  BY <1>9, CtxUnchanged DEF DestroyThrows
<1>10. CASE Clear(t)
  <2>1. open = {} /\ ref = 0 /\ iniMtx = t
    BY <1>10 DEF Clear, CtxInv, LastInv
  <2>2. \A u \in Threads : u # t => pc[u] \notin {"delete", "clear"}
    BY <2>1 DEF CtxInv, LastInv
  <2>3. \A u \in Threads : pc[u] # "in"
    BY <1>0, <2>1
  <2> QED
    BY <1>0, <1>10, <2>1, <2>2, <2>3, CountedStep
    DEF Clear, CtxInv, CtxTypes, LastInv, OpenInv, HeldInv
<1>11. CASE UNCHANGED ctxVars
  BY <1>11, CtxUnchanged
<1> QED
  BY <1>1, <1>2, <1>3, <1>4, <1>5, <1>6, <1>7, <1>8, <1>9, <1>10, <1>11
  DEF Inside, Choose

LEMMA CtxNext == CtxInv /\ [Next]_vars => CtxInv'
<1>1. CtxInv /\ UNCHANGED vars => CtxInv'
  BY CtxUnchanged DEF vars
<1>2. CtxInv /\ Device => CtxInv'
  BY CtxUnchanged DEF Device
<1> QED
  BY <1>1, <1>2, CtxStep DEF Next, Over
-----------------------------------------------------------------------------
(* The memory keys.                                                        *)

umr == <<mem, reg, umrSq, umrCq, written>>

LEMMA KeysAre == \A t : Keys(t) = {m \in mem[t] : m.in = "key"}
BY DEF Keys, Regions

LEMMA FreshIsMine == \A objects, is, t : Fresh(objects, is, t).of = t
BY DEF Fresh

LEMMA UmrStart == Init => UmrInv
BY DEF Init, MemInit, UmrInv, RegInv, QuietInv, KeysInv, SlotInv, PollInv,
       Keys, Regions, NotRegistering

(* Nobody lets go of the context but with nothing left on it.              *)
LEMMA UmrUnchanged ==
  ASSUME UmrInv, UNCHANGED umr,
         \A u \in Threads : pc'[u] # "in" =>
           pc[u] # "in" \/ (reg[u] = NotRegistering /\ mem[u] = {})
  PROVE  UmrInv'
<1>1. UNCHANGED <<mem, reg, umrSq, umrCq, written>>
  BY DEF umr
<1>2. RegInv' /\ KeysInv'
  BY <1>1 DEF UmrInv, RegInv, KeysInv, Keys, Regions, NotRegistering
<1>3. QuietInv'
  BY <1>1 DEF UmrInv, QuietInv, NotRegistering
<1>4. SlotInv' /\ PollInv'
  BY <1>1 DEF UmrInv, SlotInv, PollInv
<1> QED
  BY <1>2, <1>3, <1>4 DEF UmrInv

LEMMA UmrDestroy ==
  ASSUME CtxInv, UmrInv, NEW t \in Threads, Destroy(t)
  PROVE  UmrInv'
<1>1. \A u \in Threads : pc[u] # "in"
  <2>1. \A u \in Threads : pc[u] = "in" => u \in Counted
    BY DEF Counted
  <2> QED
    BY <2>1, CountedFinite DEF CtxInv, LastInv, Destroy
<1>2. \A u \in Threads : reg[u] = NotRegistering /\ mem[u] = {}
  BY <1>1 DEF UmrInv, QuietInv
<1> QED
  BY <1>2 DEF Destroy, UmrInv, RegInv, QuietInv, KeysInv, SlotInv, PollInv,
     Keys, Regions, NotRegistering

(* Thread t gets another memory and leaves register_umr alone.             *)
LEMMA UmrMemory ==
  ASSUME UmrInv, NEW t \in Threads, NEW M, UNCHANGED <<reg, umrSq, umrCq, pc>>,
         pc[t] = "in", reg[t] = NotRegistering,
         mem' = [mem EXCEPT ![t] = M],
         \A m \in M : m.obj.of = t,
         \A m \in M : m.in = "key" => m.obj \in written' /\ m \in Keys(t),
         \A k \in written : k.of # t => k \in written'
  PROVE  UmrInv'
<1>1. mem'[t] = M /\ \A u \in Threads : u # t => mem'[u] = mem[u]
  BY DEF UmrInv, RegInv
<1>2. Keys(t)' \subseteq Keys(t) /\ \A u \in Threads : u # t => Keys(u)' = Keys(u)
  BY <1>1 DEF Keys, Regions
<1>3. RegInv'
  <2>1. mem' = [u \in Threads |-> mem'[u]]
    BY DEF UmrInv, RegInv
  <2>2. ASSUME NEW u \in Threads, reg[u] # NotRegistering
        PROVE  Keys(u)' = Keys(u)
    BY <1>2, <2>2
  <2> QED
    BY <2>1, <2>2 DEF UmrInv, RegInv
<1>4. QuietInv'
  BY <1>1 DEF UmrInv, QuietInv
<1>5. KeysInv'
  <2> SUFFICES ASSUME NEW u \in Threads
               PROVE  /\ \A m \in mem'[u] : m.obj.of = u
                      /\ \A m \in Keys(u)' : m.obj \in written' /\ Keys(u)' = {m}
    BY DEF KeysInv
  <2>1. CASE u = t
    <3>1. \A m \in Keys(t)' : m \in M /\ m.in = "key"
      BY <1>1 DEF Keys, Regions
    <3>2. \A m \in Keys(t)' : m.obj \in written' /\ Keys(t) = {m}
      BY <1>2, <3>1 DEF UmrInv, KeysInv
    <3> QED
      BY <1>1, <1>2, <2>1, <3>2
  <2>2. CASE u # t
    <3>1. Keys(u)' = Keys(u) /\ mem'[u] = mem[u]
      BY <1>1, <1>2, <2>2
    <3>2. \A m \in Keys(u) : m.obj \in written /\ m.obj.of = u
      BY DEF UmrInv, KeysInv, Keys
    <3> QED
      BY <2>2, <3>1, <3>2 DEF UmrInv, KeysInv
  <2> QED
    BY <2>1, <2>2
<1>6. PollInv'
  <2>1. \A u \in Threads : reg[u].at = "poll" => reg[u].key.of = u /\ u # t
    BY DEF UmrInv, RegInv, NotRegistering
  <2> QED
    BY <2>1 DEF UmrInv, PollInv
<1> QED
  BY <1>3, <1>4, <1>5, <1>6 DEF UmrInv, SlotInv

LEMMA MemoryStep ==
  ASSUME UmrInv, NEW t \in Threads, NewMemory(t) \/ DeleteMemory(t), pc[t] = "in",
         UNCHANGED pc
  PROVE  UmrInv'
<1>0. \A m \in mem[t] : m.obj.of = t
  BY DEF UmrInv, KeysInv
<1>1. ASSUME NEW place, place # "key", Registered(t, place), Free(t), UNCHANGED umrVars
      PROVE  UmrInv'
  <2>1. PICK mr : mr.of = t /\ mem' = [mem EXCEPT ![t] = mem[t] \union {[in |-> place, obj |-> mr]}]
    <3>1. Fresh(pd, "mr", t).of = t
      BY FreshIsMine
    <3>2. mem' = [mem EXCEPT ![t] = mem[t] \union {[in |-> place, obj |-> Fresh(pd, "mr", t)]}]
      BY <1>1 DEF Registered
    <3> QED
      BY <3>1, <3>2
  <2> DEFINE M == mem[t] \union {[in |-> place, obj |-> mr]}
  <2>2. \A m \in M : m.obj.of = t
    BY <1>0, <2>1
  <2>3. \A m \in M : m.in = "key" => m.obj \in written' /\ m \in Keys(t)
    BY <1>1, KeysAre DEF UmrInv, KeysInv, umrVars
  <2> QED
    BY <1>1, <2>1, <2>2, <2>3, UmrMemory DEF Free, umrVars
<1>2. ASSUME UNCHANGED <<mem, umrVars>> PROVE UmrInv'
  BY <1>2, UmrUnchanged DEF umrVars, umr
<1>3. CASE UsrMem(t) \/ HostMem(t)
  BY <1>1, <1>2, <1>3 DEF UsrMem, HostMem, NewRegion
<1>4. CASE Memic(t)
  BY <1>1, <1>2, <1>4 DEF Memic
<1>5. ASSUME NEW long, MakeKey(t, long) PROVE UmrInv'
  <2>1. CASE UNCHANGED reg
    BY <1>2, <1>5, <2>1 DEF MakeKey, umrVars
  <2> DEFINE key == Fresh(pd, "key", t)
             list == IF long THEN {Fresh(pd, "list", t)} ELSE {}
  <2>2. \/ UNCHANGED reg
        \/ /\ key.of = t
           /\ reg' = [reg EXCEPT ![t] = [at |-> "post", key |-> key, list |-> list]]
    <3>1. key.of = t
      BY FreshIsMine
    <3> QED
      BY <1>5, <3>1 DEF MakeKey
  <2> HIDE DEF key, list
  <2> SUFFICES ASSUME reg' # reg PROVE UmrInv'
    BY <2>1
  <2>3. reg'[t] = [at |-> "post", key |-> key, list |-> list]
    BY <2>2 DEF UmrInv, RegInv
  <2>4. \A u \in Threads : u # t => reg'[u] = reg[u]
    BY <2>2 DEF UmrInv, RegInv
  <2>5. UNCHANGED <<mem, umrSq, umrCq, written>> /\ Keys(t) = {}
    BY <1>5 DEF MakeKey
  <2>6. RegInv'
    BY <2>2, <2>3, <2>4, <2>5 DEF UmrInv, RegInv, NotRegistering, Keys, Regions
  <2>7. PollInv'
    <3>1. reg'[t].at # "poll"
      BY <2>3
    <3>2. ASSUME NEW u \in Threads, reg'[u].at = "poll"
          PROVE  u # t /\ reg'[u] = reg[u]
      BY <2>4, <3>1, <3>2
    <3> QED
      BY <2>5, <3>2 DEF UmrInv, PollInv
  <2>8. QuietInv' /\ KeysInv' /\ SlotInv'
    BY <2>4, <2>5 DEF UmrInv, QuietInv, KeysInv, SlotInv, Keys, Regions
  <2> QED
    BY <2>6, <2>7, <2>8 DEF UmrInv
<1>6. ASSUME NEW m \in mem[t], Delete(t, m) PROVE UmrInv'
  <2> DEFINE M == mem[t] \ {m}
  <2>1. \A n \in M : n.in = "key" => n.obj \in written' /\ n \in Keys(t)
    BY <1>6, KeysAre DEF Delete, UmrInv, KeysInv
  <2>2. \A k \in written : k.of # t => k \in written'
    BY <1>0, <1>6 DEF Delete
  <2> QED
    BY <1>0, <1>6, <2>1, <2>2, UmrMemory DEF Delete
<1> QED
  BY <1>3, <1>4, <1>5, <1>6 DEF NewMemory, DeleteMemory, PipeMem

LEMMA OneSlot == ASSUME NEW x PROVE Head(<<x>>) = x /\ Tail(<<x>>) = <<>>
OBVIOUS

(* What is known of a thread in register_umr.                              *)
LEMMA Registering ==
  ASSUME UmrInv, NEW t \in Threads, reg[t].at \in {"post", "poll"}
  PROVE  /\ reg[t] # NotRegistering
         /\ reg[t] = [at |-> reg[t].at, key |-> reg[t].key, list |-> reg[t].list]
         /\ reg[t].key.of = t
         /\ Keys(t) = {}
         /\ pc[t] = "in"
BY DEF UmrInv, RegInv, QuietInv, NotRegistering

LEMMA FewerPoll ==
  ASSUME UmrInv, UNCHANGED <<umrSq, umrCq, written>>,
         \A u \in Threads : reg'[u].at = "poll" => reg'[u] = reg[u]
  PROVE  PollInv'
<1> SUFFICES ASSUME NEW t \in Threads, reg'[t].at = "poll"
             PROVE  /\ \A u \in Threads : reg'[u].at = "poll" => u = t
                    /\ \/ umrSq' = <<reg'[t].key>>
                       \/ umrCq' = <<TRUE>> /\ reg'[t].key \in written'
                       \/ umrCq' = <<FALSE>>
  BY DEF PollInv
<1>1. reg'[t] = reg[t] /\ reg[t].at = "poll"
  OBVIOUS
<1>2. \A u \in Threads : reg'[u].at = "poll" => u = t
  BY <1>1 DEF UmrInv, PollInv
<1> QED
  BY <1>1, <1>2 DEF UmrInv, PollInv

LEMMA PostStep ==
  ASSUME UmrInv, NEW t \in Threads, Post(t), UNCHANGED pc
  PROVE  UmrInv'
<1>1. umrSq = <<>> /\ umrCq = <<>>
  BY DEF Post, SlotsTaken, UmrSlots, UmrInv, SlotInv
<1>2. /\ umrSq' = <<reg[t].key>>
      /\ UNCHANGED <<mem, umrCq, written>>
      /\ reg[t].at = "post"
  BY <1>1 DEF Post
<1>3. /\ reg'[t] = [at |-> "poll", key |-> reg[t].key, list |-> reg[t].list]
      /\ reg' = [u \in Threads |-> reg'[u]]
      /\ \A u \in Threads : u # t => reg'[u] = reg[u]
  BY <1>2, Registering DEF Post, UmrInv, RegInv
<1>4. RegInv'
  BY <1>2, <1>3, Registering DEF UmrInv, RegInv, Keys, Regions
<1>5. PollInv'
  <2>1. \A u \in Threads : reg[u].at # "poll"
    BY <1>1 DEF UmrInv, PollInv
  <2>2. reg'[t].key = reg[t].key /\ umrSq' = <<reg'[t].key>>
    BY <1>2, <1>3
  <2>3. \A u \in Threads : reg'[u].at = "poll" => u = t
    BY <1>3, <2>1
  <2> QED
    BY <2>2, <2>3 DEF PollInv
<1>6. QuietInv'
  BY <1>2, <1>3, Registering DEF UmrInv, QuietInv
<1>7. KeysInv' /\ SlotInv'
  BY <1>1, <1>2 DEF UmrInv, KeysInv, SlotInv, Keys, Regions
<1> QED
  BY <1>4, <1>5, <1>6, <1>7 DEF UmrInv

(* A thread leaves register_umr with no key.                               *)
LEMMA GivesUp ==
  ASSUME UmrInv, NEW t \in Threads, reg' = [reg EXCEPT ![t] = NotRegistering],
         UNCHANGED <<mem, umrSq, umrCq, written, pc>>
  PROVE  UmrInv'
<1>1. /\ reg'[t] = NotRegistering
      /\ reg' = [u \in Threads |-> reg'[u]]
      /\ \A u \in Threads : u # t => reg'[u] = reg[u]
  BY DEF UmrInv, RegInv
<1>2. RegInv'
  BY <1>1 DEF UmrInv, RegInv, Keys, Regions
<1>3. PollInv'
  <2>1. \A u \in Threads : reg'[u].at = "poll" => reg'[u] = reg[u]
    BY <1>1 DEF NotRegistering
  <2> QED
    BY <2>1, FewerPoll
<1>4. QuietInv'
  BY <1>1 DEF UmrInv, QuietInv
<1>5. KeysInv' /\ SlotInv'
  BY DEF UmrInv, KeysInv, SlotInv, Keys, Regions
<1> QED
  BY <1>2, <1>3, <1>4, <1>5 DEF UmrInv

LEMMA PollStep ==
  ASSUME UmrInv, NEW t \in Threads, PollUmr(t), UNCHANGED pc
  PROVE  UmrInv'
<1> DEFINE new == [in |-> "key", obj |-> reg[t].key]
<1>1. reg[t].at = "poll" /\ umrCq # <<>> /\ UNCHANGED <<umrSq, written>>
  BY DEF PollUmr
<1>2. umrSq = <<>> /\ umrCq' = <<>> /\ (Head(umrCq) => reg[t].key \in written)
  <2>1. umrSq = <<>> /\ umrCq \in {<<TRUE>>, <<FALSE>>}
    BY <1>1 DEF UmrInv, SlotInv
  <2>2. umrCq' = <<>> /\ (Head(umrCq) => umrCq = <<TRUE>>)
    <3>1. CASE umrCq = <<TRUE>>
      BY <3>1, OneSlot DEF PollUmr
    <3>2. CASE umrCq = <<FALSE>>
      BY <3>2, OneSlot DEF PollUmr
    <3> QED
      BY <2>1, <3>1, <3>2
  <2>3. umrCq = <<TRUE>> => reg[t].key \in written
    <3> SUFFICES ASSUME umrCq = <<TRUE>>
                 PROVE  reg[t].key \in written
      OBVIOUS
    <3>1. umrCq # <<FALSE>>
      <4>1. umrCq[1] = TRUE
        OBVIOUS
      <4> QED
        BY <4>1
    <3> QED
      BY <1>1, <2>1, <3>1 DEF UmrInv, PollInv
  <2> QED
    BY <2>1, <2>2, <2>3
<1>3. /\ reg'[t] = NotRegistering
      /\ reg' = [u \in Threads |-> reg'[u]]
      /\ \A u \in Threads : u # t => reg'[u] = reg[u]
  BY DEF PollUmr, UmrInv, RegInv
<1>4. /\ mem' = [u \in Threads |-> mem'[u]]
      /\ \A u \in Threads : u # t => mem'[u] = mem[u]
      /\ \/ mem'[t] = mem[t]
         \/ reg[t].key \in written /\ mem'[t] = mem[t] \union {new}
  BY <1>2 DEF PollUmr, UmrInv, RegInv
<1>5. \A u \in Threads : u # t => Keys(u)' = Keys(u)
  BY <1>4 DEF Keys, Regions
<1>6. RegInv'
  BY <1>3, <1>4, <1>5 DEF UmrInv, RegInv
<1>7. QuietInv'
  <2>1. pc'[t] = "in"
    BY <1>1, Registering
  <2>2. \A u \in Threads : u # t => reg'[u] = reg[u] /\ mem'[u] = mem[u]
    BY <1>3, <1>4
  <2> QED
    BY <2>1, <2>2 DEF UmrInv, QuietInv
<1>8. PollInv'
  <2>1. \A u \in Threads : reg[u].at = "poll" => u = t
    BY <1>1 DEF UmrInv, PollInv
  <2>2. \A u \in Threads : reg'[u].at # "poll"
    BY <1>3, <2>1 DEF NotRegistering
  <2> QED
    BY <2>2 DEF PollInv
<1>9. KeysInv'
  <2> SUFFICES ASSUME NEW u \in Threads
               PROVE  /\ \A m \in mem'[u] : m.obj.of = u
                      /\ \A m \in Keys(u)' : m.obj \in written' /\ Keys(u)' = {m}
    BY DEF KeysInv
  <2>1. CASE u # t \/ mem'[t] = mem[t]
    <3>1. mem'[u] = mem[u]
      BY <1>4, <2>1
    <3> QED
      BY <1>1, <3>1 DEF UmrInv, KeysInv, Keys, Regions
  <2>2. CASE u = t /\ reg[t].key \in written /\ mem'[t] = mem[t] \union {new}
    <3>1. Keys(t) = {} /\ reg[t].key.of = t
      BY <1>1, Registering
    <3>2. Keys(t)' = {new}
      BY <2>2, <3>1 DEF Keys, Regions
    <3>3. \A m \in mem[t] \union {new} : m.obj.of = t
      BY <3>1 DEF UmrInv, KeysInv
    <3> QED
      BY <1>1, <2>2, <3>2, <3>3
  <2> QED
    BY <1>4, <2>1, <2>2
<1>10. SlotInv'
  BY <1>1, <1>2 DEF SlotInv
<1> QED
  BY <1>6, <1>7, <1>8, <1>9, <1>10 DEF UmrInv

LEMMA HwStep ==
  ASSUME UmrInv, HwUmr, UNCHANGED pc
  PROVE  UmrInv'
<1>1. umrSq = <<umrSq[1]>> /\ umrCq = <<>>
  BY DEF HwUmr, UmrInv, SlotInv
<1>2. /\ umrSq' = <<>>
      /\ \/ umrCq' = <<TRUE>> /\ written' = written \union {umrSq[1]}
         \/ umrCq' = <<FALSE>> /\ written' = written
  <2> DEFINE x == umrSq[1]
  <2> HIDE DEF x
  <2>0. umrSq = <<x>>
    BY <1>1 DEF x
  <2>1. umrSq' = <<>> /\ Head(umrSq) = umrSq[1]
    BY <2>0, OneSlot DEF HwUmr, x
  <2>2. Append(umrCq, TRUE) = <<TRUE>> /\ Append(umrCq, FALSE) = <<FALSE>>
    BY <1>1
  <2> QED
    BY <2>1, <2>2 DEF HwUmr
<1>3. UNCHANGED <<mem, reg>>
  BY DEF HwUmr
<1>4. RegInv' /\ QuietInv'
  BY <1>3 DEF UmrInv, RegInv, QuietInv, Keys, Regions
<1>5. KeysInv' /\ SlotInv'
  BY <1>2, <1>3 DEF UmrInv, KeysInv, SlotInv, Keys, Regions
<1>6. PollInv'
  <2> SUFFICES ASSUME NEW t \in Threads, reg[t].at = "poll"
               PROVE  \/ umrCq' = <<TRUE>> /\ reg[t].key \in written'
                      \/ umrCq' = <<FALSE>>
    BY <1>3 DEF UmrInv, PollInv
  <2>1. umrSq = <<reg[t].key>>
    <3>1. umrCq # <<TRUE>> /\ umrCq # <<FALSE>>
      BY <1>1
    <3> QED
      BY <3>1 DEF UmrInv, PollInv
  <2>2. umrSq[1] = reg[t].key
    BY <2>1
  <2> QED
    BY <1>2, <2>2
<1> QED
  BY <1>4, <1>5, <1>6 DEF UmrInv
-----------------------------------------------------------------------------
LEMMA Start == Init => IInv
BY CtxStart, UmrStart DEF IInv

LEMMA UmrNext == IInv /\ [Next]_vars => UmrInv'
<1> SUFFICES ASSUME IInv, [Next]_vars
             PROVE  UmrInv'
  OBVIOUS
<1>0. CtxInv /\ UmrInv
  BY DEF IInv
<1>1. UNCHANGED <<memVars, pc>> => UmrInv'
  BY <1>0, UmrUnchanged DEF memVars, umr
<1>2. Device => UmrInv'
  BY <1>0, HwStep DEF Device, ctxVars
<1>3. ASSUME NEW t \in Threads, Inside(t)
      PROVE  UmrInv'
  <2>1. CASE GetShared(t) \/ GetNew(t) \/ GetThrows(t) \/ GetReturns(t)
    BY <1>0, <2>1, UmrUnchanged
    DEF GetShared, GetNew, GetThrows, GetReturns, Count, Goto, memVars, umrVars, umr,
        CtxInv, CtxTypes
  <2>2. CASE Rem(t) \/ DestroyThrows(t) \/ Clear(t)
    BY <1>0, <2>2, UmrUnchanged
    DEF Rem, DestroyThrows, Clear, Goto, memVars, umrVars, ctxVars, umr, CtxInv, CtxTypes
  <2>3. CASE Destroy(t)
    BY <1>0, <2>3, UmrDestroy
  <2>4. CASE RegisterUmr(t) /\ UNCHANGED <<queueVars, ctxVars>>
    <3>1. UNCHANGED pc
      BY <2>4 DEF ctxVars
    <3>2. CASE Post(t)
      BY <1>0, <3>1, <3>2, PostStep
    <3>3. CASE PostFails(t) \/ PollUmrFails(t)
      BY <1>0, <3>1, <3>3, GivesUp DEF PostFails, PollUmrFails
    <3>4. CASE PollUmr(t)
      BY <1>0, <3>1, <3>4, PollStep
    <3> QED
      BY <2>4, <3>2, <3>3, <3>4 DEF RegisterUmr
  <2>5. CASE BuildGraph(t) /\ UNCHANGED ctxVars
    <3>1. UNCHANGED umr
      BY <2>5 DEF BuildGraph, CreateCq, CreateManagementQp, CreateQp, NoQp, Connect,
                  BarrierDone, Untouched, umrVars, umr
    <3> QED
      BY <1>0, <2>5, <3>1, UmrUnchanged DEF ctxVars
  <2> QED
    BY <1>3, <2>1, <2>2, <2>3, <2>4, <2>5 DEF Inside
<1>4. ASSUME NEW t \in Threads, Choose(t)
      PROVE  UmrInv'
  <2>1. CASE CallGet(t) \/ CallRem(t)
    BY <1>0, <2>1, UmrUnchanged
    DEF CallGet, CallRem, Goto, memVars, umr, CtxInv, CtxTypes
  <2>2. CASE pc[t] = "in" /\ (NewMemory(t) \/ DeleteMemory(t)) /\ UNCHANGED <<queueVars, ctxVars>>
    BY <1>0, <2>2, MemoryStep DEF ctxVars
  <2>3. CASE (NewGraph(t) \/ UseGraph(t)) /\ UNCHANGED ctxVars
    <3>1. UNCHANGED umr
      BY <2>3 DEF NewGraph, UseGraph, NewQp, Operate, Finish, Describes,
                  DeleteGraph, DeleteUnmade, Abandon, Untouched, umrVars, umr
    <3> QED
      BY <1>0, <2>3, <3>1, UmrUnchanged DEF ctxVars
  <2> QED
    BY <1>4, <2>1, <2>2, <2>3 DEF Choose
<1> QED
  BY <1>1, <1>2, <1>3, <1>4 DEF Next, Over, vars, ctxVars

(* The inductive invariant of the context and of register_umr holds.       *)
THEOREM Invariance == Spec => []IInv
<1>1. IInv /\ [Next]_vars => IInv'
  BY CtxNext, UmrNext DEF IInv
<1> QED
  BY Start, <1>1, PTL DEF Spec

(* The context that getInstance has returned stays, and stays open, until  *)
(* remInstance is called (VerbCtx::getInstance, remInstance).              *)
THEOREM HoldersKeepContext == Spec => []HolderHasContext
<1>1. IInv => HolderHasContext
  <2> SUFFICES ASSUME IInv, NEW t \in Threads, pc[t] = "in"
               PROVE  got[t] = instance /\ got[t] \in open
    BY DEF HolderHasContext
  <2>1. t \in Counted
    BY DEF Counted
  <2>2. ref # 0
    BY <2>1, CountedFinite DEF IInv, CtxInv
  <2> QED
    BY <2>2 DEF IInv, CtxInv, OpenInv, HeldInv
<1> QED
  BY Invariance, <1>1, PTL

(* There is one context at most, and the constructor never meets its flag  *)
(* set unless it has thrown before (VerbCtx::VerbCtx).                     *)
THEOREM NeverTwoContexts == Spec => []OneContext
<1>1. IInv => OneContext
  <2> SUFFICES ASSUME IInv
               PROVE  Cardinality(open) <= 1
    BY DEF OneContext, IInv, CtxInv, OpenInv
  <2>1. open \subseteq {instance} /\ Cardinality({instance}) = 1 /\ IsFiniteSet({instance})
    BY FS_Singleton DEF IInv, CtxInv, OpenInv
  <2> QED
    BY <2>1, FS_Subset
<1> QED
  BY Invariance, <1>1, PTL

(* Threads share the QP and the CQ of register_umr without a lock, and yet *)
(* get a key only when it is written (register_umr, max_send_wr = 1).      *)
THEOREM KeysAreReady == Spec => []KeyReady
<1>1. IInv => KeyReady
  BY DEF IInv, UmrInv, KeysInv, KeyReady
<1> QED
  BY Invariance, <1>1, PTL
-----------------------------------------------------------------------------
(* The inductive invariant, on top of that of the first part.               *)

OnPd == {"mr", "key", "list", "qp"}
OnCq == {"cq", "scq"}

MemObjs(t) == {m.obj : m \in mem[t]}
RegObjs(t) == IF reg[t] = NotRegistering THEN {} ELSE {reg[t].key} \union reg[t].list
QpObjs(t) == IF graph[t] = NoGraph THEN {}
             ELSE {graph[t].made[i].obj : i \in 1 .. Len(graph[t].made)}
CqObjs(t) == IF graph[t] = NoGraph THEN {}
             ELSE graph[t].own \union
                    UNION {graph[t].made[i].cqs : i \in 1 .. Len(graph[t].made)}

(* Of a set of objects those that thread t has created.                    *)
Of(objects, t) == {o \in objects : o.of = t}

DevicePairs ==
  UNION {{<<t, m>> : m \in {o \in mem[t] : o.in = "device"}} : t \in Threads}

SetTypes ==
  /\ IsFiniteSet(pd) /\ pd \subseteq Objects(OnPd)
  /\ IsFiniteSet(cqs) /\ cqs \subseteq Objects(OnCq)
  /\ written \subseteq Objects({"key"})
  /\ umrSq # <<>> => umrSq[1] \in Objects({"key"})
  /\ fails \in 0 .. MaxFails /\ refused \in BOOLEAN
  /\ ctxMtx \in Threads \union {Nobody}
  /\ instance \in 0 .. opened

MemTypes ==
  \A t \in Threads :
    /\ \A m \in mem[t] : m.obj \in Objects({IF m.in = "key" THEN "key" ELSE "mr"})
    /\ reg[t] # NotRegistering =>
         /\ reg[t].key \in Objects({"key"})
         /\ reg[t].list \subseteq Of(Objects({"list"}), t)

DeviceInv ==
  /\ dm \in 0 .. DeviceMem
  /\ IsFiniteSet(DevicePairs)
  /\ Cardinality(DevicePairs) <= dm

(* A graph that is described, under construction, finished, or given up by *)
(* an exception.                                                           *)
Stages == {"built", "init", "ready", "failed"}
Steps == {"cq", "scq", "qp", "exchange", "connect", "barrier"}
States == {"RESET", "RTR", "INIT", "RTS"}
Qps(t) == [obj : Of(Objects({"qp"}), t), state : States, cqs : SUBSET Of(Objects(OnCq), t)]
IsGraph(g, t) ==
  /\ g = [stage |-> g.stage, qps |-> g.qps, step |-> g.step, made |-> g.made, own |-> g.own]
  /\ g.stage \in Stages
  /\ g.step \in Steps
  /\ g.made \in Seq(Qps(t))
  /\ g.own \in SUBSET Of(Objects(OnCq), t)

(* What finish() has done where it stands: nothing, or the QP at hand.     *)
Progress(g) ==
  /\ g.stage = "built" => g.step = "cq" /\ Len(g.made) = 0 /\ g.own = {}
  /\ g.stage = "init" /\ g.step \notin {"cq", "scq", "qp"} => Len(g.made) >= 1

GraphTypes ==
  /\ graph = [t \in Threads |-> graph[t]]
  /\ \A t \in Threads :
       /\ graph[t] # NoGraph => IsGraph(graph[t], t) /\ Progress(graph[t]) /\ pc[t] = "in"
       /\ graph[t].stage = "failed" => fails > 0

Clean == fails = 0 /\ ~ refused

(* Where no call has failed: who made an object owns it still, and a graph *)
(* that is ready, or at a QP it has made, has handed its CQs to the QPs.   *)
HoldInv ==
  Clean =>
    /\ \A t \in Threads :
         /\ Of(pd, t) = MemObjs(t) \union RegObjs(t) \union QpObjs(t)
         /\ Of(Cqs(cqs), t) = Cqs(CqObjs(t)) /\ CqObjs(t) \subseteq cqs
         /\ \A m, n \in mem[t] : m.obj = n.obj => m = n
         /\ graph[t].stage = "ready" => graph[t].own = {}
         /\ graph[t].stage = "init" /\ graph[t].step \notin {"cq", "scq", "qp"}
              => graph[t].own = {}
    /\ dm = Cardinality(DevicePairs)

OwnInv == SetTypes /\ MemTypes /\ DeviceInv /\ GraphTypes /\ HoldInv

(* The UMR QP has failed a request only after a failure.                   *)
ErrorInv == umrError \/ umrCq = <<FALSE>> => fails > 0

DeathInv == death \in {"none", "null", "division", "thrown"} /\ DeathHasCause

OwnIInv == IInv /\ OwnInv /\ ErrorInv /\ DeathInv
-----------------------------------------------------------------------------
(* What is fresh does not exist yet.                                       *)

LEMMA SmallestNat ==
  ASSUME NEW S \in SUBSET Nat, S # {}
  PROVE  (CHOOSE n \in S : \A k \in S : n <= k) \in S
<1>1. PICK n \in S : \A k \in S : ~ (<<k, n>> \in OpToRel(<, Nat))
  BY NatLessThanWellFounded, WFMin
<1>2. \A k \in S : n <= k
  <2> SUFFICES ASSUME NEW k \in S, k < n
               PROVE  FALSE
    OBVIOUS
  <2>1. <<k, n>> \in Nat \X Nat
    OBVIOUS
  <2>2. <<k, n>> \in OpToRel(<, Nat)
    BY <2>1 DEF OpToRel
  <2> QED
    BY <1>1, <2>2
<1> QED
  BY <1>2

LEMMA FreshIs ==
  ASSUME NEW objects, IsFiniteSet(objects), NEW is, NEW t \in Threads
  PROVE  /\ Fresh(objects, is, t) \notin objects
         /\ Fresh(objects, is, t) \in Objects({is})
         /\ Fresh(objects, is, t).of = t
<1> DEFINE c == Cardinality(objects)
           name(n) == [is |-> is, of |-> t, nr |-> n]
           free == {n \in 1 .. c + 1 : name(n) \notin objects}
           nr == CHOOSE n \in free : \A k \in free : n <= k
<1>1. c \in Nat
  BY FS_CardinalityType
<1>2. free # {}
  <2> SUFFICES ASSUME \A n \in 1 .. c + 1 : name(n) \in objects
               PROVE  FALSE
    OBVIOUS
  <2> DEFINE f == [n \in 1 .. c + 1 |-> name(n)]
  <2>1. f \in [1 .. c + 1 -> objects]
    OBVIOUS
  <2>2. IsFiniteSet(1 .. c + 1) /\ Cardinality(1 .. c + 1) = c + 1
    BY <1>1, FS_Interval
  <2>3. PICK x \in 1 .. c + 1, y \in 1 .. c + 1 : x # y /\ f[x] = f[y]
    <3>1. c < c + 1
      BY <1>1
    <3> DEFINE S == 1 .. c + 1
    <3>2. IsFiniteSet(S) /\ Cardinality(objects) < Cardinality(S)
      BY <2>2, <3>1
    <3> HIDE DEF f, S, c, free
    <3>3. \E x, y \in S : x # y /\ f[x] = f[y]
      BY <2>1, <3>2, FS_PigeonHole DEF S
    <3> QED
      BY <3>3 DEF S
  <2>4. name(x).nr = name(y).nr
    BY <2>3
  <2> QED
    BY <2>3, <2>4
<1>3. nr \in free
  <2>1. free \in SUBSET Nat
    BY <1>1
  <2> HIDE DEF free
  <2> QED
    BY <1>2, <2>1, SmallestNat
<1>4. Fresh(objects, is, t) = name(nr)
  BY DEF Fresh
<1> HIDE DEF nr
<1>5. name(nr) \notin objects /\ nr \in Nat
  BY <1>1, <1>3
<1> QED
  BY <1>4, <1>5 DEF Objects
-----------------------------------------------------------------------------
(* Steps that touch no object.                                             *)

(* What goes wrong is not forgotten.                                       *)
NoBetter == fails' \in fails .. MaxFails /\ refused' \in BOOLEAN /\ (refused => refused')

LEMMA FailsCounts ==
  ASSUME SetTypes, Fails
  PROVE  /\ fails' \in 0 .. MaxFails /\ fails' > 0 /\ ~ Clean'
         /\ UNCHANGED refused => NoBetter
BY MemBounds DEF Fails, SetTypes, NoBetter, Clean

LEMMA Same == SetTypes /\ UNCHANGED <<fails, refused>> => NoBetter
BY MemBounds DEF SetTypes, NoBetter

LEMMA Worse ==
  ASSUME SetTypes, NoBetter
  PROVE  /\ fails' \in 0 .. MaxFails /\ refused' \in BOOLEAN
         /\ Clean' => Clean
         /\ fails > 0 => fails' > 0
BY MemBounds DEF SetTypes, NoBetter, Clean

LEMMA OwnStart == Init => OwnInv
<1> SUFFICES ASSUME Init PROVE OwnInv
  OBVIOUS
<1>1. DevicePairs = {} /\ IsFiniteSet({}) /\ Cardinality({}) = 0
  BY FS_EmptySet DEF Init, MemInit, DevicePairs
<1>2. SetTypes
  <2>1. pd = {} /\ cqs = {} /\ written = {} /\ umrSq = <<>> /\ ctxMtx = Nobody
    BY DEF Init, MemInit, QueueInit
  <2>2. fails = 0 /\ refused = FALSE /\ instance = 0 /\ opened = 0
    BY DEF Init, MemInit
  <2>3. fails \in 0 .. MaxFails /\ instance \in 0 .. opened
    BY <2>2, MemBounds
  <2>4. refused \in BOOLEAN
    BY <2>2
  <2> QED
    BY <1>1, <2>1, <2>3, <2>4 DEF SetTypes
<1>3. MemTypes /\ DeviceInv /\ GraphTypes
  BY <1>1, MemBounds
  DEF Init, MemInit, QueueInit, MemTypes, DeviceInv, GraphTypes, NoGraph
<1>4. HoldInv
  BY <1>1 DEF Init, MemInit, QueueInit, HoldInv, Of, Cqs, MemObjs, RegObjs, QpObjs, CqObjs,
              NoGraph
<1> QED
  BY <1>2, <1>3, <1>4 DEF OwnInv

LEMMA OwnSame ==
  ASSUME OwnInv, UNCHANGED <<pd, dm, mem, reg, cqs, graph, ctxMtx>>,
         written' \subseteq Objects({"key"}),
         umrSq' # <<>> => umrSq'[1] \in Objects({"key"}),
         NoBetter,
         instance' \in 0 .. opened',
         \A u \in Threads : pc'[u] = "in" \/ pc[u] # "in" \/ graph[u] = NoGraph
  PROVE  OwnInv'
<1>0. fails' \in 0 .. MaxFails /\ refused' \in BOOLEAN /\ (Clean' => Clean)
      /\ (fails > 0 => fails' > 0)
  BY Worse DEF OwnInv
<1>1. SetTypes' /\ MemTypes'
  BY <1>0 DEF OwnInv, SetTypes, MemTypes, NotRegistering
<1>2. UNCHANGED DevicePairs
  BY DEF DevicePairs
<1>3. DeviceInv'
  BY <1>2 DEF OwnInv, DeviceInv
<1>4. GraphTypes'
  BY <1>0 DEF OwnInv, GraphTypes, IsGraph, Progress, Qps, NoGraph
<1>5. HoldInv'
  <2> SUFFICES ASSUME Clean' PROVE HoldInv'
    BY DEF HoldInv
  <2> QED
    BY <1>0, <1>2 DEF OwnInv, HoldInv, Of, Cqs, MemObjs, RegObjs, QpObjs, CqObjs,
                      NoGraph, NotRegistering
<1> QED
  BY <1>1, <1>3, <1>4, <1>5 DEF OwnInv

LEMMA OwnUnchanged ==
  ASSUME OwnInv, UNCHANGED <<pd, dm, mem, reg, umrSq, written, cqs, graph, ctxMtx>>,
         NoBetter,
         instance' \in 0 .. opened',
         \A u \in Threads : pc'[u] = "in" \/ pc[u] # "in" \/ graph[u] = NoGraph
  PROVE  OwnInv'
<1>1. /\ written' \subseteq Objects({"key"})
      /\ umrSq' # <<>> => umrSq'[1] \in Objects({"key"})
  BY DEF OwnInv, SetTypes
<1> QED
  BY <1>1, OwnSame

(* At the end of remInstance nobody has anything.                          *)
LEMMA NobodyIn ==
  ASSUME CtxInv, UmrInv, GraphTypes, NEW t \in Threads, pc[t] = "delete", NEW u \in Threads
  PROVE  reg[u] = NotRegistering /\ mem[u] = {} /\ graph[u] = NoGraph
<1>1. pc[u] # "in"
  <2>1. pc[u] = "in" => u \in Counted
    BY DEF Counted
  <2> QED
    BY <2>1, CountedFinite DEF CtxInv, LastInv
<1> QED
  BY <1>1 DEF UmrInv, QuietInv, GraphTypes

LEMMA OwnDestroy ==
  ASSUME CtxInv, UmrInv, OwnInv, NEW t \in Threads, Destroy(t)
  PROVE  OwnInv'
<1>1. \A u \in Threads : reg[u] = NotRegistering /\ mem[u] = {} /\ graph[u] = NoGraph
  BY NobodyIn DEF OwnInv, Destroy
<1>2. UNCHANGED <<pd, mem, reg, graph, fails, refused, instance, opened>> /\ pd = {}
  BY DEF Destroy
<1>3. DevicePairs' = {} /\ IsFiniteSet({}) /\ Cardinality({}) = 0
  BY <1>1, <1>2, FS_EmptySet DEF DevicePairs
<1>4. SetTypes'
  BY <1>2, <1>3 DEF OwnInv, SetTypes, Destroy
<1>5. MemTypes' /\ DeviceInv'
  BY <1>1, <1>2, <1>3, MemBounds DEF OwnInv, MemTypes, DeviceInv, Destroy
<1>6. GraphTypes'
  BY <1>1, <1>2 DEF OwnInv, GraphTypes, NoGraph
<1>7. HoldInv'
  BY <1>1, <1>2, <1>3
  DEF HoldInv, Clean, Of, Cqs, MemObjs, RegObjs, QpObjs, CqObjs, NoGraph, Destroy
<1> QED
  BY <1>4, <1>5, <1>6, <1>7 DEF OwnInv

LEMMA CtxSteps ==
  ASSUME CtxInv, UmrInv, OwnInv, NEW t \in Threads,
         \/ CallGet(t) \/ GetShared(t) \/ GetNew(t) \/ GetThrows(t) \/ GetReturns(t)
         \/ CallRem(t) \/ Rem(t) \/ Destroy(t) \/ DestroyThrows(t) \/ Clear(t)
  PROVE  OwnInv'
<1>1. /\ pc \in [Threads -> Places] /\ opened \in Nat
      /\ instance \in 0 .. opened /\ fails \in 0 .. MaxFails
  BY DEF CtxInv, CtxTypes, OwnInv, SetTypes
<1>b. /\ UNCHANGED <<fails, refused>> => NoBetter
      /\ Fails /\ UNCHANGED refused => NoBetter
  BY Same, FailsCounts DEF OwnInv
<1>2. CASE CallGet(t) \/ GetShared(t) \/ GetReturns(t) \/ Rem(t) \/ Clear(t)
  BY <1>1, <1>b, <1>2, OwnUnchanged
  DEF CallGet, GetShared, Count, GetReturns, Rem, Clear, Goto, memVars, queueVars
<1>3. CASE GetNew(t)
  BY <1>1, <1>b, <1>3, OwnUnchanged DEF GetNew, Count, Goto, memVars, queueVars
<1>4. CASE GetThrows(t)
  BY <1>1, <1>b, <1>4, OwnUnchanged DEF GetThrows, Goto, umrVars, queueVars
<1>5. CASE CallRem(t)
  BY <1>1, <1>b, <1>5, OwnUnchanged DEF CallRem, Goto, memVars, queueVars
<1>6. CASE DestroyThrows(t)
  BY <1>1, <1>b, <1>6, OwnUnchanged DEF DestroyThrows, ctxVars, umrVars
<1>7. CASE Destroy(t)
  BY <1>7, OwnDestroy
<1> QED
  BY <1>2, <1>3, <1>4, <1>5, <1>6, <1>7
-----------------------------------------------------------------------------
(* Memory objects.                                                         *)

LEMMA InDevicePairs ==
  \A p : p \in DevicePairs <=> \E t \in Threads : \E m \in mem[t] : m.in = "device" /\ p = <<t, m>>
BY DEF DevicePairs

LEMMA InDevicePairsNext ==
  \A p : p \in DevicePairs' <=> \E t \in Threads : \E m \in mem'[t] : m.in = "device" /\ p = <<t, m>>
BY DEF DevicePairs

LEMMA DevicesGrow ==
  ASSUME NEW t \in Threads, NEW m, mem'[t] = mem[t] \union {m},
         \A u \in Threads : u # t => mem'[u] = mem[u]
  PROVE  DevicePairs' = DevicePairs \union (IF m.in = "device" THEN {<<t, m>>} ELSE {})
<1> SUFFICES ASSUME NEW p
             PROVE  p \in DevicePairs' <=>
                      p \in DevicePairs \/ (m.in = "device" /\ p = <<t, m>>)
  OBVIOUS
<1>1. \A u \in Threads : \A n : n \in mem'[u] <=> n \in mem[u] \/ (u = t /\ n = m)
  OBVIOUS
<1> QED
  BY <1>1, InDevicePairs, InDevicePairsNext

LEMMA DevicesShrink ==
  ASSUME NEW t \in Threads, NEW m \in mem[t], mem'[t] = mem[t] \ {m},
         \A u \in Threads : u # t => mem'[u] = mem[u]
  PROVE  /\ DevicePairs' = DevicePairs \ {<<t, m>>}
         /\ <<t, m>> \in DevicePairs <=> m.in = "device"
<1>1. ASSUME NEW p
      PROVE  p \in DevicePairs' <=> p \in DevicePairs /\ p # <<t, m>>
  <2>1. \A u \in Threads : \A n : n \in mem'[u] <=> n \in mem[u] /\ <<u, n>> # <<t, m>>
    OBVIOUS
  <2> QED
    BY <2>1, InDevicePairs, InDevicePairsNext
<1>2. <<t, m>> \in DevicePairs <=> m.in = "device"
  <2>1. \A u, n : <<t, m>> = <<u, n>> => u = t /\ n = m
    OBVIOUS
  <2> QED
    BY <2>1, InDevicePairs
<1> QED
  BY <1>1, <1>2

(* A step of thread t that leaves graphs and the context alone.            *)
LEMMA OnlyMem ==
  ASSUME OwnInv, NEW t \in Threads,
         UNCHANGED <<cqs, graph, pc, ctxMtx, instance, opened>>,
         \A u \in Threads : u # t => mem'[u] = mem[u] /\ reg'[u] = reg[u],
         IsFiniteSet(pd'), pd' \subseteq Objects(OnPd),
         written' \subseteq Objects({"key"}),
         umrSq' # <<>> => umrSq'[1] \in Objects({"key"}),
         NoBetter,
         \A m \in mem'[t] : m.obj \in Objects({IF m.in = "key" THEN "key" ELSE "mr"}),
         reg'[t] # NotRegistering =>
           /\ reg'[t].key \in Objects({"key"})
           /\ reg'[t].list \subseteq Of(Objects({"list"}), t),
         DeviceInv',
         Clean' =>
           /\ \A u \in Threads : u # t => Of(pd', u) = Of(pd, u)
           /\ Of(pd', t) = MemObjs(t)' \union RegObjs(t)' \union QpObjs(t)
           /\ \A m, n \in mem'[t] : m.obj = n.obj => m = n
           /\ dm' = Cardinality(DevicePairs')
  PROVE  OwnInv'
<1>0. fails' \in 0 .. MaxFails /\ refused' \in BOOLEAN /\ (Clean' => Clean)
      /\ (fails > 0 => fails' > 0)
  BY Worse DEF OwnInv
<1>1. SetTypes'
  BY <1>0 DEF OwnInv, SetTypes
<1>2. MemTypes'
  BY DEF OwnInv, MemTypes, NotRegistering
<1>3. GraphTypes'
  BY <1>0 DEF OwnInv, GraphTypes, IsGraph, Progress, Qps, NoGraph
<1>4. HoldInv'
  <2> SUFFICES ASSUME Clean' PROVE HoldInv'
    BY DEF HoldInv
  <2>1. Clean
    BY <1>0
  <2>2. \A u \in Threads : QpObjs(u)' = QpObjs(u) /\ CqObjs(u)' = CqObjs(u)
    BY DEF QpObjs, CqObjs, NoGraph
  <2>3. \A u \in Threads : u # t => MemObjs(u)' = MemObjs(u) /\ RegObjs(u)' = RegObjs(u)
    BY DEF MemObjs, RegObjs, NotRegistering
  <2>4. \A u \in Threads : Of(pd', u) = MemObjs(u)' \union RegObjs(u)' \union QpObjs(u)'
    BY <2>1, <2>2, <2>3 DEF OwnInv, HoldInv
  <2>5. \A u \in Threads : Of(Cqs(cqs'), u) = Cqs(CqObjs(u))' /\ CqObjs(u)' \subseteq cqs'
    BY <2>1, <2>2 DEF OwnInv, HoldInv, Cqs
  <2>6. \A u \in Threads : \A m, n \in mem'[u] : m.obj = n.obj => m = n
    BY <2>1 DEF OwnInv, HoldInv
  <2> QED
    BY <2>1, <2>4, <2>5, <2>6 DEF OwnInv, HoldInv, Of
<1> QED
  BY <1>1, <1>2, <1>3, <1>4 DEF OwnInv
LEMMA RegisteredOwn ==
  ASSUME UmrInv, OwnInv, NEW t \in Threads, NEW place \in {"host", "user", "device"},
         reg[t] = NotRegistering, Registered(t, place),
         dm' = IF place = "device" THEN dm + 1 ELSE dm,
         place = "device" => dm < DeviceMem,
         UNCHANGED <<umrVars, fails, queueVars, ctxVars>>
  PROVE  OwnInv'
<1> DEFINE mr == Fresh(pd, "mr", t)
           m == [in |-> place, obj |-> mr]
<1>1. mr \notin pd /\ mr \in Objects({"mr"}) /\ mr.of = t
  BY FreshIs DEF OwnInv, SetTypes
<1>2. pd' = pd \union {mr} /\ mem' = [mem EXCEPT ![t] = mem[t] \union {m}]
  BY DEF Registered
<1> HIDE DEF mr
<1>b. m.in = place /\ m.obj = mr /\ place # "key"
  OBVIOUS
<1> HIDE DEF m
<1>3. mem'[t] = mem[t] \union {m} /\ \A u \in Threads : u # t => mem'[u] = mem[u]
  BY <1>2 DEF UmrInv, RegInv
<1>4. DevicePairs' = DevicePairs \union (IF place = "device" THEN {<<t, m>>} ELSE {})
  <2>1. DevicePairs' = DevicePairs \union (IF m.in = "device" THEN {<<t, m>>} ELSE {})
    BY <1>3, DevicesGrow
  <2> QED
    BY <1>b, <2>1
<1>5. Clean => m \notin mem[t] /\ \A n \in mem[t] : n.obj # mr
  BY <1>1, <1>b DEF OwnInv, HoldInv, Of, MemObjs
<1>6. Clean /\ place = "device" => <<t, m>> \notin DevicePairs
  <2>1. \A u, n : <<t, m>> = <<u, n>> => u = t /\ n = m
    OBVIOUS
  <2> QED
    BY <1>5, <2>1, InDevicePairs
<1>7. /\ IsFiniteSet(DevicePairs') /\ Cardinality(DevicePairs') <= dm'
      /\ dm' \in 0 .. DeviceMem
      /\ Clean => dm' = Cardinality(DevicePairs')
  <2>1. /\ IsFiniteSet(DevicePairs) /\ Cardinality(DevicePairs) <= dm /\ dm \in 0 .. DeviceMem
        /\ Cardinality(DevicePairs) \in Nat
        /\ Clean => dm = Cardinality(DevicePairs)
    BY FS_CardinalityType DEF OwnInv, DeviceInv, HoldInv
  <2>2. CASE place = "device"
    <3>1. DevicePairs' = DevicePairs \union {<<t, m>>} /\ dm' = dm + 1
      BY <1>4, <2>2
    <3>2. /\ IsFiniteSet(DevicePairs')
          /\ \/ Cardinality(DevicePairs') = Cardinality(DevicePairs)
             \/ Cardinality(DevicePairs') = Cardinality(DevicePairs) + 1
          /\ <<t, m>> \notin DevicePairs =>
               Cardinality(DevicePairs') = Cardinality(DevicePairs) + 1
      BY <2>1, <3>1, FS_AddElement
    <3> QED
      BY <1>6, <2>1, <2>2, <3>1, <3>2, MemBounds
  <2>3. CASE place # "device"
    BY <1>4, <2>1, <2>3
  <2> QED
    BY <2>2, <2>3
<1>8. UNCHANGED <<reg, umrSq, written, cqs, graph, pc, ctxMtx, instance, opened, fails, refused>>
  BY DEF umrVars, queueVars, ctxVars
<1>9. /\ IsFiniteSet(pd') /\ pd' \subseteq Objects(OnPd)
      /\ \A u \in Threads : u # t => Of(pd', u) = Of(pd, u)
      /\ Of(pd', t) = Of(pd, t) \union {mr}
  BY <1>1, <1>2, FS_AddElement DEF OwnInv, SetTypes, Objects, OnPd, Of
<1>10. \A n \in mem'[t] : n.obj \in Objects({IF n.in = "key" THEN "key" ELSE "mr"})
  BY <1>1, <1>3, <1>b DEF OwnInv, MemTypes
<1>11. Clean' =>
         /\ Of(pd', t) = MemObjs(t)' \union RegObjs(t)' \union QpObjs(t)
         /\ \A n, k \in mem'[t] : n.obj = k.obj => n = k
  <2> SUFFICES ASSUME Clean
               PROVE  /\ Of(pd', t) = MemObjs(t)' \union RegObjs(t)' \union QpObjs(t)
                      /\ \A n, k \in mem'[t] : n.obj = k.obj => n = k
    BY <1>8 DEF Clean
  <2>1. MemObjs(t)' = MemObjs(t) \union {mr} /\ RegObjs(t)' = RegObjs(t)
    BY <1>3, <1>8, <1>b DEF MemObjs, RegObjs, NotRegistering
  <2>2. \A n, k \in mem'[t] : n.obj = k.obj => n = k
    BY <1>3, <1>5, <1>b DEF OwnInv, HoldInv
  <2> QED
    BY <1>9, <2>1, <2>2 DEF OwnInv, HoldInv
<1>12. NoBetter /\ (Clean' => dm' = Cardinality(DevicePairs'))
  BY <1>7, <1>8, Same DEF OwnInv, Clean
<1> QED
  BY <1>3, <1>7, <1>8, <1>9, <1>10, <1>11, <1>12, OnlyMem
  DEF OwnInv, SetTypes, DeviceInv

(* A constructor of thread t that throws, having made at most x.           *)
LEMMA ThrownOwn ==
  ASSUME OwnInv, NEW t \in Threads, NEW x, IsFiniteSet(x), x \subseteq Objects(OnPd),
         pd' = pd \union x, dm' \in dm .. DeviceMem, Fails,
         UNCHANGED <<mem, umrVars, queueVars, ctxVars>>
  PROVE  OwnInv'
<1>1. NoBetter /\ ~ Clean'
  BY FailsCounts DEF OwnInv, umrVars
<1>2. UNCHANGED <<reg, umrSq, written, cqs, graph, pc, ctxMtx, instance, opened, mem>>
  BY DEF umrVars, queueVars, ctxVars
<1>3. IsFiniteSet(pd') /\ pd' \subseteq Objects(OnPd)
  BY FS_Union DEF OwnInv, SetTypes
<1>4. DeviceInv'
  <2>1. DevicePairs' = DevicePairs
    BY <1>2 DEF DevicePairs
  <2>2. Cardinality(DevicePairs) \in Nat
    BY FS_CardinalityType DEF OwnInv, DeviceInv
  <2>3. Cardinality(DevicePairs) <= dm /\ dm \in 0 .. DeviceMem
    BY DEF OwnInv, DeviceInv
  <2>4. dm' \in 0 .. DeviceMem /\ Cardinality(DevicePairs) <= dm'
    BY <2>2, <2>3, MemBounds
  <2> QED
    BY <2>1, <2>4 DEF OwnInv, DeviceInv
<1>5. /\ \A m \in mem[t] : m.obj \in Objects({IF m.in = "key" THEN "key" ELSE "mr"})
      /\ reg[t] # NotRegistering =>
           /\ reg[t].key \in Objects({"key"})
           /\ reg[t].list \subseteq Of(Objects({"list"}), t)
  BY DEF OwnInv, MemTypes
<1>6. /\ written \subseteq Objects({"key"})
      /\ umrSq # <<>> => umrSq[1] \in Objects({"key"})
  BY DEF OwnInv, SetTypes
<1> QED
  BY <1>1, <1>2, <1>3, <1>4, <1>5, <1>6, OnlyMem

LEMMA MakeKeyOwn ==
  ASSUME UmrInv, OwnInv, NEW t \in Threads, NEW long \in BOOLEAN, MakeKey(t, long),
         UNCHANGED <<queueVars, ctxVars>>
  PROVE  OwnInv'
<1> DEFINE key == Fresh(pd, "key", t)
           list == IF long THEN {Fresh(pd, "list", t)} ELSE {}
<1>1. /\ key \in Objects({"key"}) /\ key.of = t
      /\ list \subseteq Of(Objects({"list"}), t)
      /\ IsFiniteSet(list)
  <2>1. IsFiniteSet(pd)
    BY DEF OwnInv, SetTypes
  <2>2. Fresh(pd, "list", t) \in Of(Objects({"list"}), t)
    BY <2>1, FreshIs DEF Of
  <2>3. IsFiniteSet(list)
    BY FS_EmptySet, FS_Singleton
  <2> QED
    BY <2>1, <2>2, <2>3, FreshIs
<1>2. /\ reg[t] = NotRegistering
      /\ UNCHANGED <<dm, mem, umrError, umrSq, umrCq, written, refused>>
      /\ \/ /\ pd' = pd \union {key} \union list
            /\ reg' = [reg EXCEPT ![t] = [at |-> "post", key |-> key, list |-> list]]
            /\ UNCHANGED fails
         \/ Fails /\ pd' = pd \union list /\ UNCHANGED reg
         \/ Fails /\ UNCHANGED <<pd, reg>>
  BY DEF MakeKey
<1> HIDE DEF key, list
<1>3. UNCHANGED <<cqs, graph, pc, ctxMtx, instance, opened, mem>>
  BY <1>2 DEF queueVars, ctxVars
<1>4. DeviceInv' /\ DevicePairs' = DevicePairs
  BY <1>2 DEF DevicePairs, OwnInv, DeviceInv
<1>5. CASE /\ pd' = pd \union {key} \union list
           /\ reg' = [reg EXCEPT ![t] = [at |-> "post", key |-> key, list |-> list]]
           /\ UNCHANGED fails
  <2>1. /\ reg'[t] = [at |-> "post", key |-> key, list |-> list]
        /\ \A u \in Threads : u # t => reg'[u] = reg[u]
    BY <1>5 DEF UmrInv, RegInv
  <2>2. IsFiniteSet(pd') /\ pd' \subseteq Objects(OnPd)
    <3>1. IsFiniteSet(pd \union {key})
      BY FS_AddElement DEF OwnInv, SetTypes
    <3>2. IsFiniteSet(pd')
      BY <1>1, <1>5, <3>1, FS_Union
    <3> QED
      BY <1>1, <1>5, <3>2 DEF OwnInv, SetTypes, Objects, OnPd, Of
  <2>3. /\ \A u \in Threads : u # t => Of(pd', u) = Of(pd, u)
        /\ Of(pd', t) = Of(pd, t) \union {key} \union list
    BY <1>1, <1>5 DEF Of
  <2>4. /\ MemObjs(t)' = MemObjs(t)
        /\ RegObjs(t)' = {key} \union list /\ RegObjs(t) = {}
    <3>1. reg'[t] # NotRegistering /\ reg'[t].key = key /\ reg'[t].list = list
      BY <2>1 DEF NotRegistering
    <3> QED
      BY <1>2, <3>1 DEF MemObjs, RegObjs
  <2>5. Clean' =>
          /\ Of(pd', t) = MemObjs(t)' \union RegObjs(t)' \union QpObjs(t)
          /\ \A m, n \in mem'[t] : m.obj = n.obj => m = n
          /\ dm' = Cardinality(DevicePairs')
    BY <1>2, <1>4, <1>5, <2>3, <2>4 DEF OwnInv, HoldInv, Clean
  <2>6. /\ reg'[t].key \in Objects({"key"})
        /\ reg'[t].list \subseteq Of(Objects({"list"}), t)
    BY <1>1, <2>1
  <2>7. \A m \in mem'[t] : m.obj \in Objects({IF m.in = "key" THEN "key" ELSE "mr"})
    BY <1>2 DEF OwnInv, MemTypes
  <2>8. /\ written' \subseteq Objects({"key"})
        /\ umrSq' # <<>> => umrSq'[1] \in Objects({"key"})
        /\ NoBetter
    BY <1>2, <1>5, Same DEF OwnInv, SetTypes
  <2> QED
    BY <1>2, <1>3, <1>4, <1>5, <2>1, <2>2, <2>3, <2>5, <2>6, <2>7, <2>8, OnlyMem
<1>6. CASE Fails /\ pd' = pd \union list /\ UNCHANGED reg
  <2>1. list \subseteq Objects(OnPd) /\ dm' \in dm .. DeviceMem
    BY <1>1, <1>2, MemBounds DEF Of, Objects, OnPd, OwnInv, DeviceInv
  <2> QED
    BY <1>1, <1>2, <1>6, <2>1, ThrownOwn DEF umrVars
<1>7. CASE Fails /\ UNCHANGED <<pd, reg>>
  <2>1. pd' = pd \union {} /\ {} \subseteq Objects(OnPd) /\ IsFiniteSet({})
    BY <1>7, FS_EmptySet
  <2>2. dm' \in dm .. DeviceMem
    BY <1>2, MemBounds DEF OwnInv, DeviceInv
  <2> QED
    BY <1>2, <1>7, <2>1, <2>2, ThrownOwn DEF umrVars
<1> QED
  BY <1>2, <1>5, <1>6, <1>7

(* What is known of a graph.                                               *)
LEMMA GraphIs ==
  ASSUME GraphTypes, NEW t \in Threads, graph[t] # NoGraph
  PROVE  /\ pc[t] = "in"
         /\ IsGraph(graph[t], t) /\ Progress(graph[t])
         /\ Len(graph[t].made) \in Nat
         /\ \A i \in 1 .. Len(graph[t].made) :
              /\ graph[t].made[i].obj \in Of(Objects({"qp"}), t)
              /\ graph[t].made[i].cqs \subseteq Of(Objects(OnCq), t)
<1>1. IsGraph(graph[t], t) /\ Progress(graph[t]) /\ pc[t] = "in"
  BY DEF GraphTypes
<1>2. graph[t].made \in Seq(Qps(t))
  BY <1>1 DEF IsGraph
<1>3. \A i \in 1 .. Len(graph[t].made) : graph[t].made[i] \in Qps(t)
  BY <1>2
<1>4. \A q \in Qps(t) : q.obj \in Of(Objects({"qp"}), t) /\ q.cqs \subseteq Of(Objects(OnCq), t)
  BY DEF Qps
<1> QED
  BY <1>1, <1>2, <1>3, <1>4

LEMMA DeleteOwn ==
  ASSUME UmrInv, OwnInv, NEW t \in Threads, NEW m \in mem[t], Delete(t, m),
         UNCHANGED <<queueVars, ctxVars>>
  PROVE  OwnInv'
<1>1. /\ reg[t] = NotRegistering
      /\ mem'[t] = mem[t] \ {m}
      /\ \A u \in Threads : u # t => mem'[u] = mem[u]
      /\ pd' = pd \ {m.obj} \/ (pd' = pd /\ ~ Clean')
      /\ written' \subseteq written
      /\ dm' = (IF m.in = "device" THEN dm - 1 ELSE dm) \/ (dm' = dm /\ ~ Clean')
      /\ UNCHANGED <<reg, umrSq>>
      /\ NoBetter
  <2>1. /\ reg[t] = NotRegistering
        /\ mem'[t] = mem[t] \ {m}
        /\ \A u \in Threads : u # t => mem'[u] = mem[u]
        /\ written' \subseteq written
        /\ UNCHANGED <<reg, umrSq, refused>>
    BY DEF Delete, UmrInv, RegInv
  <2>2. CASE UNCHANGED fails
    <3>1. NoBetter
      BY <2>1, <2>2, Same DEF OwnInv
    <3>2. ~ Fails
      BY <2>2 DEF Fails, OwnInv, SetTypes
    <3> QED
      BY <2>1, <2>2, <3>1, <3>2 DEF Delete
  <2>3. CASE Fails
    <3>1. NoBetter /\ ~ Clean'
      BY <2>1, <2>3, FailsCounts DEF OwnInv
    <3> QED
      BY <2>1, <3>1 DEF Delete
  <2> QED
    BY <2>2, <2>3 DEF Delete
<1>0. Clean' => Clean
  BY <1>1, Worse DEF OwnInv
<1>2. UNCHANGED <<cqs, graph, pc, ctxMtx, instance, opened>>
  BY DEF queueVars, ctxVars
<1>3. m.obj.of = t /\ m.obj.is \in {"mr", "key"}
  BY DEF UmrInv, KeysInv, OwnInv, MemTypes, Objects
<1>4. /\ DevicePairs' = DevicePairs \ {<<t, m>>}
      /\ <<t, m>> \in DevicePairs <=> m.in = "device"
  BY <1>1, DevicesShrink
<1>5. /\ DeviceInv'
      /\ Clean' => dm' = Cardinality(DevicePairs')
  <2>1. /\ IsFiniteSet(DevicePairs) /\ Cardinality(DevicePairs) <= dm /\ dm \in 0 .. DeviceMem
        /\ Cardinality(DevicePairs) \in Nat
        /\ Clean' => dm = Cardinality(DevicePairs)
    BY <1>0, FS_CardinalityType DEF OwnInv, DeviceInv, HoldInv
  <2>2. CASE m.in = "device"
    <3>1. IsFiniteSet(DevicePairs') /\ Cardinality(DevicePairs') = Cardinality(DevicePairs) - 1
      BY <1>4, <2>1, <2>2, FS_RemoveElement
    <3>2. Cardinality(DevicePairs') \in Nat
      BY <3>1, FS_CardinalityType
    <3> QED
      BY <1>1, <2>1, <2>2, <3>1, <3>2, MemBounds DEF DeviceInv
  <2>3. CASE m.in # "device"
    <3>1. DevicePairs' = DevicePairs
      BY <1>4, <2>3
    <3> QED
      BY <1>1, <2>1, <2>3, <3>1 DEF DeviceInv
  <2> QED
    BY <2>2, <2>3
<1>6. /\ IsFiniteSet(pd') /\ pd' \subseteq Objects(OnPd)
      /\ \A u \in Threads : u # t => Of(pd', u) = Of(pd, u)
      /\ Clean' => Of(pd', t) = Of(pd, t) \ {m.obj}
  BY <1>1, <1>3, FS_Subset DEF OwnInv, SetTypes, Of
<1>7. ASSUME Clean'
      PROVE  /\ Of(pd', t) = MemObjs(t)' \union RegObjs(t)' \union QpObjs(t)
             /\ \A n, k \in mem'[t] : n.obj = k.obj => n = k
  <2>1. \A n, k \in mem[t] : n.obj = k.obj => n = k
    BY <1>0, <1>7 DEF OwnInv, HoldInv
  <2>2. MemObjs(t)' = MemObjs(t) \ {m.obj}
    BY <1>1, <2>1 DEF MemObjs
  <2>3. RegObjs(t)' = {} /\ RegObjs(t) = {}
    BY <1>1 DEF RegObjs, NotRegistering
  <2>4. m.obj \notin QpObjs(t)
    <3>1. graph[t] # NoGraph => \A i \in 1 .. Len(graph[t].made) : graph[t].made[i].obj.is = "qp"
      BY GraphIs DEF OwnInv, Objects, Of
    <3> QED
      BY <1>3, <3>1 DEF QpObjs
  <2>5. Of(pd, t) = MemObjs(t) \union RegObjs(t) \union QpObjs(t)
    BY <1>0, <1>7 DEF OwnInv, HoldInv
  <2>6. \A n, k \in mem'[t] : n.obj = k.obj => n = k
    BY <1>1, <2>1
  <2> QED
    BY <1>6, <1>7, <2>2, <2>3, <2>4, <2>5, <2>6
<1>8. /\ \A n \in mem'[t] : n.obj \in Objects({IF n.in = "key" THEN "key" ELSE "mr"})
      /\ reg'[t] = NotRegistering
      /\ written' \subseteq Objects({"key"})
      /\ umrSq' # <<>> => umrSq'[1] \in Objects({"key"})
  BY <1>1 DEF OwnInv, MemTypes, SetTypes
<1> QED
  BY <1>1, <1>2, <1>5, <1>6, <1>7, <1>8, OnlyMem

LEMMA MemoryOwn ==
  ASSUME UmrInv, OwnInv, NEW t \in Threads, NewMemory(t) \/ DeleteMemory(t),
         UNCHANGED <<queueVars, ctxVars>>
  PROVE  OwnInv'
<1>1. ASSUME dm' \in dm .. DeviceMem, Fails, UNCHANGED <<pd, mem, umrVars>>
      PROVE  OwnInv'
  <2>1. pd' = pd \union {} /\ {} \subseteq Objects(OnPd) /\ IsFiniteSet({})
    BY <1>1, FS_EmptySet
  <2> QED
    BY <1>1, <2>1, ThrownOwn
<1>2. dm \in 0 .. DeviceMem
  BY DEF OwnInv, DeviceInv
<1>3. ASSUME NEW place \in {"host", "user"}, NewRegion(t, place)
      PROVE  OwnInv'
  <2>1. reg[t] = NotRegistering /\ UNCHANGED <<dm, umrVars>> /\ place # "device"
    BY <1>3 DEF NewRegion, Free
  <2>2. CASE Registered(t, place) /\ UNCHANGED fails
    BY <2>1, <2>2, RegisteredOwn
  <2>3. CASE Fails /\ UNCHANGED <<pd, mem>>
    BY <1>1, <1>2, <2>1, <2>3, MemBounds
  <2> QED
    BY <1>3, <2>2, <2>3 DEF NewRegion
<1>4. CASE Memic(t)
  <2>1. reg[t] = NotRegistering /\ dm < DeviceMem /\ dm' = dm + 1 /\ UNCHANGED umrVars
    BY <1>4 DEF Memic, Free
  <2>2. CASE Registered(t, "device") /\ UNCHANGED fails
    BY <2>1, <2>2, RegisteredOwn
  <2>3. CASE Fails /\ UNCHANGED <<pd, mem>>
    BY <1>1, <1>2, <2>1, <2>3, MemBounds
  <2> QED
    BY <1>4, <2>2, <2>3 DEF Memic
<1> QED
  BY <1>3, <1>4, MakeKeyOwn, DeleteOwn DEF NewMemory, DeleteMemory, PipeMem, UsrMem, HostMem
-----------------------------------------------------------------------------
(* register_umr.                                                           *)

(* Thread t goes on in register_umr, with the same objects, or throws.     *)
LEMMA RegOwn ==
  ASSUME UmrInv, OwnInv, NEW t \in Threads,
         UNCHANGED <<pd, dm, mem, written, queueVars, ctxVars>>,
         umrSq' # <<>> => umrSq'[1] \in Objects({"key"}),
         \A u \in Threads : u # t => reg'[u] = reg[u],
         NoBetter,
         \/ /\ reg[t] # NotRegistering /\ reg'[t] # NotRegistering
            /\ reg'[t].key = reg[t].key /\ reg'[t].list = reg[t].list
         \/ ~ Clean' /\ reg'[t] = NotRegistering
  PROVE  OwnInv'
<1>1. UNCHANGED <<cqs, graph, pc, ctxMtx, instance, opened, mem>>
  BY DEF queueVars, ctxVars
<1>2. DeviceInv' /\ DevicePairs' = DevicePairs
  BY DEF DevicePairs, OwnInv, DeviceInv
<1>3. /\ IsFiniteSet(pd') /\ pd' \subseteq Objects(OnPd)
      /\ written' \subseteq Objects({"key"})
      /\ \A m \in mem'[t] : m.obj \in Objects({IF m.in = "key" THEN "key" ELSE "mr"})
      /\ reg'[t] # NotRegistering =>
           /\ reg'[t].key \in Objects({"key"})
           /\ reg'[t].list \subseteq Of(Objects({"list"}), t)
  BY DEF OwnInv, SetTypes, MemTypes
<1>4. \A u \in Threads : u # t => mem'[u] = mem[u] /\ Of(pd', u) = Of(pd, u)
  BY DEF Of
<1>5. Clean' =>
        /\ Of(pd', t) = MemObjs(t)' \union RegObjs(t)' \union QpObjs(t)
        /\ \A m, n \in mem'[t] : m.obj = n.obj => m = n
        /\ dm' = Cardinality(DevicePairs')
  <2> SUFFICES ASSUME Clean'
               PROVE  /\ Of(pd', t) = MemObjs(t)' \union RegObjs(t)' \union QpObjs(t)
                      /\ \A m, n \in mem'[t] : m.obj = n.obj => m = n
                      /\ dm' = Cardinality(DevicePairs')
    OBVIOUS
  <2>1. Clean /\ MemObjs(t)' = MemObjs(t) /\ RegObjs(t)' = RegObjs(t)
    BY Worse DEF MemObjs, RegObjs, OwnInv
  <2> QED
    BY <1>2, <2>1 DEF OwnInv, HoldInv, Of
<1> QED
  BY <1>1, <1>2, <1>3, <1>4, <1>5, OnlyMem

LEMMA PollOwn ==
  ASSUME UmrInv, OwnInv, ErrorInv, NEW t \in Threads, PollUmr(t), UNCHANGED <<queueVars, ctxVars>>
  PROVE  OwnInv'
<1> DEFINE m == [in |-> "key", obj |-> reg[t].key]
<1>1. /\ reg[t].at = "poll" /\ UNCHANGED <<dm, umrSq, written, refused>>
      /\ reg'[t] = NotRegistering /\ \A u \in Threads : u # t => reg'[u] = reg[u]
  BY DEF PollUmr, UmrInv, RegInv
<1>2. Keys(t) = {} /\ reg[t].key.of = t /\ reg[t] # NotRegistering
  BY <1>1, Registering
<1>3. reg[t].key \in Objects({"key"}) /\ reg[t].list \subseteq Of(Objects({"list"}), t)
  BY <1>2 DEF OwnInv, MemTypes
<1>4. UNCHANGED <<cqs, graph, pc, ctxMtx, instance, opened>>
  BY DEF queueVars, ctxVars
<1>5. /\ written \subseteq Objects({"key"})
      /\ umrSq # <<>> => umrSq[1] \in Objects({"key"})
      /\ IsFiniteSet(pd) /\ pd \subseteq Objects(OnPd)
      /\ \A n \in mem[t] : n.obj \in Objects({IF n.in = "key" THEN "key" ELSE "mr"})
  BY DEF OwnInv, SetTypes, MemTypes
<1>6. CASE Head(umrCq)
  <2>1. /\ mem'[t] = mem[t] \union {m}
        /\ pd' = pd \ reg[t].list \/ (pd' = pd /\ ~ Clean')
        /\ \A u \in Threads : u # t => mem'[u] = mem[u]
        /\ NoBetter
    <3>1. /\ mem'[t] = mem[t] \union {m}
          /\ \A u \in Threads : u # t => mem'[u] = mem[u]
          /\ \/ pd' = pd \ reg[t].list /\ UNCHANGED fails
             \/ Fails /\ UNCHANGED pd
      BY <1>6 DEF PollUmr, UmrInv, RegInv
    <3>2. UNCHANGED fails => NoBetter
      BY <1>1, Same DEF OwnInv
    <3>3. Fails => NoBetter /\ ~ Clean'
      BY <1>1, FailsCounts DEF OwnInv
    <3> QED
      BY <3>1, <3>2, <3>3
  <2>2. m.in = "key" /\ m.obj = reg[t].key
    OBVIOUS
  <2> HIDE DEF m
  <2>3. DevicePairs' = DevicePairs
    <3>1. DevicePairs' = DevicePairs \union (IF m.in = "device" THEN {<<t, m>>} ELSE {})
      BY <2>1, DevicesGrow
    <3> QED
      BY <2>2, <3>1
  <2>4. DeviceInv'
    BY <1>1, <2>3 DEF OwnInv, DeviceInv
  <2>5. /\ IsFiniteSet(pd') /\ pd' \subseteq Objects(OnPd)
        /\ \A u \in Threads : u # t => Of(pd', u) = Of(pd, u)
        /\ Clean' => Of(pd', t) = Of(pd, t) \ reg[t].list
    BY <1>3, <1>5, <2>1, FS_Subset DEF Of
  <2>6. \A n \in mem'[t] : n.obj \in Objects({IF n.in = "key" THEN "key" ELSE "mr"})
    BY <1>3, <1>5, <2>1, <2>2
  <2>7. ASSUME Clean'
        PROVE  /\ Of(pd', t) = MemObjs(t)' \union RegObjs(t)' \union QpObjs(t)
               /\ \A n, k \in mem'[t] : n.obj = k.obj => n = k
               /\ dm' = Cardinality(DevicePairs')
    <3>0. Clean
      BY <2>1, <2>7, Worse DEF OwnInv
    <3>1. Of(pd, t) = MemObjs(t) \union RegObjs(t) \union QpObjs(t)
      BY <3>0 DEF OwnInv, HoldInv
    <3>2. RegObjs(t) = {reg[t].key} \union reg[t].list /\ RegObjs(t)' = {}
      BY <1>1, <1>2 DEF RegObjs
    <3>3. MemObjs(t)' = MemObjs(t) \union {reg[t].key}
      BY <2>1, <2>2 DEF MemObjs
    <3>4. \A o \in reg[t].list : o.is = "list"
      BY <1>3 DEF Objects, Of
    <3>5. \A o \in MemObjs(t) \union {reg[t].key} : o.is \in {"mr", "key"}
      BY <1>3, <1>5 DEF MemObjs, Objects
    <3>6. \A o \in QpObjs(t) : o.is = "qp"
      BY GraphIs DEF QpObjs, OwnInv, Objects, Of
    <3>7. Of(pd', t) = MemObjs(t)' \union RegObjs(t)' \union QpObjs(t)
      BY <2>5, <2>7, <3>1, <3>2, <3>3, <3>4, <3>5, <3>6
    <3>8. \A n \in mem[t] : n.obj # reg[t].key
      <4>1. \A n \in mem[t] : n.in # "key"
        BY <1>2 DEF Keys, Regions
      <4> QED
        BY <1>3, <1>5, <4>1 DEF Objects
    <3>9. \A n, k \in mem'[t] : n.obj = k.obj => n = k
      BY <2>1, <2>2, <3>0, <3>8 DEF OwnInv, HoldInv
    <3> QED
      BY <1>1, <2>3, <3>0, <3>7, <3>9 DEF OwnInv, HoldInv
  <2> QED
    BY <1>1, <1>4, <1>5, <2>1, <2>4, <2>5, <2>6, <2>7, OnlyMem
<1>7. CASE ~ Head(umrCq)
  <2>1. UNCHANGED <<mem, pd, fails>>
    BY <1>7 DEF PollUmr
  <2>2. fails > 0
    <3>1. umrCq \in {<<TRUE>>, <<FALSE>>}
      BY DEF PollUmr, UmrInv, SlotInv
    <3>2. umrCq = <<FALSE>>
      BY <1>7, <3>1, OneSlot
    <3> QED
      BY <3>2 DEF ErrorInv
  <2>3. NoBetter /\ ~ Clean'
    BY <1>1, <2>1, <2>2, Same DEF OwnInv, SetTypes, Clean
  <2> QED
    BY <1>1, <1>5, <2>1, <2>3, RegOwn
<1> QED
  BY <1>6, <1>7

LEMMA RegisterOwn ==
  ASSUME UmrInv, OwnInv, ErrorInv, NEW t \in Threads, RegisterUmr(t),
         UNCHANGED <<queueVars, ctxVars>>
  PROVE  OwnInv'
<1>1. umrSq # <<>> => umrSq[1] \in Objects({"key"})
  BY DEF OwnInv, SetTypes
<1>2. CASE Post(t)
  <2>1. umrSq = <<>>
    BY <1>2 DEF Post, SlotsTaken, UmrSlots, UmrInv, SlotInv
  <2>2. /\ UNCHANGED <<pd, dm, mem, written, fails, refused>>
        /\ umrSq' = <<reg[t].key>> /\ reg[t].at = "post"
    BY <1>2, <2>1 DEF Post
  <2>3. reg[t] # NotRegistering /\ reg[t] = [at |-> "post", key |-> reg[t].key, list |-> reg[t].list]
    BY <2>2, Registering
  <2>4. umrSq'[1] \in Objects({"key"})
    BY <2>2, <2>3 DEF OwnInv, MemTypes
  <2>5. /\ reg'[t] = [at |-> "poll", key |-> reg[t].key, list |-> reg[t].list]
        /\ \A u \in Threads : u # t => reg'[u] = reg[u]
    BY <1>2, <2>3 DEF Post, UmrInv, RegInv
  <2>6. reg'[t] # NotRegistering
    BY <2>5 DEF NotRegistering
  <2>7. NoBetter
    BY <2>2, Same DEF OwnInv
  <2> QED
    BY <2>2, <2>3, <2>4, <2>5, <2>6, <2>7, RegOwn
<1>3. CASE PostFails(t)
  <2>1. NoBetter /\ ~ Clean'
    <3>1. CASE refused' = TRUE /\ UNCHANGED fails
      BY <3>1, MemBounds DEF NoBetter, Clean, OwnInv, SetTypes
    <3>2. CASE Fails /\ UNCHANGED refused
      BY <3>2, FailsCounts DEF OwnInv
    <3> QED
      BY <1>3, <3>1, <3>2 DEF PostFails
  <2>2. reg'[t] = NotRegistering /\ \A u \in Threads : u # t => reg'[u] = reg[u]
    BY <1>3 DEF PostFails, UmrInv, RegInv
  <2> QED
    BY <1>1, <1>3, <2>1, <2>2, RegOwn DEF PostFails
<1>4. CASE PollUmr(t)
  BY <1>4, PollOwn
<1>5. CASE PollUmrFails(t)
  <2>1. NoBetter /\ ~ Clean'
    BY <1>5, FailsCounts DEF PollUmrFails, OwnInv
  <2>2. reg'[t] = NotRegistering /\ \A u \in Threads : u # t => reg'[u] = reg[u]
    BY <1>5 DEF PollUmrFails, UmrInv, RegInv
  <2> QED
    BY <1>1, <1>5, <2>1, <2>2, RegOwn DEF PollUmrFails
<1> QED
  BY <1>2, <1>3, <1>4, <1>5 DEF RegisterUmr

LEMMA HwOwn ==
  ASSUME UmrInv, OwnInv, Device
  PROVE  OwnInv'
<1>1. /\ UNCHANGED <<pd, dm, mem, reg, cqs, graph, ctxMtx, pc, instance, opened>>
      /\ umrSq # <<>> /\ umrSq' = Tail(umrSq)
  BY DEF Device, HwUmr, queueVars, ctxVars
<1>2. umrSq = <<umrSq[1]>> /\ umrSq[1] \in Objects({"key"})
  BY <1>1 DEF UmrInv, SlotInv, OwnInv, SetTypes
<1>3. Head(umrSq) = umrSq[1] /\ umrSq' = <<>>
  <2> DEFINE x == umrSq[1]
  <2> HIDE DEF x
  <2>1. umrSq = <<x>>
    BY <1>2 DEF x
  <2> QED
    BY <1>1, <2>1, OneSlot DEF x
<1>4. written \subseteq Objects({"key"}) /\ instance \in 0 .. opened
  BY DEF OwnInv, SetTypes
<1>5. NoBetter
  BY Same, FailsCounts DEF Device, HwUmr, OwnInv
<1>6. written' \subseteq Objects({"key"})
  BY <1>2, <1>3, <1>4 DEF Device, HwUmr
<1> QED
  BY <1>1, <1>3, <1>4, <1>5, <1>6, OwnSame
-----------------------------------------------------------------------------
(* Graphs.                                                                 *)

LEMMA StageOfNone == \A t : graph[t].stage # "none" => graph[t] # NoGraph
BY DEF NoGraph

LEMMA RecordGraph ==
  ASSUME NEW t \in Threads, NEW r, NEW stage \in Stages, NEW qps, NEW step \in Steps,
         NEW made \in Seq(Qps(t)), NEW own \in SUBSET Of(Objects(OnCq), t),
         r = [stage |-> stage, qps |-> qps, step |-> step, made |-> made, own |-> own]
  PROVE  /\ IsGraph(r, t)
         /\ r.stage = stage /\ r.qps = qps /\ r.step = step /\ r.made = made /\ r.own = own
<1>1. /\ r.stage = stage /\ r.qps = qps /\ r.step = step /\ r.made = made /\ r.own = own
      /\ r = [stage |-> r.stage, qps |-> r.qps, step |-> r.step, made |-> r.made, own |-> r.own]
  OBVIOUS
<1> QED
  BY <1>1 DEF IsGraph

LEMMA GraphIsSome == ASSUME NEW t, NEW r, IsGraph(r, t) PROVE r # NoGraph
<1>1. r.stage \in Stages
  BY DEF IsGraph
<1> QED
  BY <1>1 DEF NoGraph, Stages

(* A graph that is not there has nothing, one that is only its own.        *)
LEMMA CqOf ==
  ASSUME OwnInv, NEW t \in Threads, NEW c \in CqObjs(t)
  PROVE  c.of = t
<1>1. graph[t] # NoGraph
  BY DEF CqObjs
<1>2. /\ graph[t].own \subseteq Of(Objects(OnCq), t)
      /\ \A i \in 1 .. Len(graph[t].made) : graph[t].made[i].cqs \subseteq Of(Objects(OnCq), t)
  BY <1>1, GraphIs DEF OwnInv, IsGraph
<1> QED
  BY <1>1, <1>2 DEF CqObjs, Of

(* A step of thread t on its graph.                                        *)
LEMMA OnlyGraph ==
  ASSUME OwnInv, NEW t \in Threads, Untouched, UNCHANGED ctxVars,
         graph' = [u \in Threads |-> graph'[u]],
         \A u \in Threads : u # t => graph'[u] = graph[u],
         graph'[t] # NoGraph => IsGraph(graph'[t], t) /\ Progress(graph'[t]) /\ pc[t] = "in",
         graph'[t].stage = "failed" => fails' > 0,
         IsFiniteSet(pd'), pd' \subseteq Objects(OnPd),
         IsFiniteSet(cqs'), cqs' \subseteq Objects(OnCq),
         NoBetter,
         ctxMtx' \in Threads \union {Nobody},
         Clean' =>
           /\ \A u \in Threads : u # t => Of(pd', u) = Of(pd, u) /\ Of(cqs', u) = Of(cqs, u)
           /\ Of(pd', t) = MemObjs(t) \union RegObjs(t) \union QpObjs(t)'
           /\ Of(Cqs(cqs'), t) = Cqs(CqObjs(t))' /\ CqObjs(t)' \subseteq cqs'
           /\ graph'[t].stage = "ready" => graph'[t].own = {}
           /\ graph'[t].stage = "init" /\ graph'[t].step \notin {"cq", "scq", "qp"}
                => graph'[t].own = {}
  PROVE  OwnInv'
<1>0. fails' \in 0 .. MaxFails /\ refused' \in BOOLEAN /\ (Clean' => Clean)
      /\ (fails > 0 => fails' > 0)
  BY Worse DEF OwnInv
<1>1. UNCHANGED <<dm, mem, reg, umrSq, written, pc, instance, opened>>
  BY DEF Untouched, umrVars, ctxVars
<1>2. SetTypes'
  BY <1>0, <1>1 DEF OwnInv, SetTypes
<1>3. MemTypes'
  BY <1>1 DEF OwnInv, MemTypes, NotRegistering
<1>4. DeviceInv' /\ DevicePairs' = DevicePairs
  BY <1>1 DEF DevicePairs, OwnInv, DeviceInv
<1>5. GraphTypes'
  <2> SUFFICES ASSUME NEW u \in Threads
               PROVE  (/\ graph[u] # NoGraph =>
                            IsGraph(graph[u], u) /\ Progress(graph[u]) /\ pc[u] = "in"
                       /\ graph[u].stage = "failed" => fails > 0)'
    BY DEF GraphTypes
  <2>1. /\ IsGraph(graph[u], u)' <=> IsGraph(graph'[u], u)
        /\ Progress(graph[u])' <=> Progress(graph'[u])
        /\ (graph[u] = NoGraph)' <=> graph'[u] = NoGraph
    BY DEF IsGraph, Qps, Progress, NoGraph
  <2>2. CASE u = t
    BY <1>1, <2>1, <2>2
  <2>3. CASE u # t
    <3>1. /\ graph'[u] # NoGraph =>
               IsGraph(graph'[u], u) /\ Progress(graph'[u]) /\ pc[u] = "in"
          /\ graph'[u].stage = "failed" => fails > 0
      BY <2>3 DEF OwnInv, GraphTypes
    <3> QED
      BY <1>0, <1>1, <2>1, <3>1
  <2> QED
    BY <2>2, <2>3
<1>6. HoldInv'
  <2> SUFFICES ASSUME Clean' PROVE HoldInv'
    BY DEF HoldInv
  <2>1. Clean
    BY <1>0
  <2>2. \A u \in Threads : MemObjs(u)' = MemObjs(u) /\ RegObjs(u)' = RegObjs(u)
    BY <1>1 DEF MemObjs, RegObjs, NotRegistering
  <2>3. \A u \in Threads : u # t => QpObjs(u)' = QpObjs(u) /\ CqObjs(u)' = CqObjs(u)
    <3> SUFFICES ASSUME NEW u \in Threads, u # t
                 PROVE  QpObjs(u)' = QpObjs(u) /\ CqObjs(u)' = CqObjs(u)
      OBVIOUS
    <3>1. graph'[u] = graph[u]
      OBVIOUS
    <3>2. QpObjs(u)' = QpObjs(u)
      BY <3>1 DEF QpObjs, NoGraph
    <3>3. CqObjs(u)' = CqObjs(u)
      BY <3>1 DEF CqObjs, NoGraph
    <3> QED
      BY <3>2, <3>3
  <2>4. \A u \in Threads : Of(pd', u) = MemObjs(u)' \union RegObjs(u)' \union QpObjs(u)'
    BY <2>1, <2>2, <2>3 DEF OwnInv, HoldInv
  <2>5. \A u \in Threads : Of(Cqs(cqs'), u) = Cqs(CqObjs(u))'
    <3> SUFFICES ASSUME NEW u \in Threads, u # t
                 PROVE  Of(Cqs(cqs'), u) = Cqs(CqObjs(u))'
      OBVIOUS
    <3>1. Of(Cqs(cqs'), u) = Of(Cqs(cqs), u)
      BY DEF Of, Cqs
    <3> QED
      BY <2>1, <2>3, <3>1 DEF OwnInv, HoldInv, Cqs
  <2>6. \A u \in Threads : CqObjs(u)' \subseteq cqs'
    <3> SUFFICES ASSUME NEW u \in Threads, u # t
                 PROVE  CqObjs(u)' \subseteq cqs'
      OBVIOUS
    <3>1. CqObjs(u)' = CqObjs(u) /\ CqObjs(u) \subseteq cqs /\ Of(cqs', u) = Of(cqs, u)
      BY <2>1, <2>3 DEF OwnInv, HoldInv
    <3>2. \A c \in CqObjs(u) : c.of = u
      BY CqOf
    <3> QED
      BY <3>1, <3>2 DEF Of
  <2>7. \A u \in Threads :
          /\ \A m, n \in mem'[u] : m.obj = n.obj => m = n
          /\ graph'[u].stage = "ready" => graph'[u].own = {}
          /\ graph'[u].stage = "init" /\ graph'[u].step \notin {"cq", "scq", "qp"}
               => graph'[u].own = {}
    BY <1>1, <2>1 DEF OwnInv, HoldInv
  <2>8. dm' = Cardinality(DevicePairs')
    BY <1>1, <1>4, <2>1 DEF OwnInv, HoldInv
  <2> QED
    BY <2>4, <2>5, <2>6, <2>7, <2>8 DEF HoldInv
<1> QED
  BY <1>2, <1>3, <1>4, <1>5, <1>6 DEF OwnInv

(* An exception leaves behind what was made, x and y included.             *)
LEMMA ThrowOwn ==
  ASSUME OwnInv, NEW t \in Threads, Untouched, UNCHANGED ctxVars,
         graph[t].stage = "init", Throws(t), Fails,
         NEW x, IsFiniteSet(x), x \subseteq Objects(OnPd), pd' = pd \union x,
         NEW y, IsFiniteSet(y), y \subseteq Objects(OnCq), cqs' = cqs \union y,
         ctxMtx' \in Threads \union {Nobody}
  PROVE  OwnInv'
<1>1. fails' > 0 /\ NoBetter /\ ~ Clean'
  BY FailsCounts DEF OwnInv, Untouched, umrVars
<1>2. graph[t] # NoGraph
  BY StageOfNone
<1>3. IsGraph(graph[t], t) /\ pc[t] = "in"
  BY <1>2 DEF OwnInv, GraphTypes
<1> DEFINE g == graph[t]
           own == {}
<1>4. /\ graph'[t] = [g EXCEPT !.stage = "failed", !.step = "cq", !.own = own]
      /\ graph' = [u \in Threads |-> graph'[u]]
      /\ \A u \in Threads : u # t => graph'[u] = graph[u]
  BY DEF Throws, OwnInv, GraphTypes
<1>5. own \in SUBSET Of(Objects(OnCq), t)
  OBVIOUS
<1> HIDE DEF g, own
<1>6. /\ graph'[t] = [stage |-> "failed", qps |-> g.qps, step |-> "cq", made |-> g.made,
                      own |-> own]
      /\ g.made \in Seq(Qps(t)) /\ "failed" \in Stages /\ "cq" \in Steps
  BY <1>3, <1>4 DEF IsGraph, g, Stages, Steps
<1>7. IsGraph(graph'[t], t) /\ graph'[t].stage = "failed"
  BY <1>5, <1>6, RecordGraph
<1>8. Progress(graph'[t])
  BY <1>7 DEF Progress
<1>9. /\ IsFiniteSet(pd') /\ pd' \subseteq Objects(OnPd)
      /\ IsFiniteSet(cqs') /\ cqs' \subseteq Objects(OnCq)
  BY FS_Union DEF OwnInv, SetTypes
<1> QED
  BY <1>1, <1>3, <1>4, <1>7, <1>8, <1>9, OnlyGraph

LEMMA CreateCqOwn ==
  ASSUME OwnInv, NEW t \in Threads, CreateCq(t), UNCHANGED ctxVars
  PROVE  OwnInv'
<1> DEFINE is == IF At(t, "cq") THEN "cq" ELSE "scq"
           cq == Fresh(cqs, is, t)
           next == IF is = "cq" /\ TwoCqs(KindAt(t)) THEN "scq" ELSE "qp"
<1>1. cq \in Of(Objects(OnCq), t)
  BY FreshIs DEF OwnInv, SetTypes, Objects, OnCq, Of
<1>2. /\ graph[t].stage = "init" /\ Untouched /\ UNCHANGED <<pd, ctxMtx>>
      /\ \/ /\ cqs' = cqs \union {cq}
            /\ graph' = [graph EXCEPT ![t].own = @ \union {cq}, ![t].step = next]
            /\ UNCHANGED fails
         \/ Fails /\ Throws(t) /\ UNCHANGED cqs
         \/ Fails /\ Throws(t) /\ cqs' = cqs \union {cq}
  BY DEF CreateCq, At
<1>3. next \in {"scq", "qp"}
  OBVIOUS
<1> HIDE DEF cq, next
<1>4. cq \in Objects(OnCq) /\ cq.of = t
  BY <1>1 DEF Of
<1>5. ctxMtx' \in Threads \union {Nobody} /\ pd' = pd \union {} /\ {} \subseteq Objects(OnPd)
      /\ IsFiniteSet({}) /\ IsFiniteSet({cq})
  BY <1>2, FS_EmptySet, FS_Singleton DEF OwnInv, SetTypes
<1>6. CASE Fails /\ Throws(t) /\ UNCHANGED cqs
  <2>1. cqs' = cqs \union {} /\ {} \subseteq Objects(OnCq)
    BY <1>6
  <2> QED
    BY <1>2, <1>5, <1>6, <2>1, ThrowOwn
<1>7. CASE Fails /\ Throws(t) /\ cqs' = cqs \union {cq}
  <2>1. {cq} \subseteq Objects(OnCq)
    BY <1>4
  <2> QED
    BY <1>2, <1>5, <1>7, <2>1, ThrowOwn
<1>8. CASE /\ cqs' = cqs \union {cq}
           /\ graph' = [graph EXCEPT ![t].own = @ \union {cq}, ![t].step = next]
           /\ UNCHANGED fails
  <2>1. graph[t] # NoGraph
    BY <1>2, StageOfNone
  <2> DEFINE g == graph[t]
             own == g.own \union {cq}
  <2>2. IsGraph(g, t) /\ pc[t] = "in" /\ g.stage = "init"
    BY <1>2, <2>1 DEF OwnInv, GraphTypes
  <2>3. /\ graph'[t] = [g EXCEPT !.own = own, !.step = next]
        /\ graph' = [u \in Threads |-> graph'[u]]
        /\ \A u \in Threads : u # t => graph'[u] = graph[u]
    BY <1>8 DEF OwnInv, GraphTypes
  <2>4. own \in SUBSET Of(Objects(OnCq), t) /\ next \in Steps /\ own = graph[t].own \union {cq}
    BY <1>1, <1>3, <2>2 DEF IsGraph, Steps
  <2>5. /\ IsGraph(graph'[t], t) /\ graph'[t] # NoGraph
        /\ graph'[t].made = graph[t].made /\ graph'[t].own = own
        /\ graph'[t].stage = "init" /\ graph'[t].step = next
    <3> HIDE DEF g, own
    <3>1. /\ graph'[t] = [stage |-> "init", qps |-> g.qps, step |-> next, made |-> g.made,
                          own |-> own]
          /\ g.made \in Seq(Qps(t)) /\ "init" \in Stages
      BY <2>2, <2>3 DEF IsGraph, Stages
    <3>2. /\ IsGraph(graph'[t], t)
          /\ graph'[t].made = g.made /\ graph'[t].own = own
          /\ graph'[t].stage = "init" /\ graph'[t].step = next
      BY <2>4, <3>1, RecordGraph
    <3> QED
      BY <3>2, GraphIsSome DEF g
  <2> HIDE DEF g, own
  <2>6. /\ IsFiniteSet(pd) /\ pd \subseteq Objects(OnPd)
        /\ IsFiniteSet(cqs') /\ cqs' \subseteq Objects(OnCq)
    BY <1>4, <1>8, FS_AddElement DEF OwnInv, SetTypes
  <2>7. \A u \in Threads : u # t => Of(cqs', u) = Of(cqs, u)
    BY <1>4, <1>8 DEF Of
  <2>8. QpObjs(t)' = QpObjs(t) /\ CqObjs(t)' = CqObjs(t) \union {cq}
    BY <2>1, <2>4, <2>5 DEF QpObjs, CqObjs
  <2>9. NoBetter /\ (Clean' => Clean)
    BY <1>2, <1>8, Same, Worse DEF OwnInv, Untouched, umrVars
  <2>10. Clean => /\ Of(pd, t) = MemObjs(t) \union RegObjs(t) \union QpObjs(t)'
                  /\ Of(Cqs(cqs'), t) = Cqs(CqObjs(t))' /\ CqObjs(t)' \subseteq cqs'
    <3> SUFFICES ASSUME Clean
                 PROVE  /\ Of(pd, t) = MemObjs(t) \union RegObjs(t) \union QpObjs(t)'
                        /\ Of(Cqs(cqs'), t) = Cqs(CqObjs(t))' /\ CqObjs(t)' \subseteq cqs'
      OBVIOUS
    <3>1. Of(Cqs(cqs), t) = Cqs(CqObjs(t)) /\ CqObjs(t) \subseteq cqs
      BY DEF OwnInv, HoldInv
    <3>2. Of(Cqs(cqs'), t) = Cqs(CqObjs(t))'
      <4>1. Of(Cqs(cqs'), t) = Of(Cqs(cqs), t) \union Cqs({cq})
        BY <1>4, <1>8 DEF Of, Cqs
      <4>2. Cqs(CqObjs(t))' = Cqs(CqObjs(t)) \union Cqs({cq})
        BY <2>8 DEF Cqs
      <4> QED
        BY <3>1, <4>1, <4>2
    <3>3. CqObjs(t)' \subseteq cqs'
      BY <1>8, <2>8, <3>1
    <3> QED
      BY <2>8, <3>2, <3>3 DEF OwnInv, HoldInv
  <2>11. /\ graph'[t].stage # "failed" /\ graph'[t].stage # "ready"
         /\ graph'[t].step \in {"cq", "scq", "qp"}
         /\ Progress(graph'[t])
    BY <1>3, <2>5 DEF Progress
  <2>12. /\ UNCHANGED pd /\ Untouched /\ pc[t] = "in"
         /\ graph' = [u \in Threads |-> graph'[u]]
         /\ \A u \in Threads : u # t => graph'[u] = graph[u]
         /\ ctxMtx' \in Threads \union {Nobody}
    BY <1>2, <1>5, <2>2, <2>3
  <2> QED
    BY <2>5, <2>6, <2>7, <2>9, <2>10, <2>11, <2>12, OnlyGraph
<1> QED
  BY <1>2, <1>6, <1>7, <1>8

(* Thread t goes on to make its graph: a QP more, or the same QPs.         *)
LEMMA NewQpOwn ==
  ASSUME OwnInv, NEW t \in Threads, Untouched, UNCHANGED <<ctxVars, cqs>>,
         graph[t].stage = "init",
         NEW state \in States, NEW stage \in {"init", "ready"}, NEW step \in Steps,
         NEW qp \in Of(Objects({"qp"}), t), pd' = pd \union {qp},
         graph' = [graph EXCEPT ![t] =
                     [stage |-> stage, qps |-> graph[t].qps, step |-> step,
                      made |-> Append(graph[t].made,
                                 [obj |-> qp, state |-> state, cqs |-> graph[t].own]),
                      own |-> {}]],
         UNCHANGED fails \/ Fails, ctxMtx' \in Threads \union {Nobody}
  PROVE  OwnInv'
<1> DEFINE g == graph[t]
           q == [obj |-> qp, state |-> state, cqs |-> g.own]
           made == Append(g.made, q)
<1>1. g # NoGraph
  BY StageOfNone
<1>2. IsGraph(g, t) /\ pc[t] = "in"
  BY <1>1 DEF OwnInv, GraphTypes
<1>3. q \in Qps(t) /\ g.made \in Seq(Qps(t)) /\ g.own \in SUBSET Of(Objects(OnCq), t)
  BY <1>2 DEF IsGraph, Qps
<1>4. /\ made \in Seq(Qps(t)) /\ Len(g.made) \in Nat
      /\ Len(made) = Len(g.made) + 1
      /\ \A i \in 1 .. Len(g.made) : made[i] = g.made[i]
      /\ made[Len(g.made) + 1] = q
  BY <1>3
<1>5. q.obj = qp /\ q.cqs = g.own
  OBVIOUS
<1>6. /\ graph'[t] = [stage |-> stage, qps |-> g.qps, step |-> step, made |-> made, own |-> {}]
      /\ graph' = [u \in Threads |-> graph'[u]]
      /\ \A u \in Threads : u # t => graph'[u] = graph[u]
  BY DEF OwnInv, GraphTypes
<1> HIDE DEF q, made, g
<1>7. /\ IsGraph(graph'[t], t) /\ graph'[t] # NoGraph
      /\ graph'[t].made = made /\ graph'[t].own = {} /\ graph'[t].stage = stage
  <2> DEFINE own == {}
  <2>1. own \in SUBSET Of(Objects(OnCq), t) /\ made \in Seq(Qps(t)) /\ stage \in Stages
    BY <1>4 DEF Stages
  <2>2. graph'[t] = [stage |-> stage, qps |-> g.qps, step |-> step, made |-> made, own |-> own]
    BY <1>6
  <2> HIDE DEF own
  <2>3. /\ IsGraph(graph'[t], t)
        /\ graph'[t].made = made /\ graph'[t].own = own /\ graph'[t].stage = stage
    BY <2>1, <2>2, RecordGraph
  <2> QED
    BY <2>3, GraphIsSome DEF own
<1>8. Progress(graph'[t])
  BY <1>4, <1>7 DEF Progress
<1>9. /\ QpObjs(t)' = QpObjs(t) \union {qp}
      /\ CqObjs(t)' = CqObjs(t)
  <2>1. \A i : i \in 1 .. Len(made) <=> i \in 1 .. Len(g.made) \/ i = Len(g.made) + 1
    BY <1>4
  <2>2. {made[i].obj : i \in 1 .. Len(made)} = {g.made[i].obj : i \in 1 .. Len(g.made)} \union {qp}
    BY <1>4, <1>5, <2>1
  <2>3. UNION {made[i].cqs : i \in 1 .. Len(made)}
          = g.own \union UNION {g.made[i].cqs : i \in 1 .. Len(g.made)}
    <3>1. \A x : (\E i \in 1 .. Len(made) : x \in made[i].cqs)
                   <=> x \in g.own \/ \E i \in 1 .. Len(g.made) : x \in g.made[i].cqs
      BY <1>4, <1>5, <2>1
    <3> QED
      BY <3>1
  <2>4. QpObjs(t)' = QpObjs(t) \union {qp}
    <3>1. QpObjs(t) = {g.made[i].obj : i \in 1 .. Len(g.made)}
      BY <1>1 DEF QpObjs, g
    <3>2. QpObjs(t)' = {made[i].obj : i \in 1 .. Len(made)}
      BY <1>7 DEF QpObjs
    <3> QED
      BY <2>2, <3>1, <3>2
  <2>5. CqObjs(t)' = CqObjs(t)
    <3>1. CqObjs(t) = g.own \union UNION {g.made[i].cqs : i \in 1 .. Len(g.made)}
      BY <1>1 DEF CqObjs, g
    <3>2. CqObjs(t)' = UNION {made[i].cqs : i \in 1 .. Len(made)}
      BY <1>7 DEF CqObjs
    <3> QED
      BY <2>3, <3>1, <3>2
  <2> QED
    BY <2>4, <2>5
<1>10. qp \in Objects(OnPd) /\ qp.of = t
  BY DEF Of, Objects, OnPd
<1>11. /\ IsFiniteSet(pd') /\ pd' \subseteq Objects(OnPd)
       /\ IsFiniteSet(cqs') /\ cqs' \subseteq Objects(OnCq)
  BY <1>10, FS_AddElement DEF OwnInv, SetTypes
<1>12. NoBetter /\ (Clean' => Clean)
  BY FailsCounts, Same, Worse DEF OwnInv, Untouched, umrVars
<1>13. /\ \A u \in Threads : u # t => Of(pd', u) = Of(pd, u) /\ Of(cqs', u) = Of(cqs, u)
       /\ Of(pd', t) = Of(pd, t) \union {qp} /\ Of(Cqs(cqs'), t) = Of(Cqs(cqs), t)
  BY <1>10 DEF Of, Cqs
<1>14. Clean' =>
         /\ Of(pd', t) = MemObjs(t) \union RegObjs(t) \union QpObjs(t)'
         /\ Of(Cqs(cqs'), t) = Cqs(CqObjs(t))' /\ CqObjs(t)' \subseteq cqs'
  <2> SUFFICES ASSUME Clean'
               PROVE  /\ Of(pd', t) = MemObjs(t) \union RegObjs(t) \union QpObjs(t)'
                      /\ Of(Cqs(cqs'), t) = Cqs(CqObjs(t))' /\ CqObjs(t)' \subseteq cqs'
    OBVIOUS
  <2>1. /\ Of(pd, t) = MemObjs(t) \union RegObjs(t) \union QpObjs(t)
        /\ Of(Cqs(cqs), t) = Cqs(CqObjs(t)) /\ CqObjs(t) \subseteq cqs
    BY <1>12 DEF OwnInv, HoldInv
  <2>2. Cqs(CqObjs(t))' = Cqs(CqObjs(t))
    BY <1>9 DEF Cqs
  <2> QED
    BY <1>9, <1>13, <2>1, <2>2
<1>15. graph'[t].stage # "failed"
  BY <1>7
<1> QED
  BY <1>2, <1>6, <1>7, <1>8, <1>11, <1>12, <1>13, <1>14, <1>15, OnlyGraph

LEMMA SameQpsOwn ==
  ASSUME OwnInv, NEW t \in Threads, Untouched, UNCHANGED <<ctxVars, pd, cqs>>,
         graph[t].stage = "init", graph[t].step \in {"exchange", "connect", "barrier"},
         NEW stage \in {"init", "ready"}, NEW step \in Steps, NEW made \in Seq(Qps(t)),
         Len(made) = Len(graph[t].made),
         \A i \in 1 .. Len(made) : /\ made[i].obj = graph[t].made[i].obj
                                   /\ made[i].cqs = graph[t].made[i].cqs,
         graph' = [graph EXCEPT ![t] =
                     [stage |-> stage, qps |-> graph[t].qps, step |-> step,
                      made |-> made, own |-> graph[t].own]],
         UNCHANGED fails, ctxMtx' \in Threads \union {Nobody}
  PROVE  OwnInv'
<1> DEFINE g == graph[t]
<1>1. g # NoGraph
  BY StageOfNone
<1>2. IsGraph(g, t) /\ Progress(g) /\ pc[t] = "in"
  BY <1>1 DEF OwnInv, GraphTypes
<1>3. g.own \in SUBSET Of(Objects(OnCq), t) /\ Len(made) >= 1
  BY <1>2 DEF IsGraph, Progress
<1>4. /\ graph'[t] = [stage |-> stage, qps |-> g.qps, step |-> step, made |-> made,
                      own |-> g.own]
      /\ graph' = [u \in Threads |-> graph'[u]]
      /\ \A u \in Threads : u # t => graph'[u] = graph[u]
      /\ stage \in Stages
  BY DEF OwnInv, GraphTypes, Stages
<1> HIDE DEF g
<1>5. /\ IsGraph(graph'[t], t) /\ graph'[t] # NoGraph
      /\ graph'[t].made = made /\ graph'[t].own = g.own /\ graph'[t].stage = stage
  <2>1. /\ IsGraph(graph'[t], t)
        /\ graph'[t].made = made /\ graph'[t].own = g.own /\ graph'[t].stage = stage
    BY <1>3, <1>4, RecordGraph
  <2> QED
    BY <2>1, GraphIsSome
<1>6. Progress(graph'[t])
  BY <1>3, <1>5 DEF Progress
<1>7. QpObjs(t)' = QpObjs(t) /\ CqObjs(t)' = CqObjs(t)
  <2>1. {made[i].obj : i \in 1 .. Len(made)} = {g.made[i].obj : i \in 1 .. Len(g.made)}
    BY DEF g
  <2>2. {made[i].cqs : i \in 1 .. Len(made)} = {g.made[i].cqs : i \in 1 .. Len(g.made)}
    BY DEF g
  <2>3. QpObjs(t)' = QpObjs(t)
    BY <1>1, <1>5, <2>1 DEF QpObjs, g
  <2>4. CqObjs(t)' = CqObjs(t)
    BY <1>1, <1>5, <2>2 DEF CqObjs, g
  <2> QED
    BY <2>3, <2>4
<1>8. /\ IsFiniteSet(pd') /\ pd' \subseteq Objects(OnPd)
      /\ IsFiniteSet(cqs') /\ cqs' \subseteq Objects(OnCq)
      /\ NoBetter /\ (Clean' => Clean)
  BY Same, Worse DEF OwnInv, SetTypes, Untouched, umrVars
<1>9. /\ \A u \in Threads : u # t => Of(pd', u) = Of(pd, u) /\ Of(cqs', u) = Of(cqs, u)
      /\ Of(pd', t) = Of(pd, t) /\ Of(Cqs(cqs'), t) = Of(Cqs(cqs), t)
  BY DEF Of, Cqs
<1>10. Clean' =>
         /\ Of(pd', t) = MemObjs(t) \union RegObjs(t) \union QpObjs(t)'
         /\ Of(Cqs(cqs'), t) = Cqs(CqObjs(t))' /\ CqObjs(t)' \subseteq cqs'
         /\ graph'[t].own = {}
  <2> SUFFICES ASSUME Clean
               PROVE  /\ Of(pd', t) = MemObjs(t) \union RegObjs(t) \union QpObjs(t)'
                      /\ Of(Cqs(cqs'), t) = Cqs(CqObjs(t))' /\ CqObjs(t)' \subseteq cqs'
                      /\ graph'[t].own = {}
    BY <1>8
  <2>1. /\ Of(pd, t) = MemObjs(t) \union RegObjs(t) \union QpObjs(t)
        /\ Of(Cqs(cqs), t) = Cqs(CqObjs(t)) /\ CqObjs(t) \subseteq cqs
        /\ g.own = {}
    BY DEF OwnInv, HoldInv, g
  <2>2. Cqs(CqObjs(t))' = Cqs(CqObjs(t))
    BY <1>7 DEF Cqs
  <2> QED
    BY <1>5, <1>7, <1>9, <2>1, <2>2
<1>11. graph'[t].stage # "failed"
  BY <1>5
<1> QED
  BY <1>2, <1>4, <1>5, <1>6, <1>8, <1>9, <1>10, <1>11, OnlyGraph

(* How finish writes down where a graph is.                                *)
LEMMA OneEntry ==
  ASSUME NEW f, f = [u \in Threads |-> f[u]], NEW t \in Threads, NEW h, NEW r,
         h = [u \in Threads |-> h[u]], h[t] = r,
         \A u \in Threads : u # t => h[u] = f[u]
  PROVE  h = [f EXCEPT ![t] = r]
<1> DEFINE k == [f EXCEPT ![t] = r]
<1>1. k = [u \in Threads |-> IF u = t THEN r ELSE f[u]]
  OBVIOUS
<1>2. \A u \in Threads : h[u] = IF u = t THEN r ELSE f[u]
  OBVIOUS
<1>3. h = [u \in Threads |-> IF u = t THEN r ELSE f[u]]
  BY <1>2
<1> QED
  BY <1>1, <1>3

LEMMA InitiatedIs ==
  ASSUME NEW t \in Threads, NEW qps, NEW step, NEW made, NEW own, NEW g,
         graph = [u \in Threads |-> graph[u]], g = [u \in Threads |-> g[u]],
         g[t] = [stage |-> "init", qps |-> qps, step |-> step, made |-> made, own |-> own],
         step \in Steps, \A u \in Threads : u # t => g[u] = graph[u],
         Initiated(t, g)
  PROVE  /\ ctxMtx' \in Threads \union {Nobody}
         /\ \E stage \in {"init", "ready"}, next \in Steps :
              graph' = [graph EXCEPT ![t] =
                          [stage |-> stage, qps |-> qps, step |-> next, made |-> made,
                           own |-> own]]
<1>1. CASE graph' = [g EXCEPT ![t].stage = "ready"] /\ ctxMtx' = Nobody
  <2>1. graph'[t] = [stage |-> "ready", qps |-> qps, step |-> step, made |-> made, own |-> own]
    BY <1>1
  <2>2. graph' = [u \in Threads |-> graph'[u]] /\ \A u \in Threads : u # t => graph'[u] = graph[u]
    BY <1>1
  <2>3. graph' = [graph EXCEPT ![t] =
                    [stage |-> "ready", qps |-> qps, step |-> step, made |-> made, own |-> own]]
    BY <2>1, <2>2, OneEntry
  <2> QED
    BY <1>1, <2>3
<1>2. CASE graph' = [g EXCEPT ![t].step = "cq"] /\ ctxMtx' = t
  <2>1. graph'[t] = [stage |-> "init", qps |-> qps, step |-> "cq", made |-> made, own |-> own]
    BY <1>2
  <2>2. graph' = [u \in Threads |-> graph'[u]] /\ \A u \in Threads : u # t => graph'[u] = graph[u]
    BY <1>2
  <2>3. graph' = [graph EXCEPT ![t] =
                    [stage |-> "init", qps |-> qps, step |-> "cq", made |-> made, own |-> own]]
    BY <2>1, <2>2, OneEntry
  <2> QED
    BY <1>2, <2>3 DEF Steps
<1>3. CASE graph' = g /\ ctxMtx' = t
  <2>1. graph' = [graph EXCEPT ![t] =
                    [stage |-> "init", qps |-> qps, step |-> step, made |-> made, own |-> own]]
    BY <1>3, OneEntry
  <2> QED
    BY <1>3, <2>1
<1> QED
  BY <1>1, <1>2, <1>3 DEF Initiated

LEMMA NamedIs ==
  ASSUME GraphTypes, NEW t \in Threads, graph[t].stage = "init",
         NEW qp, NEW state, NEW next, NEW g, g = Named(t, qp, state, next)
  PROVE  /\ graph = [u \in Threads |-> graph[u]] /\ g = [u \in Threads |-> g[u]]
         /\ g[t] = [stage |-> "init", qps |-> graph[t].qps, step |-> next,
                    made |-> Append(graph[t].made,
                               [obj |-> qp, state |-> state, cqs |-> graph[t].own]),
                    own |-> {}]
         /\ \A u \in Threads : u # t => g[u] = graph[u]
<1>1. graph[t] # NoGraph
  BY StageOfNone
<1>2. IsGraph(graph[t], t) /\ graph = [u \in Threads |-> graph[u]]
  BY <1>1 DEF GraphTypes
<1> DEFINE r == graph[t]
<1>3. r = [stage |-> "init", qps |-> r.qps, step |-> r.step, made |-> r.made, own |-> r.own]
  BY <1>2 DEF IsGraph
<1>4. g[t] = [r EXCEPT !.made = Append(r.made, [obj |-> qp, state |-> state, cqs |-> r.own]),
                       !.own = {}, !.step = next]
  BY <1>2 DEF Named
<1>5. /\ g = [u \in Threads |-> g[u]]
      /\ \A u \in Threads : u # t => g[u] = graph[u]
  BY <1>2 DEF Named
<1> HIDE DEF r
<1>6. g[t] = [stage |-> "init", qps |-> r.qps, step |-> next,
              made |-> Append(r.made, [obj |-> qp, state |-> state, cqs |-> r.own]),
              own |-> {}]
  <2> DEFINE more == Append(r.made, [obj |-> qp, state |-> state, cqs |-> r.own])
  <2> HIDE DEF more
  <2>1. g[t] = [r EXCEPT !.made = more, !.own = {}, !.step = next]
    BY <1>4 DEF more
  <2>2. /\ g[t].stage = "init" /\ g[t].qps = r.qps /\ g[t].step = next /\ g[t].made = more
        /\ g[t].own = {}
    BY <1>3, <2>1
  <2>3. g[t] = [stage |-> g[t].stage, qps |-> g[t].qps, step |-> g[t].step,
                made |-> g[t].made, own |-> g[t].own]
    BY <1>3, <2>1
  <2> QED
    BY <2>2, <2>3 DEF more
<1> QED
  BY <1>2, <1>5, <1>6 DEF r

LEMMA CreateManagementQpOwn ==
  ASSUME OwnInv, NEW t \in Threads, CreateManagementQp(t), UNCHANGED ctxVars
  PROVE  OwnInv'
<1> DEFINE qp == Fresh(pd, "qp", t)
<1>1. qp \in Of(Objects({"qp"}), t)
  BY FreshIs DEF OwnInv, SetTypes, Of
<1>2. /\ graph[t].stage = "init" /\ Untouched /\ UNCHANGED cqs /\ pd' = pd \union {qp}
      /\ \/ \E state \in States : Initiated(t, Named(t, qp, state, "cq"))
                                    /\ (UNCHANGED fails \/ Fails)
         \/ Fails /\ Throws(t) /\ UNCHANGED ctxMtx
  BY DEF CreateManagementQp, At, States
<1> HIDE DEF qp
<1>3. CASE Fails /\ Throws(t) /\ UNCHANGED ctxMtx
  <2>1. /\ {qp} \subseteq Objects(OnPd) /\ IsFiniteSet({qp})
        /\ {} \subseteq Objects(OnCq) /\ IsFiniteSet({}) /\ cqs' = cqs \union {}
        /\ ctxMtx' \in Threads \union {Nobody}
    BY <1>1, <1>2, <1>3, FS_Singleton, FS_EmptySet DEF Of, Objects, OnPd, OwnInv, SetTypes
  <2> QED
    BY <1>2, <1>3, <2>1, ThrowOwn
<1>4. ASSUME NEW state \in States, Initiated(t, Named(t, qp, state, "cq")),
             UNCHANGED fails \/ Fails
      PROVE  OwnInv'
  <2> DEFINE g == Named(t, qp, state, "cq")
             qps == graph[t].qps
             made == Append(graph[t].made, [obj |-> qp, state |-> state, cqs |-> graph[t].own])
  <2>1. /\ graph = [u \in Threads |-> graph[u]] /\ g = [u \in Threads |-> g[u]]
        /\ g[t] = [stage |-> "init", qps |-> qps, step |-> "cq", made |-> made, own |-> {}]
        /\ \A u \in Threads : u # t => g[u] = graph[u]
    BY <1>2, NamedIs DEF OwnInv
  <2> DEFINE none == {}
  <2>2. /\ ctxMtx' \in Threads \union {Nobody}
        /\ \E stage \in {"init", "ready"}, next \in Steps :
             graph' = [graph EXCEPT ![t] =
                         [stage |-> stage, qps |-> qps, step |-> next, made |-> made,
                          own |-> none]]
    <3>1. g[t] = [stage |-> "init", qps |-> qps, step |-> "cq", made |-> made, own |-> none]
      BY <2>1
    <3>2. "cq" \in Steps /\ Initiated(t, g)
      BY <1>4 DEF Steps
    <3> HIDE DEF g, qps, made, none
    <3> QED
      BY <2>1, <3>1, <3>2, InitiatedIs
  <2> QED
    BY <1>1, <1>2, <1>4, <2>2, NewQpOwn
<1> QED
  BY <1>2, <1>3, <1>4

LEMMA CreateQpOwn ==
  ASSUME OwnInv, NEW t \in Threads, CreateQp(t), UNCHANGED ctxVars
  PROVE  OwnInv'
<1> DEFINE qp == Fresh(pd, "qp", t)
           next == IF TwoCqs(KindAt(t)) THEN "exchange" ELSE "connect"
<1>1. qp \in Of(Objects({"qp"}), t)
  BY FreshIs DEF OwnInv, SetTypes, Of
<1>2. /\ graph[t].stage = "init" /\ Untouched /\ UNCHANGED cqs /\ pd' = pd \union {qp}
      /\ ctxMtx' \in Threads \union {Nobody}
      /\ \/ graph' = Named(t, qp, "INIT", next) /\ UNCHANGED fails
         \/ Fails /\ Throws(t)
  BY DEF CreateQp, At, OwnInv, SetTypes
<1>3. next \in Steps /\ "INIT" \in States
  BY DEF Steps, States
<1> HIDE DEF qp, next
<1>4. CASE Fails /\ Throws(t)
  <2>1. /\ {qp} \subseteq Objects(OnPd) /\ IsFiniteSet({qp})
        /\ {} \subseteq Objects(OnCq) /\ IsFiniteSet({}) /\ cqs' = cqs \union {}
    BY <1>1, <1>2, FS_Singleton, FS_EmptySet DEF Of, Objects, OnPd
  <2> QED
    BY <1>2, <1>4, <2>1, ThrowOwn
<1>5. CASE graph' = Named(t, qp, "INIT", next) /\ UNCHANGED fails
  <2> DEFINE made == Append(graph[t].made,
                       [obj |-> qp, state |-> "INIT", cqs |-> graph[t].own])
             r == [stage |-> "init", qps |-> graph[t].qps, step |-> next, made |-> made,
                   own |-> {}]
  <2>1. /\ graph = [u \in Threads |-> graph[u]] /\ graph' = [u \in Threads |-> graph'[u]]
        /\ graph'[t] = r
        /\ \A u \in Threads : u # t => graph'[u] = graph[u]
    <3> DEFINE g == Named(t, qp, "INIT", next)
    <3>1. /\ graph = [u \in Threads |-> graph[u]] /\ g = [u \in Threads |-> g[u]]
          /\ g[t] = r
          /\ \A u \in Threads : u # t => g[u] = graph[u]
      BY <1>2, NamedIs DEF OwnInv
    <3> QED
      BY <1>5, <3>1
  <2>2. graph' = [graph EXCEPT ![t] = r]
    <3> HIDE DEF r
    <3> QED
      BY <2>1, OneEntry
  <2> QED
    BY <1>1, <1>2, <1>3, <1>5, <2>2, NewQpOwn
<1> QED
  BY <1>2, <1>4, <1>5

LEMMA ConnectOwn ==
  ASSUME OwnInv, NEW t \in Threads, Connect(t), UNCHANGED ctxVars
  PROVE  OwnInv'
<1> DEFINE n == Len(graph[t].made)
           g == [graph EXCEPT ![t].made[n].state = "RTS"]
           made == [graph[t].made EXCEPT ![n].state = "RTS"]
           qps == graph[t].qps
           own == graph[t].own
           step == graph[t].step
<1>1. /\ graph[t].stage = "init" /\ step \in {"exchange", "connect"}
      /\ Untouched /\ UNCHANGED <<pd, cqs>>
      /\ \/ At(t, "connect") /\ Initiated(t, g) /\ UNCHANGED fails
         \/ graph' = [g EXCEPT ![t].step = "barrier"] /\ ctxMtx' = Nobody /\ UNCHANGED fails
         \/ Fails /\ Throws(t) /\ ctxMtx' = t
  BY DEF Connect, At
<1>2. graph[t] # NoGraph
  BY <1>1, StageOfNone
<1>3. IsGraph(graph[t], t) /\ graph = [u \in Threads |-> graph[u]]
  BY <1>2 DEF OwnInv, GraphTypes
<1>4. /\ graph[t] = [stage |-> "init", qps |-> qps, step |-> step, made |-> graph[t].made,
                     own |-> own]
      /\ graph[t].made \in Seq(Qps(t)) /\ n \in Nat
      /\ \A i \in 1 .. n : graph[t].made[i] \in Qps(t)
  BY <1>1, <1>3 DEF IsGraph
<1>5. /\ made \in Seq(Qps(t)) /\ Len(made) = n
      /\ \A i \in 1 .. Len(made) : /\ made[i].obj = graph[t].made[i].obj
                                   /\ made[i].cqs = graph[t].made[i].cqs
  <2> DEFINE old == graph[t].made
             last == [old[n] EXCEPT !.state = "RTS"]
  <2>1. made = [i \in 1 .. n |-> IF i = n THEN last ELSE old[i]]
    <3>1. DOMAIN old = 1 .. n /\ made = [old EXCEPT ![n] = last]
      BY <1>4
    <3> HIDE DEF old, last, made, n
    <3> QED
      BY <3>1
  <2>2. ASSUME NEW i \in 1 .. n
        PROVE  made[i] \in Qps(t) /\ made[i].obj = old[i].obj /\ made[i].cqs = old[i].cqs
    <3>1. CASE i = n
      <4>1. made[i] = last /\ old[i] = old[n] /\ old[n] \in Qps(t)
        BY <1>4, <2>1, <3>1
      <4> DEFINE q == old[n]
      <4> HIDE DEF q, made, old
      <4>2. /\ [q EXCEPT !.state = "RTS"] \in Qps(t)
            /\ [q EXCEPT !.state = "RTS"].obj = q.obj /\ [q EXCEPT !.state = "RTS"].cqs = q.cqs
        <5>1. q \in Qps(t)
          BY <4>1 DEF q
        <5> QED
          BY <5>1 DEF Qps, States
      <4> QED
        BY <4>1, <4>2 DEF q
    <3>2. CASE i # n
      BY <1>4, <2>1, <3>2
    <3> QED
      BY <3>1, <3>2
  <2>3. \A i \in 1 .. n : made[i] \in Qps(t)
    BY <2>2
  <2>4. DOMAIN made = 1 .. n
    BY <2>1
  <2>5. made \in [1 .. n -> Qps(t)]
    BY <2>1, <2>3, <2>4
  <2>6. made \in Seq(Qps(t)) /\ Len(made) = n
    <3> HIDE DEF made, n
    <3> QED
      BY <1>4, <2>4, <2>5
  <2> QED
    BY <2>2, <2>6
<1>6. /\ g = [u \in Threads |-> g[u]] /\ \A u \in Threads : u # t => g[u] = graph[u]
      /\ g[t] = [stage |-> "init", qps |-> qps, step |-> step, made |-> made, own |-> own]
  <2>1. /\ g = [u \in Threads |-> g[u]] /\ \A u \in Threads : u # t => g[u] = graph[u]
        /\ g[t] = [graph[t] EXCEPT !.made = made]
    BY <1>3
  <2> DEFINE r == graph[t]
  <2>2. /\ g[t].stage = "init" /\ g[t].qps = qps /\ g[t].step = step /\ g[t].made = made
        /\ g[t].own = own
        /\ g[t] = [stage |-> g[t].stage, qps |-> g[t].qps, step |-> g[t].step,
                   made |-> g[t].made, own |-> g[t].own]
    <3> HIDE DEF g, made, qps, own, step
    <3> QED
      BY <1>4, <2>1
  <2> QED
    BY <2>1, <2>2
<1> HIDE DEF g, made, n
<1>7. ASSUME NEW stage \in {"init", "ready"}, NEW next \in Steps,
             graph' = [graph EXCEPT ![t] =
                         [stage |-> stage, qps |-> graph[t].qps, step |-> next,
                          made |-> made, own |-> graph[t].own]],
             UNCHANGED fails, ctxMtx' \in Threads \union {Nobody}
      PROVE  OwnInv'
  BY <1>1, <1>5, <1>7, SameQpsOwn DEF n
<1>8. CASE Initiated(t, g) /\ UNCHANGED fails
  <2>1. step \in Steps
    BY <1>1 DEF Steps
  <2> HIDE DEF step, qps, own
  <2>2. /\ ctxMtx' \in Threads \union {Nobody}
        /\ \E stage \in {"init", "ready"}, next \in Steps :
             graph' = [graph EXCEPT ![t] =
                         [stage |-> stage, qps |-> qps, step |-> next, made |-> made,
                          own |-> own]]
    BY <1>3, <1>6, <1>8, <2>1, InitiatedIs
  <2> QED
    BY <1>7, <1>8, <2>2 DEF qps, own
<1>9. CASE graph' = [g EXCEPT ![t].step = "barrier"] /\ ctxMtx' = Nobody /\ UNCHANGED fails
  <2> DEFINE r == [stage |-> "init", qps |-> qps, step |-> "barrier", made |-> made, own |-> own]
  <2>1. /\ graph' = [u \in Threads |-> graph'[u]]
        /\ \A u \in Threads : u # t => graph'[u] = graph[u]
        /\ graph'[t] = [g[t] EXCEPT !.step = "barrier"]
    BY <1>6, <1>9
  <2>2. graph'[t] = r
    <3> HIDE DEF qps, own, step
    <3>1. /\ graph'[t].stage = "init" /\ graph'[t].qps = qps /\ graph'[t].step = "barrier"
          /\ graph'[t].made = made /\ graph'[t].own = own
          /\ graph'[t] = [stage |-> graph'[t].stage, qps |-> graph'[t].qps,
                          step |-> graph'[t].step, made |-> graph'[t].made,
                          own |-> graph'[t].own]
      BY <1>6, <2>1
    <3> QED
      BY <3>1
  <2>3. graph' = [graph EXCEPT ![t] = r]
    <3> HIDE DEF r
    <3> QED
      BY <1>3, <2>1, <2>2, OneEntry
  <2> QED
    BY <1>7, <1>9, <2>3 DEF Steps
<1>10. CASE Fails /\ Throws(t) /\ ctxMtx' = t
  <2>1. /\ {} \subseteq Objects(OnPd) /\ IsFiniteSet({}) /\ pd' = pd \union {}
        /\ {} \subseteq Objects(OnCq) /\ cqs' = cqs \union {}
    BY <1>1, FS_EmptySet
  <2> QED
    BY <1>1, <1>10, <2>1, ThrowOwn
<1> QED
  BY <1>1, <1>8, <1>9, <1>10

LEMMA BarrierOwn ==
  ASSUME OwnInv, NEW t \in Threads, BarrierDone(t), UNCHANGED ctxVars
  PROVE  OwnInv'
<1> DEFINE made == graph[t].made
           qps == graph[t].qps
           own == graph[t].own
           step == graph[t].step
<1>1. /\ graph[t].stage = "init" /\ step = "barrier" /\ Initiated(t, graph)
      /\ Untouched /\ UNCHANGED <<pd, cqs, fails>>
  BY DEF BarrierDone, At
<1>2. graph[t] # NoGraph
  BY <1>1, StageOfNone
<1>3. IsGraph(graph[t], t) /\ graph = [u \in Threads |-> graph[u]]
  BY <1>2 DEF OwnInv, GraphTypes
<1>4. /\ graph[t] = [stage |-> "init", qps |-> qps, step |-> step, made |-> made, own |-> own]
      /\ made \in Seq(Qps(t)) /\ step \in Steps
  BY <1>1, <1>3 DEF IsGraph, Steps
<1>5. /\ ctxMtx' \in Threads \union {Nobody}
      /\ \E stage \in {"init", "ready"}, next \in Steps :
           graph' = [graph EXCEPT ![t] =
                       [stage |-> stage, qps |-> qps, step |-> next, made |-> made,
                        own |-> own]]
  <2> HIDE DEF made, qps, own, step
  <2> QED
    BY <1>1, <1>3, <1>4, InitiatedIs
<1> QED
  BY <1>1, <1>4, <1>5, SameQpsOwn

(* A graph of which finish() has made nothing yet.                         *)
Unmade(g) ==
  /\ g.stage \in {"built", "init"} /\ g.step = "cq"
  /\ Len(g.made) = 0 /\ g.own = {}

LEMMA UnmadeOwn ==
  ASSUME OwnInv, NEW t \in Threads, pc[t] = "in", Untouched, UNCHANGED <<ctxVars, pd, cqs>>,
         UNCHANGED fails, ctxMtx' \in Threads \union {Nobody},
         QpObjs(t) = {} /\ CqObjs(t) = {},
         NEW r, IsGraph(r, t), Unmade(r), graph' = [graph EXCEPT ![t] = r]
  PROVE  OwnInv'
<1>1. /\ graph'[t] = r
      /\ graph' = [u \in Threads |-> graph'[u]]
      /\ \A u \in Threads : u # t => graph'[u] = graph[u]
  BY DEF OwnInv, GraphTypes
<1>2. Progress(r) /\ r # NoGraph
  BY GraphIsSome DEF Progress, Unmade
<1>3. QpObjs(t)' = {} /\ CqObjs(t)' = {}
  BY <1>1, <1>2 DEF QpObjs, CqObjs, Unmade
<1>4. /\ IsFiniteSet(pd') /\ pd' \subseteq Objects(OnPd)
      /\ IsFiniteSet(cqs') /\ cqs' \subseteq Objects(OnCq)
      /\ NoBetter /\ (Clean' => Clean)
  BY Same, Worse DEF OwnInv, SetTypes, Untouched, umrVars
<1>5. Clean => /\ Of(pd, t) = MemObjs(t) \union RegObjs(t) \union QpObjs(t)'
               /\ Of(Cqs(cqs), t) = Cqs(CqObjs(t))' /\ CqObjs(t)' \subseteq cqs
  BY <1>3 DEF OwnInv, HoldInv, Cqs
<1>6. \A u \in Threads : Of(pd', u) = Of(pd, u) /\ Of(cqs', u) = Of(cqs, u)
  BY DEF Of
<1>7. graph'[t].stage \notin {"failed", "ready"} /\ graph'[t].step \in {"cq", "scq", "qp"}
  BY <1>1 DEF Unmade
<1> QED
  BY <1>1, <1>2, <1>3, <1>4, <1>5, <1>6, <1>7, OnlyGraph

LEMMA NewGraphOwn ==
  ASSUME OwnInv, NEW t \in Threads, pc[t] = "in", NewGraph(t), UNCHANGED ctxVars
  PROVE  OwnInv'
<1> DEFINE qps == <<Described("management", FALSE)>>
           step == "cq"
           made == <<>>
           own == {}
           r == [stage |-> "built", qps |-> qps, step |-> step, made |-> made, own |-> own]
<1>1. /\ graph[t] = NoGraph /\ Untouched /\ UNCHANGED <<pd, fails, cqs>> /\ ctxMtx' = t
      /\ graph' = [graph EXCEPT ![t] = r]
  BY DEF NewGraph
<1>2. QpObjs(t) = {} /\ CqObjs(t) = {}
  BY <1>1 DEF QpObjs, CqObjs
<1>3. /\ made \in Seq(Qps(t)) /\ Len(made) = 0 /\ own \in SUBSET Of(Objects(OnCq), t)
      /\ "built" \in Stages /\ step \in Steps
  BY DEF Stages, Steps
<1>4. step = "cq" /\ own = {}
  OBVIOUS
<1>5. IsGraph(r, t) /\ Unmade(r)
  <2> HIDE DEF qps, step, made, own
  <2>1. r.stage = "built" /\ r.step = step /\ r.made = made /\ r.own = own
    OBVIOUS
  <2>2. IsGraph(r, t)
    BY <1>3, RecordGraph
  <2> QED
    BY <1>3, <1>4, <2>1, <2>2 DEF Unmade
<1> HIDE DEF r
<1> QED
  BY <1>1, <1>2, <1>5, UnmadeOwn

LEMMA Nothing ==
  ASSUME OwnInv, NEW t \in Threads, graph[t].stage = "built"
  PROVE  /\ pc[t] = "in" /\ QpObjs(t) = {} /\ CqObjs(t) = {}
         /\ IsGraph(graph[t], t) /\ Unmade(graph[t])
<1>1. graph[t] # NoGraph
  BY StageOfNone
<1>2. IsGraph(graph[t], t) /\ Progress(graph[t]) /\ pc[t] = "in"
  BY <1>1 DEF OwnInv, GraphTypes
<1>3. Unmade(graph[t])
  BY <1>2 DEF Progress, Unmade
<1>4. QpObjs(t) = {} /\ CqObjs(t) = {}
  BY <1>1, <1>3 DEF QpObjs, CqObjs, Unmade
<1> QED
  BY <1>2, <1>3, <1>4

(* The author goes on to describe his graph, or calls finish().            *)
LEMMA DescribesOwn ==
  ASSUME OwnInv, NEW t \in Threads, UNCHANGED ctxVars,
         (\E kind \in DataKinds : NewQp(t, kind)) \/ Operate(t) \/ Finish(t)
  PROVE  OwnInv'
<1>1. graph[t].stage = "built"
  BY DEF NewQp, Operate, Finish
<1>2. /\ pc[t] = "in" /\ QpObjs(t) = {} /\ CqObjs(t) = {}
      /\ IsGraph(graph[t], t) /\ Unmade(graph[t])
  BY <1>1, Nothing
<1>3. \E r : IsGraph(r, t) /\ Unmade(r) /\ Describes(t, r)
  <2> DEFINE g == graph[t]
  <2>1. ASSUME NEW qps
        PROVE  IsGraph([g EXCEPT !.qps = qps], t) /\ Unmade([g EXCEPT !.qps = qps])
    <3> HIDE DEF g
    <3> QED
      BY <1>2 DEF IsGraph, Unmade, g
  <2>2. IsGraph([g EXCEPT !.stage = "init"], t) /\ Unmade([g EXCEPT !.stage = "init"])
    <3> HIDE DEF g
    <3> QED
      BY <1>2 DEF IsGraph, Unmade, Stages, g
  <2>3. CASE \E kind \in DataKinds : NewQp(t, kind)
    <3>1. \E qps : Describes(t, [g EXCEPT !.qps = qps])
      BY <2>3 DEF NewQp
    <3> QED
      BY <2>1, <3>1
  <2>4. CASE Operate(t)
    <3>1. \E qps : Describes(t, [g EXCEPT !.qps = qps])
      BY <2>4 DEF Operate
    <3> QED
      BY <2>1, <3>1
  <2>5. CASE Finish(t)
    <3>1. Describes(t, [g EXCEPT !.stage = "init"])
      BY <2>5 DEF Finish
    <3> QED
      BY <2>2, <3>1
  <2> QED
    BY <2>3, <2>4, <2>5
<1>4. PICK r : IsGraph(r, t) /\ Unmade(r) /\ Describes(t, r)
  BY <1>3
<1>5. /\ graph' = [graph EXCEPT ![t] = r]
      /\ UNCHANGED <<pd, fails, cqs>> /\ Untouched /\ ctxMtx' \in Threads \union {Nobody}
  BY <1>4 DEF Describes, OwnInv, SetTypes
<1> QED
  BY <1>2, <1>4, <1>5, UnmadeOwn

(* Memory and QPs are not mistaken for each other.                         *)
LEMMA KindsDiffer ==
  ASSUME OwnInv, NEW t \in Threads
  PROVE  (MemObjs(t) \union RegObjs(t)) \intersect QpObjs(t) = {}
<1>1. \A o \in QpObjs(t) : o.is = "qp"
  BY GraphIs DEF QpObjs, OwnInv, Objects, Of
<1>2. \A o \in MemObjs(t) : o.is # "qp"
  BY DEF MemObjs, OwnInv, MemTypes, Objects
<1>3. \A o \in RegObjs(t) : o.is # "qp"
  BY DEF RegObjs, OwnInv, MemTypes, Objects, Of
<1> QED
  BY <1>1, <1>2, <1>3

(* Thread t lets go of its graph, of which all is gone if all went well.   *)
LEMMA GoneOwn ==
  ASSUME OwnInv, NEW t \in Threads, Untouched, UNCHANGED <<ctxVars, ctxMtx>>,
         graph' = [graph EXCEPT ![t] = NoGraph],
         pd' \subseteq pd, cqs' \subseteq cqs, NoBetter,
         Clean' => pd' = pd \ QpObjs(t) /\ cqs' = cqs \ Cqs(CqObjs(t))
  PROVE  OwnInv'
<1>1. /\ graph'[t] = NoGraph
      /\ graph' = [u \in Threads |-> graph'[u]]
      /\ \A u \in Threads : u # t => graph'[u] = graph[u]
  BY DEF OwnInv, GraphTypes
<1>2. graph'[t].stage \notin {"failed", "ready", "init"}
  BY <1>1 DEF NoGraph
<1>3. /\ IsFiniteSet(pd') /\ pd' \subseteq Objects(OnPd)
      /\ IsFiniteSet(cqs') /\ cqs' \subseteq Objects(OnCq)
      /\ ctxMtx' \in Threads \union {Nobody}
  BY FS_Subset DEF OwnInv, SetTypes
<1>4. (\A o \in QpObjs(t) : o.of = t) /\ \A c \in CqObjs(t) : c.of = t
  BY CqOf, GraphIs DEF QpObjs, OwnInv, Of
<1>5. Clean' =>
        /\ \A u \in Threads : u # t => Of(pd', u) = Of(pd, u) /\ Of(cqs', u) = Of(cqs, u)
        /\ Of(pd', t) = MemObjs(t) \union RegObjs(t) \union QpObjs(t)'
        /\ Of(Cqs(cqs'), t) = Cqs(CqObjs(t))' /\ CqObjs(t)' \subseteq cqs'
  <2> SUFFICES ASSUME Clean'
               PROVE  /\ \A u \in Threads : u # t =>
                           Of(pd', u) = Of(pd, u) /\ Of(cqs', u) = Of(cqs, u)
                      /\ Of(pd', t) = MemObjs(t) \union RegObjs(t) \union QpObjs(t)'
                      /\ Of(Cqs(cqs'), t) = Cqs(CqObjs(t))' /\ CqObjs(t)' \subseteq cqs'
    OBVIOUS
  <2>1. pd' = pd \ QpObjs(t) /\ cqs' = cqs \ Cqs(CqObjs(t))
    OBVIOUS
  <2>2. QpObjs(t)' = {} /\ CqObjs(t)' = {}
    BY <1>1 DEF QpObjs, CqObjs
  <2>3. Clean
    BY Worse DEF OwnInv
  <2>4. /\ Of(pd, t) = MemObjs(t) \union RegObjs(t) \union QpObjs(t)
        /\ Of(Cqs(cqs), t) = Cqs(CqObjs(t))
    BY <2>3 DEF OwnInv, HoldInv
  <2>5. \A u \in Threads : u # t => Of(pd', u) = Of(pd, u) /\ Of(cqs', u) = Of(cqs, u)
    BY <1>4, <2>1 DEF Of, Cqs
  <2>6. Of(pd', t) = Of(pd, t) \ QpObjs(t)
    BY <2>1 DEF Of
  <2>7. Of(Cqs(cqs'), t) = Of(Cqs(cqs), t) \ Cqs(CqObjs(t))
    BY <2>1 DEF Of, Cqs
  <2>8. Cqs(CqObjs(t))' = {}
    BY <2>2 DEF Cqs
  <2> QED
    BY <2>2, <2>4, <2>5, <2>6, <2>7, <2>8, KindsDiffer
<1> QED
  BY <1>1, <1>2, <1>3, <1>5, OnlyGraph

(* What the destructors take down, in the words of the ownership.          *)
LEMMA MadeAre ==
  ASSUME NEW t \in Threads, graph[t] # NoGraph
  PROVE  /\ QpObjs(t) = {q.obj : q \in Made(t)}
         /\ CqObjs(t) = graph[t].own \union UNION {q.cqs : q \in Made(t)}
BY DEF QpObjs, CqObjs, Made

LEMMA DeleteGraphOwn ==
  ASSUME OwnInv, NEW t \in Threads, DeleteGraph(t), UNCHANGED ctxVars
  PROVE  OwnInv'
<1>1. /\ graph[t].stage \in {"ready", "failed"} /\ Untouched /\ UNCHANGED ctxMtx
      /\ graph' = [graph EXCEPT ![t] = NoGraph]
      /\ pd' \subseteq pd /\ cqs' \subseteq cqs
      /\ \/ /\ pd' = pd \ {q.obj : q \in Made(t)}
            /\ cqs' = cqs \ UNION {Cqs(q.cqs) : q \in Made(t)}
            /\ UNCHANGED fails
         \/ Fails
  BY DEF DeleteGraph, Complete
<1>2. graph[t] # NoGraph
  BY <1>1, StageOfNone
<1>3. CASE Fails
  <2>1. NoBetter /\ ~ Clean'
    BY <1>1, <1>3, FailsCounts DEF OwnInv, Untouched, umrVars
  <2> QED
    BY <1>1, <2>1, GoneOwn
<1>4. CASE /\ pd' = pd \ {q.obj : q \in Made(t)}
           /\ cqs' = cqs \ UNION {Cqs(q.cqs) : q \in Made(t)}
           /\ UNCHANGED fails
  <2>1. NoBetter /\ (Clean' => Clean)
    BY <1>1, <1>4, Same, Worse DEF OwnInv, Untouched, umrVars
  <2>2. Clean => graph[t].own = {}
    BY <1>1 DEF OwnInv, HoldInv, GraphTypes, SetTypes, Clean
  <2>3. UNION {Cqs(q.cqs) : q \in Made(t)} = Cqs(UNION {q.cqs : q \in Made(t)})
    BY DEF Cqs
  <2>4. Clean => pd' = pd \ QpObjs(t) /\ cqs' = cqs \ Cqs(CqObjs(t))
    BY <1>2, <1>4, <2>2, <2>3, MadeAre
  <2> QED
    BY <1>1, <2>1, <2>4, GoneOwn
<1> QED
  BY <1>1, <1>3, <1>4

LEMMA AbandonOwn ==
  ASSUME OwnInv, NEW t \in Threads, Abandon(t), UNCHANGED ctxVars
  PROVE  OwnInv'
<1>1. /\ graph[t].stage \in {"built", "failed"} /\ Untouched
      /\ UNCHANGED <<pd, fails, cqs, ctxMtx>>
      /\ graph' = [graph EXCEPT ![t] = NoGraph]
  BY DEF Abandon
<1>2. NoBetter /\ (Clean' => Clean)
  BY <1>1, Same, Worse DEF OwnInv, Untouched, umrVars
<1>3. Clean => QpObjs(t) = {} /\ CqObjs(t) = {}
  <2>1. Clean => graph[t].stage = "built"
    BY <1>1 DEF OwnInv, GraphTypes, SetTypes, Clean
  <2> QED
    BY <2>1, Nothing
<1>4. Clean => pd' = pd \ QpObjs(t) /\ cqs' = cqs \ Cqs(CqObjs(t))
  BY <1>1, <1>3 DEF Cqs
<1> QED
  BY <1>1, <1>2, <1>4, GoneOwn

(* A call by which the process dies.                                       *)
LEMMA DyingOwn ==
  ASSUME OwnInv, Untouched, UNCHANGED <<pd, cqs, graph, ctxMtx, ctxVars>>,
         UNCHANGED fails \/ Fails
  PROVE  OwnInv'
<1>1. UNCHANGED <<dm, mem, reg, umrSq, written, refused, pc, instance, opened>>
  BY DEF Untouched, umrVars, ctxVars
<1>2. instance \in 0 .. opened /\ NoBetter
  BY <1>1, FailsCounts, Same DEF OwnInv, SetTypes
<1> QED
  BY <1>1, <1>2, OwnUnchanged

LEMMA GraphOwn ==
  ASSUME OwnInv, NEW t \in Threads, UNCHANGED ctxVars,
         BuildGraph(t) \/ (pc[t] = "in" /\ (NewGraph(t) \/ UseGraph(t)))
  PROVE  OwnInv'
<1>1. CASE NoQp(t)
  BY <1>1, DyingOwn DEF NoQp
<1>2. CASE DeleteUnmade(t)
  BY <1>2, DyingOwn DEF DeleteUnmade
<1> QED
  BY <1>1, <1>2, CreateCqOwn, CreateManagementQpOwn, CreateQpOwn, ConnectOwn, BarrierOwn,
     NewGraphOwn, DescribesOwn, DeleteGraphOwn, AbandonOwn
  DEF BuildGraph, UseGraph
-----------------------------------------------------------------------------
(* Failures.                                                               *)

LEMMA ErrorUnchanged ==
  ASSUME OwnInv, ErrorInv, UNCHANGED <<umrError, umrCq>>, UNCHANGED fails \/ Fails
  PROVE  ErrorInv'
<1>1. fails > 0 => fails' > 0
  BY DEF OwnInv, SetTypes, Fails
<1>2. umrError' \/ umrCq' = <<FALSE>> => umrError \/ umrCq = <<FALSE>>
  BY Zenon
<1> QED
  BY <1>1, <1>2, Zenon DEF ErrorInv

LEMMA ErrorInside ==
  ASSUME UmrInv, OwnInv, ErrorInv, NEW t \in Threads, Inside(t)
  PROVE  ErrorInv'
<1>1. CASE GetShared(t) \/ GetNew(t) \/ GetReturns(t) \/ Rem(t) \/ Clear(t)
  BY <1>1, ErrorUnchanged DEF GetShared, GetNew, GetReturns, Rem, Clear, memVars
<1>2. CASE GetThrows(t) \/ DestroyThrows(t)
  BY <1>2, ErrorUnchanged DEF GetThrows, DestroyThrows, umrVars
<1>3. CASE Destroy(t)
  <2>1. umrError' = FALSE /\ umrCq' = <<>>
    BY <1>3 DEF Destroy
  <2> QED
    BY <2>1 DEF ErrorInv
<1>4. CASE Post(t) \/ PostFails(t) \/ PollUmrFails(t)
  BY <1>4, ErrorUnchanged DEF Post, PostFails, PollUmrFails
<1>5. CASE PollUmr(t)
  <2>1. umrCq' = <<>> /\ UNCHANGED umrError
    <3>1. umrCq \in {<<TRUE>>, <<FALSE>>}
      BY <1>5 DEF PollUmr, UmrInv, SlotInv
    <3> QED
      BY <1>5, <3>1, OneSlot DEF PollUmr
  <2>2. UNCHANGED fails \/ Fails
    BY <1>5 DEF PollUmr
  <2>3. umrCq' # <<FALSE>> /\ (fails > 0 => fails' > 0)
    BY <2>1, <2>2 DEF OwnInv, SetTypes, Fails
  <2> QED
    BY <2>1, <2>3, Zenon DEF ErrorInv
<1>6. CASE BuildGraph(t) /\ UNCHANGED ctxVars
  <2>1. UNCHANGED <<umrError, umrCq>>
    BY <1>6 DEF BuildGraph, CreateCq, CreateManagementQp, CreateQp, NoQp, Connect, BarrierDone,
                Untouched, umrVars
  <2>2. UNCHANGED fails \/ Fails
    BY <1>6 DEF BuildGraph, CreateCq, CreateManagementQp, CreateQp, NoQp, Connect, BarrierDone
  <2> QED
    BY <2>1, <2>2, ErrorUnchanged
<1> QED
  BY <1>1, <1>2, <1>3, <1>4, <1>5, <1>6 DEF Inside, RegisterUmr

LEMMA ErrorChoose ==
  ASSUME OwnInv, ErrorInv, NEW t \in Threads, Choose(t)
  PROVE  ErrorInv'
<1>1. CASE CallGet(t) \/ CallRem(t)
  BY <1>1, ErrorUnchanged DEF CallGet, CallRem, memVars
<1>2. CASE NewMemory(t)
  <2>1. UNCHANGED <<umrError, umrCq>>
    BY <1>2 DEF NewMemory, UsrMem, PipeMem, HostMem, Memic, NewRegion, MakeKey, umrVars
  <2>2. UNCHANGED fails \/ Fails
    BY <1>2 DEF NewMemory, UsrMem, PipeMem, HostMem, Memic, NewRegion, MakeKey
  <2> QED
    BY <2>1, <2>2, ErrorUnchanged
<1>3. CASE DeleteMemory(t)
  <2>1. UNCHANGED <<umrError, umrCq>> /\ (UNCHANGED fails \/ Fails)
    BY <1>3 DEF DeleteMemory, Delete
  <2> QED
    BY <2>1, ErrorUnchanged
<1>4. CASE NewGraph(t) \/ UseGraph(t)
  <2>1. Untouched
    BY <1>4 DEF UseGraph, NewGraph, NewQp, Operate, Finish, Describes, DeleteGraph,
                DeleteUnmade, Abandon
  <2>2. UNCHANGED fails \/ Fails
    BY <1>4 DEF UseGraph, NewGraph, NewQp, Operate, Finish, Describes, DeleteGraph,
                DeleteUnmade, Abandon
  <2> QED
    BY <2>1, <2>2, ErrorUnchanged DEF Untouched, umrVars
<1> QED
  BY <1>1, <1>2, <1>3, <1>4 DEF Choose

LEMMA ErrorDevice ==
  ASSUME UmrInv, OwnInv, ErrorInv, Device
  PROVE  ErrorInv'
<1>1. umrCq = <<>>
  BY DEF Device, HwUmr, UmrInv, SlotInv
<1>2. Append(umrCq, TRUE) = <<TRUE>> /\ <<TRUE>> # <<FALSE>>
  <2>1. <<TRUE>>[1] # <<FALSE>>[1]
    OBVIOUS
  <2> QED
    BY <1>1, <2>1
<1>3. Fails => fails' > 0
  BY FailsCounts DEF OwnInv
<1> QED
  BY <1>2, <1>3 DEF Device, HwUmr, ErrorInv

(* A QP that has no WQE is initiated.                                      *)
LEMMA Divided ==
  ASSUME alive, NEW t \in Threads, NEW g, Initiated(t, g),
         g[t].stage = "init", Len(g[t].made) \in Nat, Len(g[t].made) >= 1
  PROVE  DeathInv'
<1> DEFINE n == Len(g[t].made)
<1>1. CASE UNCHANGED death
  BY <1>1 DEF DeathInv, DeathHasCause, alive
<1>2. CASE death' = "division" /\ graph' = g /\ ~ g[t].qps[n].busy
  <2>1. n \in 1 .. Len(graph'[t].made) /\ ~ graph'[t].qps[n].busy /\ graph'[t].stage = "init"
    BY <1>2
  <2> HIDE DEF n
  <2> QED
    BY <1>2, <2>1 DEF DeathInv, DeathHasCause
<1> QED
  BY <1>1, <1>2 DEF Initiated

LEMMA InitiatedDeath ==
  ASSUME OwnInv, alive, NEW t \in Threads,
         CreateManagementQp(t) \/ Connect(t) \/ BarrierDone(t)
  PROVE  DeathInv'
<1> DEFINE old == graph[t].made
<1>1. graph[t].stage = "init"
  BY DEF CreateManagementQp, Connect, BarrierDone, At
<1>2. IsGraph(graph[t], t) /\ Progress(graph[t])
  BY <1>1, StageOfNone DEF OwnInv, GraphTypes
<1>3. /\ old \in Seq(Qps(t)) /\ Len(old) \in Nat
      /\ graph[t].step \in {"exchange", "connect", "barrier"} => Len(old) >= 1
  BY <1>1, <1>2 DEF IsGraph, Progress
<1>4. CASE UNCHANGED death
  BY <1>4 DEF DeathInv, DeathHasCause, alive
<1>5. ASSUME NEW qp, NEW state, Initiated(t, Named(t, qp, state, "cq"))
      PROVE  DeathInv'
  <2> DEFINE g == Named(t, qp, state, "cq")
             q == [obj |-> qp, state |-> state, cqs |-> graph[t].own]
  <2>1. g[t].stage = "init" /\ g[t].made = Append(old, q)
    <3>1. g[t] = [stage |-> "init", qps |-> graph[t].qps, step |-> "cq",
                  made |-> Append(old, q), own |-> {}]
      BY <1>1, NamedIs DEF OwnInv
    <3> HIDE DEF g, q, old
    <3> QED
      BY <3>1
  <2> HIDE DEF g, q, old
  <2>2. Len(Append(old, q)) = Len(old) + 1
    BY <1>3
  <2>3. Len(g[t].made) \in Nat /\ Len(g[t].made) >= 1
    BY <1>3, <2>1, <2>2
  <2> QED
    BY <1>5, <2>1, <2>3, Divided DEF g
<1>6. CASE BarrierDone(t)
  <2>1. Initiated(t, graph) /\ graph[t].step = "barrier"
    BY <1>6 DEF BarrierDone, At
  <2> QED
    BY <1>1, <1>3, <2>1, Divided
<1>7. CASE At(t, "connect") /\ Connect(t)
  <2> DEFINE n == Len(graph[t].made)
             g == [graph EXCEPT ![t].made[n].state = "RTS"]
  <2>1. UNCHANGED death \/ Initiated(t, g)
    BY <1>7 DEF Connect
  <2>2. g[t] = [graph[t] EXCEPT !.made = [old EXCEPT ![n].state = "RTS"]]
    BY DEF OwnInv, GraphTypes
  <2> DEFINE made == [old EXCEPT ![n].state = "RTS"]
  <2>3. Len(made) = Len(old)
    <3>1. DOMAIN made = DOMAIN old /\ DOMAIN old = 1 .. Len(old)
      BY <1>3
    <3> HIDE DEF made, old
    <3> QED
      BY <1>3, <3>1
  <2>4. g[t].stage = "init" /\ g[t].made = made
    <3> HIDE DEF g, made
    <3> QED
      BY <1>1, <1>2, <2>2 DEF IsGraph, made
  <2>5. Len(g[t].made) \in Nat /\ Len(g[t].made) >= 1
    <3> HIDE DEF g, made, old
    <3> QED
      BY <1>3, <1>7, <2>3, <2>4 DEF At
  <2> HIDE DEF g
  <2> QED
    BY <1>4, <2>1, <2>4, <2>5, Divided
<1> QED
  BY <1>4, <1>5, <1>6, <1>7 DEF CreateManagementQp, Connect

(* What a process dies of.                                                 *)
LEMMA DeathStep ==
  ASSUME CtxInv, UmrInv, OwnInv, alive, NEW t \in Threads, Inside(t) \/ Choose(t)
  PROVE  DeathInv'
<1>1. Fails => fails' > 0
  BY FailsCounts DEF OwnInv
<1>2. CASE NoQp(t)
  BY <1>1, <1>2 DEF NoQp, DeathInv, DeathHasCause
<1>3. CASE DeleteUnmade(t)
  <2>1. death' = "null" /\ UNCHANGED <<fails, graph>>
    BY <1>3 DEF DeleteUnmade
  <2>2. graph[t].stage = "built" \/ fails > 0
    BY <1>3 DEF DeleteUnmade, OwnInv, GraphTypes
  <2> QED
    BY <2>1, <2>2 DEF DeathInv, DeathHasCause
<1>4. CASE DestroyThrows(t)
  <2>1. CASE pd # {} /\ UNCHANGED fails
    <3>1. UNCHANGED refused /\ death' = "thrown"
      BY <1>4 DEF DestroyThrows, umrVars
    <3>2. ~ Clean
      <4> SUFFICES ASSUME Clean PROVE pd = {}
        BY <2>1
      <4>1. \A u \in Threads : Of(pd, u) = MemObjs(u) \union RegObjs(u) \union QpObjs(u)
        BY DEF OwnInv, HoldInv
      <4>2. \A u \in Threads : reg[u] = NotRegistering /\ mem[u] = {} /\ graph[u] = NoGraph
        BY <1>4, NobodyIn DEF OwnInv, DestroyThrows
      <4>3. \A u \in Threads : Of(pd, u) = {}
        BY <4>1, <4>2 DEF MemObjs, RegObjs, QpObjs
      <4> QED
        BY <4>3 DEF OwnInv, SetTypes, Objects, Of
    <3>3. fails > 0 \/ refused
      BY <3>2 DEF Clean, OwnInv, SetTypes
    <3> QED
      BY <2>1, <3>1, <3>3 DEF DeathInv, DeathHasCause
  <2>2. CASE Fails
    BY <1>1, <1>4, <2>2 DEF DestroyThrows, DeathInv, DeathHasCause
  <2> QED
    BY <1>4, <2>1, <2>2 DEF DestroyThrows
<1>5. ASSUME UNCHANGED death PROVE DeathInv'
  BY <1>5 DEF DeathInv, DeathHasCause, alive
<1>6. CASE GetShared(t) \/ GetNew(t) \/ GetThrows(t) \/ GetReturns(t) \/ Rem(t)
           \/ Destroy(t) \/ Clear(t) \/ CallGet(t) \/ CallRem(t)
  BY <1>5, <1>6
  DEF GetShared, GetNew, GetThrows, GetReturns, Rem, Destroy, Clear, CallGet, CallRem, queueVars
<1>7. CASE UNCHANGED queueVars
  BY <1>5, <1>7 DEF queueVars
<1>8. CASE CreateCq(t) \/ CreateQp(t)
  BY <1>5, <1>8 DEF CreateCq, CreateQp
<1>9. CASE CreateManagementQp(t) \/ Connect(t) \/ BarrierDone(t)
  BY <1>9, InitiatedDeath
<1>10. CASE NewGraph(t) \/ (\E kind \in DataKinds : NewQp(t, kind)) \/ Operate(t) \/ Finish(t)
            \/ DeleteGraph(t) \/ Abandon(t)
  BY <1>5, <1>10 DEF NewGraph, NewQp, Operate, Finish, Describes, DeleteGraph, Abandon
<1> QED
  BY <1>2, <1>3, <1>4, <1>6, <1>7, <1>8, <1>9, <1>10 DEF Inside, Choose, BuildGraph, UseGraph
-----------------------------------------------------------------------------
LEMMA OwnNext == OwnIInv /\ [Next]_vars => OwnInv'
<1> SUFFICES ASSUME OwnIInv, [Next]_vars PROVE OwnInv'
  OBVIOUS
<1>0. CtxInv /\ UmrInv /\ OwnInv /\ ErrorInv
  BY DEF OwnIInv, IInv
<1>1. CASE UNCHANGED vars
  <2>1. UNCHANGED <<memVars, queueVars, ctxVars>>
    BY <1>1 DEF vars
  <2>2. instance' \in 0 .. opened' /\ NoBetter
    BY <1>0, <2>1, Same DEF OwnInv, SetTypes, memVars, ctxVars
  <2> QED
    BY <1>0, <2>1, <2>2, OwnUnchanged DEF memVars, queueVars, ctxVars
<1>2. CASE Device
  BY <1>0, <1>2, HwOwn
<1>3. ASSUME NEW t \in Threads, Inside(t)
      PROVE  OwnInv'
  BY <1>0, <1>3, CtxSteps, RegisterOwn, GraphOwn DEF Inside
<1>4. ASSUME NEW t \in Threads, Choose(t)
      PROVE  OwnInv'
  BY <1>0, <1>4, CtxSteps, MemoryOwn, GraphOwn DEF Choose
<1> QED
  BY <1>1, <1>2, <1>3, <1>4 DEF Next, Over

LEMMA FailuresNext == OwnIInv /\ [Next]_vars => ErrorInv' /\ DeathInv'
<1> SUFFICES ASSUME OwnIInv, [Next]_vars PROVE ErrorInv' /\ DeathInv'
  OBVIOUS
<1>0. CtxInv /\ UmrInv /\ OwnInv /\ ErrorInv /\ DeathInv
  BY DEF OwnIInv, IInv
<1>1. CASE UNCHANGED vars
  <2>1. ErrorInv'
    BY <1>0, <1>1 DEF vars, memVars, ErrorInv
  <2>2. UNCHANGED <<death, graph, fails, refused>>
    BY <1>1 DEF vars, memVars, queueVars
  <2> QED
    BY <1>0, <2>1, <2>2 DEF DeathInv, DeathHasCause
<1>2. CASE alive /\ Device
  <2>1. ErrorInv'
    BY <1>0, <1>2, ErrorDevice
  <2>2. UNCHANGED death
    BY <1>2 DEF Device, queueVars
  <2> QED
    BY <1>2, <2>1, <2>2 DEF DeathInv, DeathHasCause, alive
<1>3. ASSUME alive, NEW t \in Threads, Inside(t) \/ Choose(t)
      PROVE  ErrorInv' /\ DeathInv'
  BY <1>0, <1>3, ErrorInside, ErrorChoose, DeathStep
<1> QED
  BY <1>1, <1>2, <1>3 DEF Next, Over

(* The inductive invariant of what the threads own holds.                  *)
THEOREM Ownership == Spec => []OwnIInv
<1>1. Init => ErrorInv /\ DeathInv
  <2>1. <<>> # <<FALSE>>
    OBVIOUS
  <2> QED
    BY <2>1 DEF Init, MemInit, QueueInit, ErrorInv, DeathInv, DeathHasCause
<1>2. Init => OwnIInv
  BY <1>1, Start, OwnStart DEF OwnIInv
<1>3. OwnIInv /\ [Next]_vars => OwnIInv'
  <2>1. OwnIInv /\ [Next]_vars => IInv'
    BY CtxNext, UmrNext DEF OwnIInv, IInv
  <2> QED
    BY <2>1, OwnNext, FailuresNext DEF OwnIInv
<1> QED
  BY <1>2, <1>3, PTL DEF Spec

(* Every variable keeps its type: what the constructors make is what the   *)
(* destructors know, the device's memory is not overdrawn nor given back   *)
(* twice, and getInstance counts no thread twice.                          *)
THEOREM Types == Spec => []TypeOK
<1>1. OwnIInv => TypeOK
  <2> SUFFICES ASSUME OwnIInv PROVE TypeOK
    OBVIOUS
  <2>0. CtxInv /\ UmrInv /\ OwnInv /\ DeathInv
    BY DEF OwnIInv, IInv
  <2>1. \A t \in Threads : {m.obj : m \in mem[t]} \subseteq Objects({"mr", "key"})
    BY <2>0 DEF OwnInv, MemTypes, Objects
  <2>2. Len(umrSq) + Len(umrCq) \in Nat
    <3>1. CASE umrSq = <<>> /\ umrCq = <<>>
      BY <3>1
    <3>2. CASE umrSq = <<umrSq[1]>> /\ umrCq = <<>>
      <4> DEFINE x == umrSq[1]
      <4> HIDE DEF x
      <4>1. umrSq = <<x>> /\ Len(<<x>>) = 1
        BY <3>2 DEF x
      <4> QED
        BY <3>2, <4>1
    <3>3. CASE umrSq = <<>> /\ umrCq \in {<<TRUE>>, <<FALSE>>}
      BY <3>3
    <3> QED
      BY <2>0, <3>1, <3>2, <3>3 DEF UmrInv, SlotInv
  <2>3. ref \in 0 .. Cardinality(Threads)
    <3>1. IsFiniteSet(Threads) /\ Counted \subseteq Threads
      BY ThreadsShape DEF Counted
    <3>2. Cardinality(Counted) <= Cardinality(Threads) /\ Cardinality(Threads) \in Nat
      BY <3>1, FS_Subset, FS_CardinalityType
    <3> QED
      BY <2>0, <3>2, CountedFinite DEF CtxInv
  <2> QED
    BY <2>0, <2>1, <2>2, <2>3
    DEF TypeOK, OwnInv, SetTypes, DeviceInv, DeathInv, CtxInv, CtxTypes, Places, OnPd, OnCq
<1> QED
  BY Ownership, <1>1, PTL

(* Where no call has failed and none was refused, the regions, keys and    *)
(* QPs on the protection domain, the receive CQs and the device's memory   *)
(* belong to threads that will take them down, a QP has its CQs, and what  *)
(* CQs there are besides are the send CQs of QPs that were destroyed       *)
(* (constructors and destructors of NetMem and PcxQp, register_umr).       *)
THEOREM AllAccounted == Spec => []Accounted
<1>1. OwnIInv => Accounted
  <2> SUFFICES ASSUME OwnIInv, fails = 0 /\ ~ refused PROVE Accounted
    BY DEF Accounted
  <2>0. OwnInv /\ Clean
    BY DEF OwnIInv, Clean
  <2>1. \A t \in Threads :
          /\ Of(pd, t) = MemObjs(t) \union RegObjs(t) \union QpObjs(t)
          /\ Of(Cqs(cqs), t) = Cqs(CqObjs(t)) /\ CqObjs(t) \subseteq cqs
    BY <2>0 DEF OwnInv, HoldInv
  <2>2. \A o \in pd \union cqs : o.of \in Threads
    BY <2>0 DEF OwnInv, SetTypes, Objects
  <2>3. pd = UNION {MemObjs(t) \union RegObjs(t) \union QpObjs(t) : t \in Threads}
    <3>1. pd = UNION {Of(pd, t) : t \in Threads}
      BY <2>2 DEF Of
    <3> QED
      BY <2>1, <3>1
  <2> DEFINE owned == UNION {CqObjs(t) : t \in Threads}
  <2>4. owned \subseteq cqs
    BY <2>1
  <2>5. \A c \in cqs \ owned : c.is = "scq"
    <3> SUFFICES ASSUME NEW c \in cqs, c.is = "cq" PROVE c \in owned
      BY <2>0 DEF OwnInv, SetTypes, Objects, OnCq
    <3>1. c.of \in Threads /\ c \in Of(Cqs(cqs), c.of)
      BY <2>2 DEF Of, Cqs
    <3>2. c \in CqObjs(c.of)
      BY <2>1, <3>1 DEF Cqs
    <3> QED
      BY <3>1, <3>2
  <2>6. dm = Cardinality(DevicePairs)
    BY <2>0 DEF OwnInv, HoldInv
  <2>7. \A t \in Threads :
          /\ QpObjs(t) = IF graph[t] = NoGraph THEN {} ELSE {q.obj : q \in Made(t)}
          /\ CqObjs(t) = IF graph[t] = NoGraph THEN {}
                         ELSE graph[t].own \union UNION {q.cqs : q \in Made(t)}
    <3> SUFFICES ASSUME NEW t \in Threads
                 PROVE  /\ QpObjs(t) = IF graph[t] = NoGraph THEN {} ELSE {q.obj : q \in Made(t)}
                        /\ CqObjs(t) = IF graph[t] = NoGraph THEN {}
                                       ELSE graph[t].own \union UNION {q.cqs : q \in Made(t)}
      OBVIOUS
    <3>1. graph[t] = NoGraph => QpObjs(t) = {} /\ CqObjs(t) = {}
      BY DEF QpObjs, CqObjs
    <3> QED
      BY <3>1, MadeAre
  <2> QED
    BY <2>3, <2>4, <2>5, <2>6, <2>7 DEF Accounted, MemObjs, RegObjs, DevicePairs
<1> QED
  BY Ownership, <1>1, PTL

(* What a process may die of, whatever order the threads construct, delete *)
(* and leave in: of a NULL only after a failed call or by a graph that was *)
(* deleted before finish(), of a division only by a QP without operations, *)
(* of ~VerbCtx only after a failed call or a refused post (the destructors *)
(* of PcxQp, the constructor of qp_ctx, ~VerbCtx).                         *)
THEOREM CausesOfDeath == Spec => []DeathHasCause
<1>1. OwnIInv => DeathHasCause
  BY DEF OwnIInv, DeathInv
<1> QED
  BY Ownership, <1>1, PTL
=============================================================================
