------------------------------- MODULE NetMem -------------------------------
(***************************************************************************)
(* The memory objects of a process (pcx_mem.cc).  Threads construct and    *)
(* delete them on the one VerbCtx; each is backed by a region or a key     *)
(* registered on its protection domain.  A UmrMem is a key that a work     *)
(* request has to write: register_umr posts it on a QP and polls a CQ that *)
(* all threads share, and takes no lock.                                   *)
(*                                                                         *)
(* Any verbs call may fail; what a constructor or register_umr had made    *)
(* before it threw stays behind, because nothing takes it back.  Lengths,  *)
(* addresses and lkeys are left out.  VerbCtx composes this module with    *)
(* the context and with Queues.                                            *)
(***************************************************************************)
EXTENDS Integers, Sequences, FiniteSets

CONSTANTS
  Threads,
  DeviceMem,  \* allocations the device's own memory has room for
  Uses,       \* Uses[t]: what thread t makes: "user", "pipe", "key", "graph"
  MaxRegions, \* bound: regions of a thread at a time
  MaxKeys,    \* bound: keys of a thread, those left behind included
  MaxFails    \* bound: verbs calls that fail (counting ends there)

ASSUME MemBounds == {DeviceMem, MaxRegions, MaxKeys} \subseteq Nat /\ MaxFails \in Nat \ {0}

VARIABLES
  pd,       \* what is on the protection domain: regions, keys, key lists, QPs
  dm,       \* device memory allocated
  mem,      \* mem[t]: the memory objects of thread t
  reg,      \* reg[t]: where t is in register_umr
  umrError, \* the UMR QP is in the error state
  umrSq,    \* its work requests that are not executed, by the key they write
  umrCq,    \* its completions that are not polled: successful or not
  written,  \* the keys that the device has written
  refused,  \* a post has met another thread's request in the one slot
  fails     \* verbs calls that have failed on their own

memVars == <<pd, dm, mem, reg, umrError, umrSq, umrCq, written, refused, fails>>
umrVars == <<reg, umrError, umrSq, umrCq, written, refused>>

NotRegistering == [at |-> "idle"]

(* A verbs object of thread t that does not exist yet. *)
Fresh(objects, is, t) ==
  LET free == {n \in 1 .. Cardinality(objects) + 1 : [is |-> is, of |-> t, nr |-> n] \notin objects}
  IN  [is |-> is, of |-> t, nr |-> CHOOSE n \in free : \A k \in free : n <= k]

MemInit ==
  /\ pd = {}
  /\ dm = 0
  /\ mem = [t \in Threads |-> {}]
  /\ reg = [t \in Threads |-> NotRegistering]
  /\ umrError = FALSE
  /\ umrSq = <<>>
  /\ umrCq = <<>>
  /\ written = {}
  /\ refused = FALSE
  /\ fails = 0

Fails ==
  /\ fails < MaxFails
  /\ fails' = fails + 1
-----------------------------------------------------------------------------
Regions(t) == {m \in mem[t] : m.in # "key"}
Keys(t) == mem[t] \ Regions(t)

Free(t) == reg[t] = NotRegistering /\ Cardinality(Regions(t)) < MaxRegions

Registered(t, place) ==
  LET mr == Fresh(pd, "mr", t)
  IN  /\ pd' = pd \union {mr}
      /\ mem' = [mem EXCEPT ![t] = @ \union {[in |-> place, obj |-> mr]}]

(* A region of the host's memory is registered, or the constructor throws. *)
NewRegion(t, place) ==
  /\ Free(t)
  /\ \/ Registered(t, place) /\ UNCHANGED fails
     \/ Fails /\ UNCHANGED <<pd, mem>>
  /\ UNCHANGED <<dm, umrVars>>

HostMem(t) == NewRegion(t, "host")

UsrMem(t) == NewRegion(t, "user")

(* The device memory of a region that is refused is not given back. *)
Memic(t) ==
  /\ Free(t)
  /\ dm < DeviceMem
  /\ dm' = dm + 1
  /\ \/ Registered(t, "device") /\ UNCHANGED fails
     \/ Fails /\ UNCHANGED <<pd, mem>>
  /\ UNCHANGED umrVars

(* PipeMem of the device's memory makes do with the host's where there is  *)
(* none to be had, but throws like the Memic where the region is refused.  *)
PipeMem(t) == Memic(t) \/ HostMem(t)

(* Mutant: all memory is taken for device memory. *)
DeleteDevice(t, m) ==
  /\ reg[t] = NotRegistering
  /\ m \in mem[t]
  /\ m \in Keys(t) \/ Keys(t) = {}
  /\ mem' = [mem EXCEPT ![t] = @ \ {m}]
  /\ pd' = pd \ {m.obj}
  /\ written' = written \ {m.obj}
  /\ dm' = dm - 1
  /\ UNCHANGED <<reg, umrError, umrSq, umrCq, refused, fails>>

(* The destructors, which look at no return value: what a call does not    *)
(* take down is lost.  A key goes before the regions it spans.             *)
Delete(t, m) ==
  /\ reg[t] = NotRegistering
  /\ m \in mem[t]
  /\ m \in Keys(t) \/ Keys(t) = {}
  /\ mem' = [mem EXCEPT ![t] = @ \ {m}]
  /\ \/ pd' = pd \ {m.obj} /\ UNCHANGED fails
     \/ Fails /\ UNCHANGED pd
  /\ written' = written \ {m.obj}
  /\ \/ dm' = IF m.in = "device" THEN dm - 1 ELSE dm
     \/ fails' # fails /\ UNCHANGED dm
  /\ UNCHANGED <<reg, umrError, umrSq, umrCq, refused>>
-----------------------------------------------------------------------------
(* register_umr up to the work request.  A list of regions too long for    *)
(* the request itself (long) is memory of its own on the protection        *)
(* domain; it stays there if the key is refused.                           *)
MakeKey(t, long) ==
  LET key == Fresh(pd, "key", t)
      list == IF long THEN {Fresh(pd, "list", t)} ELSE {}
  IN  /\ reg[t] = NotRegistering
      /\ Regions(t) # {} /\ Keys(t) = {}
      /\ Cardinality({o \in pd : o.of = t /\ o.is \in {"key", "list"}}) < MaxKeys
      /\ \/ /\ pd' = pd \union {key} \union list
            /\ reg' = [reg EXCEPT ![t] = [at |-> "post", key |-> key, list |-> list]]
            /\ UNCHANGED fails
         \/ Fails /\ pd' = pd \union list /\ UNCHANGED reg
         \/ Fails /\ long /\ UNCHANGED <<pd, reg>>
      /\ UNCHANGED <<dm, mem, umrError, umrSq, umrCq, written, refused>>

(* max_send_wr of the UMR QP. *)
UmrSlots == 1

(* A slot of the send queue is free again when its completion is polled. *)
SlotsTaken == Len(umrSq) + Len(umrCq)

(* Mutant: a QP of two slots. *)
PostTwo(t) ==
  /\ reg[t].at = "post"
  /\ SlotsTaken < 2
  /\ umrSq' = Append(umrSq, reg[t].key)
  /\ reg' = [reg EXCEPT ![t].at = "poll"]
  /\ UNCHANGED <<pd, dm, mem, umrError, umrCq, written, refused, fails>>

Post(t) ==
  /\ reg[t].at = "post"
  /\ SlotsTaken < UmrSlots
  /\ umrSq' = Append(umrSq, reg[t].key)
  /\ reg' = [reg EXCEPT ![t].at = "poll"]
  /\ UNCHANGED <<pd, dm, mem, umrError, umrCq, written, refused, fails>>

(* UMR_PostFailed, because the call fails or because another thread's      *)
(* request has the slot.  The key and the list stay.                       *)
PostFails(t) ==
  /\ reg[t].at = "post"
  /\ \/ SlotsTaken >= UmrSlots /\ refused' = TRUE /\ UNCHANGED fails
     \/ SlotsTaken < UmrSlots /\ Fails /\ UNCHANGED refused
  /\ reg' = [reg EXCEPT ![t] = NotRegistering]
  /\ UNCHANGED <<pd, dm, mem, umrError, umrSq, umrCq, written>>

(* Mutant: requests are not signalled. *)
HwUmrUnsignalled ==
  /\ umrSq # <<>>
  /\ umrSq' = Tail(umrSq)
  /\ written' = written \union {Head(umrSq)}
  /\ UNCHANGED <<pd, dm, mem, reg, umrError, umrCq, refused, fails>>

(* The device executes the requests in order; after an error none of them. *)
HwUmr ==
  /\ umrSq # <<>>
  /\ umrSq' = Tail(umrSq)
  /\ \/ /\ ~ umrError
        /\ written' = written \union {Head(umrSq)}
        /\ umrCq' = Append(umrCq, TRUE)
        /\ UNCHANGED <<umrError, fails>>
     \/ /\ umrError
        /\ umrCq' = Append(umrCq, FALSE)
        /\ UNCHANGED <<written, umrError, fails>>
     \/ /\ ~ umrError /\ Fails
        /\ umrError' = TRUE
        /\ umrCq' = Append(umrCq, FALSE)
        /\ UNCHANGED written
  /\ UNCHANGED <<pd, dm, mem, reg, refused>>

(* Mutant: the list of regions is not freed. *)
PollUmrKeepsList(t) ==
  /\ reg[t].at = "poll"
  /\ umrCq # <<>>
  /\ umrCq' = Tail(umrCq)
  /\ reg' = [reg EXCEPT ![t] = NotRegistering]
  /\ IF Head(umrCq)
       THEN mem' = [mem EXCEPT ![t] = @ \union {[in |-> "key", obj |-> reg[t].key]}]
       ELSE UNCHANGED mem
  /\ UNCHANGED <<pd, dm, umrError, umrSq, written, refused, fails>>

(* The polling loop of register_umr takes whatever completes: the key is   *)
(* returned to the UmrMem, or UMR_CompletionInError thrown.                *)
PollUmr(t) ==
  /\ reg[t].at = "poll"
  /\ umrCq # <<>>
  /\ umrCq' = Tail(umrCq)
  /\ reg' = [reg EXCEPT ![t] = NotRegistering]
  /\ IF Head(umrCq)
       THEN /\ mem' = [mem EXCEPT ![t] =
                         @ \union {[in |-> "key", obj |-> reg[t].key]}]
            /\ \/ pd' = pd \ reg[t].list /\ UNCHANGED fails
               \/ Fails /\ reg[t].list # {} /\ UNCHANGED pd
       ELSE UNCHANGED <<mem, pd, fails>>
  /\ UNCHANGED <<dm, umrError, umrSq, written, refused>>

(* UMR_PollFailed: the request is still under way. *)
PollUmrFails(t) ==
  /\ reg[t].at = "poll"
  /\ Fails
  /\ reg' = [reg EXCEPT ![t] = NotRegistering]
  /\ UNCHANGED <<pd, dm, mem, umrError, umrSq, umrCq, written, refused>>

RegisterUmr(t) == Post(t) \/ PostFails(t) \/ PollUmr(t) \/ PollUmrFails(t)

(* HostMem and Memic are what a PipeMem is made of. *)
NewMemory(t) ==
  \/ "user" \in Uses[t] /\ UsrMem(t)
  \/ "pipe" \in Uses[t] /\ PipeMem(t)
  \/ "key" \in Uses[t] /\ \E long \in BOOLEAN : MakeKey(t, long)

DeleteMemory(t) == \E m \in mem[t] : Delete(t, m)
-----------------------------------------------------------------------------
(* A UmrMem is never handed out before the device has written its key,     *)
(* though threads take each other's completions off the CQ they share      *)
(* (register_umr: the one slot of the QP is what keeps them apart).        *)
KeyReady == \A t \in Threads : \A m \in Keys(t) : m.obj \in written
=============================================================================
