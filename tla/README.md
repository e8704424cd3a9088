# pcx in TLA+

pcx lets an application offload an MPI-style collective to the network card.
The application describes the collective once, as a graph of writes, reductions
and waits over a few queue pairs.  `finish()` compiles that graph into the rings
of memory the card reads its instructions from.  From then on the card runs the
collective on its own, once for every doorbell, and the CPU only re-arms the
rings and polls for the end of a round.

This directory holds TLA+ models of that program, the TLC configurations that
check them on small instances, and proofs, checked by TLAPS, that the core of
it is correct for every size.

    tlc -workers 2 -config RearmRing_quad.cfg MCRearmRing.tla     # one run
    tlapm RearmRingProofs.tla                                     # one module of proofs

## 1. Inventory

### The parts of the program

| Component | Where | State | Operations |
|---|---|---|---|
| Management queue (`qp_ctx`) | `dv_mgr.cc`, `dv_mgr.h` | the ring (`qp->sq.buf`), `wqes`, `number_of_duplicates`, `phase`, `offset`, `tasks`, `exe_cnt`, `write_cnt` | `cd_wait`, `cd_send_enable`, `cd_recv_enable`, `nop`, `write`, `reduce_write`, `sendCredit`, `fin`, `rearm`, `db`, `db(k)` |
| Re-arm tasks (`RearmTasks`, `ValRearmTasks`) | `dv_mgr.cc`, `dv_mgr.h` | a map from increment to the fields it applies to | `add`, `exec` |
| Completion polling (`qp_ctx::poll`) | `dv_mgr.cc` | `poll_cnt`, `cur_cqe`, the CQ's ring | `poll`, `cq_db` |
| Graph compiler (`CommGraph`, `PcxQp` and its subclasses) | `qps.cc`, `qps.h` | `qps`, `iq`, `wqe_count`, `cqe_count`, `scqe_count`, `recv_enables`, `initiated` | constructors (`regQp`), `write`, `writeCmpl`, `reduce_write`, `sendCredit`, `wait`, `wait_send`, `finish`, `init`, `fin` |
| Connection handshake (`RingPair`, `RingQp`, `DoublingQp`) | `qps.cc` | local and remote QP, the context's mutex | `init`, application's `exchange` and `barrier` |
| Verbs context (`VerbCtx`) | `verbs_ctx.cc`, `verbs_ctx.h` | `instance`, `ref`, `safeFlag`, `iniMtx`, `mtx`, the UMR queue | `getInstance`, `remInstance`, constructor, destructor |
| Memory (`NetMem`, `HostMem`, `Memic`, `UsrMem`, `RefMem`, `UmrMem`, `RemoteMem`, `PipeMem`) | `pcx_mem.cc`, `pcx_mem.h` | scatter entry, memory region, `cur` of `PipeMem` | constructors, destructors, `next`, `operator[]`, `register_umr` |
| Queue creation over verbs | `qps.cc` | the verbs objects of each QP (`ibqp`, `ibcq`, `ibscq`) | `rc_qp_create`, `rc_qp_connect`, `cd_create_cq`, ... |
| Execution by the devices of all ranks | not code: what the instructions of `dv_mgr.cc` and `qps.cc` are written for | queues, doorbells, completion counts | `db`, and the device's own steps |
| Barriers and doorbells | `udma_barrier.h`, `dv_mgr.cc` | none | macros |
| Scripts for the device | `config/` | device registers | switch the WQE index check off and on |

### How they interact

* The *application* constructs a `CommGraph` (which makes the management QP) and
  data QPs, and calls operations on them.  Every operation does two things at
  once: it *counts* (WQEs of its own queue and of the management queue,
  completions of its own CQ, send CQ or the CQ of the paired QP) and it *queues*
  closures on `CommGraph::iq`.
* `finish()` first calls `init` of each QP, which sizes the rings from the
  counts and connects the QP, then runs the queued closures, which write
  instructions into the rings and count again, then calls `fin` of each QP, which
  pads the block, copies it over the ring and arms some copies ahead, and last
  rings the doorbell of the receive enables.
* The *device* reads the management ring at its own pace.  A `wait` blocks it until
  a CQ has reached an index, a `send_enable` releases WQEs of a data queue up
  to an index.  These indices are absolute, so they have to be advanced in every
  copy of the block before the device meets it: that is `rearm`, a plain loop of
  stores into the ring with no synchronisation.
* The application learns that a round has ended by `poll`, which looks at
  the owner bit of one entry of the completion ring.  Nothing else tells it or
  the host library how far the device is.
* The context's mutex is taken by the constructor of `CommGraph` and given back by
  `finish`; `init` releases it around the application's `exchange` and `barrier`.
* The devices of different ranks meet only through completions: a write of one rank
  counts on the CQ of the QP at its other end, whose management queue waits for
  that count.  No rank knows which round another one is in.
* Threads share one `VerbCtx`, and with it the protection domain that every region, key
  and QP lives on and the QP and CQ of `register_umr`.  What one of them leaves
  behind meets all of them in `~VerbCtx`.

### What is hard here

1. The CPU rewrites instructions that a device fetches, paced only by polling.
   How far ahead the ring is armed (`number_of_duplicates - 2`, unsigned), how far
   the application runs ahead, and which instructions of a round come after the
   polled completion decide together whether that is safe.
2. One bit tells a fresh completion from one of an earlier lap, in a CQ that was
   created to ignore overrun; the bit's byte is read twice.
3. Two passes over the graph count the same things in different places.  Sizes
   and increments come from the one, indices from the other.
4. The block size is rounded up to a divisor of the ring, and the padding writes
   one NOP more than it sometimes needs.
5. Handshakes over a ring of ranks under a mutex that is dropped and retaken.
6. A QP and a CQ for UMR registration that all threads share without a lock.
7. A reference-counted singleton whose constructor may throw under a raw mutex, and
   whose destructor throws when anything is left.
8. Constructors that throw half way through a sequence of verbs calls and take
   nothing back, destructors that look at no return value, and graphs that are
   deleted before they are finished, with QPs that were never created.
9. Several rounds at once on several ranks, told apart only by counting.

The hazards are listed line by line in `PROJECT.json`, with the properties that
cover them.  One has none: a second graph constructed by a thread before its first
is finished (`qps.cc:5`) locks a `std::mutex` its thread already holds, which C++ leaves
undefined.

### What makes each part correct

* Ring: what the device fetches is always the instruction of its own round,
  and no store hits an instruction that is released and not yet executed.
* Polling: never early, never lost, every round eventually seen.
* Compiler: both passes agree; every wait waits for just the completions caused
  before it, in every round; every enable releases just what precedes it; the
  block is tiled exactly; `finish` starts nothing but the receive queues.
* Handshake: both ends of every link find each other, for every number of ranks;
  everybody returns; the mutex is held exactly where the code relies on it.
* Context: one instance as long as somebody uses it, deleted once, made again for the
  next one; never a second or half-made one, also after a constructor that threw.
* UMR: a key is handed out only once the device has written it; nobody waits for
  a completion that another thread has consumed.
* Memory and queues: what is on the protection domain, and each receive CQ, belongs to
  somebody who will take it down, unless a verbs call failed or a post was refused.
  (The send CQs belong to nobody once their QP is gone: no destructor destroys `ibscq`.)
* The process dies of nothing but a failed verbs call, a graph deleted without
  `finish`, a QP finished without operations, or two threads that register a key at once.
* Execution: on every rank and in every round, no operation is executed before what the
  waits in front of it stand for, and every round that all ranks start ends.

## 2. Modules

| Module | Models | Lines of the code |
|---|---|---|
| `UnrolledQueue` | the abstract specification: the instruction list written out once per round | what `RearmTasks::add` and the `cd_` calls promise |
| `RearmRing` | the ring, `fin`, `rearm` store by store, `db`, polling, the device | `dv_mgr.cc` `fin`, `rearm`, `exec`, `db`; `dv_mgr.h` tasks |
| `MCRearmRing` | small instances of it | |
| `RingArith` | lemmas on `%` and `\div` | |
| `RearmRingProofs` | proofs about `RearmRing` for every size | |
| `CqPoll` | `poll`, the completion ring, the device writing it | `dv_mgr.cc` `poll`, the constructor; `qps.cc` `cd_create_cq` |
| `CqPollProofs` | proofs about `CqPoll` for every size | |
| `CommGraph` | the graph compiler | `qps.cc`, the posting calls and the constructor of `qp_ctx` |
| `MCCommGraph` | small instances with the provider's queue sizes | |
| `CommGraphProofs` | proofs about the indices and counts of `CommGraph`, for every program and every set of QPs | |
| `CommBlockProofs` | proofs about the layout of its queues, on top of them | |
| `Collective` | the abstract specification: the author's calls, carried out by every rank | what the calls of `CommGraph` promise |
| `GraphRun` | the devices of all ranks executing what `CommGraph` compiled; extends `CommGraph` | `dv_mgr.cc` `db` and the `cd_` and `write` calls as the device reads them |
| `MCGraphRun` | two ranks and three collectives | |
| `GraphRunProofs` | proof that `GraphRun` implements `Collective`, for every list of calls and any number of ranks and rounds | |
| `RingConnect` | the handshakes of N processes and the mutex of each | `qps.cc` `RingPair`, `init` of `RingQp` and `DoublingQp`, the lock and unlock of `CommGraph` |
| `MCRingConnect` | a ring and a recursive doubling | |
| `RingConnectProofs` | proofs about `RingConnect` for every N and every set of graphs | |
| `NetMem` | memory objects and `register_umr` | `pcx_mem.cc` |
| `Queues` | creation and destruction of a graph's QPs and CQs, with failing calls; extends `NetMem` | `qps.cc` `cd_create_cq`, `create_management_qp`, `rc_qp_create`, `rc_qp_connect`, the destructors |
| `VerbCtx` | the context, used by several threads; extends `Queues` and is its specification | `verbs_ctx.cc` |
| `MCVerbCtx` | two threads, and one alone | |
| `VerbCtxProofs` | proofs about `VerbCtx` for any number of threads | |

### `RearmRing` and `UnrolledQueue`

`counter[b][t]` is the 32-bit index field of slot `t` in copy `b` of the block; only
the slots given to `tasks.add` have one (`Tasks`), the rest of an
instruction is the same in every copy and is left out.  `Base[t]` is what the
`cd_` call wrote and `Inc[t]` the increment it registered.  `pc` is where the host
is: in `fin`'s copy or loop, among the stores of a `rearm`, or between calls.
`Db` and `Rearm` are the application's calls, one `rearm` after each `db`, which is
the only use the ring's arithmetic allows.  Each `ArmTask` is one store, so the
device may run between any two.  `HwExec` executes an instruction as it stands in
the ring at that moment and records in `sent` the counter it carried; a wait that
has not been satisfied yet is a device that does not move, and safety has to hold
for any pace.  The device may also execute the first `RecvEnables` slots of round 0
once `finish` has rung `db(recv_enables)`, before any round is released.

`UnrolledQueue` has three variables, `round`, `slot` and `sent`, and no ring: slot `t`
of round `n` carries `(Base[t] + n * Inc[t]) % Word`.  `RearmRing` names the same
three variables, so the refinement mapping is the identity, and `KeepsPromise` says
that whatever the host does, the device executes the unrolled list.

The code does not say how far its caller may run ahead.  `Window` (rounds rung
and not yet polled) and `PollSlot` (how many instructions of a round precede the
polled completion) are therefore parameters, and

    Envelope == Window + (IF TailSafe THEN 0 ELSE 1) + PreArms < Dups

says for which of them the ring is safe.  `PreArms` is the number of blocks `fin`
arms ahead, `Dups - 3` for rings of three blocks and more and 0 for two.  `TailSafe`
says that no re-armed instruction follows the polled completion.  Read out:

* four blocks or more: one round at a time is always safe, two rounds only if the
  round's last re-armed instruction precedes the polled completion;
* two blocks: one round at a time, and only with that condition;
* one block: never.  `sq.wqe_cnt` is at least three times what was asked for, so the
  ring has two blocks or more and the unsigned `1 - 2` of `fin`'s bound,
  which would arm four billion blocks, is not reached.

The condition is tight: TLC finds `RungArmed` violated for four blocks with
`Window = 2` and a late task, for two blocks with a late task, and for one block.

### `CqPoll`

`entry[s]` is the `op_own` byte of slot `s`: an opcode that is invalid or not,
and the owner bit.  `poll` reads the byte twice, once for the opcode and once for
the owner, and so it is two actions with the device in between.  `pollCnt` wraps at
`Word`; the owner bit expected is `Lap(pollCnt)`.  The device writes the
completions of the released rounds in order and never looks at what was polled.
`Pace` is what the application must observe for no awaited entry to be overwritten:

    Pace == (Window - 1) * Cqes < CqeCnt

`NoFalseCompletion` holds without it: an early return is impossible at any pace, a
lost completion is possible beyond it (TLC finds it for 4 entries, 4 completions a
round and two rounds ahead).  `Cqes = 0` is outside the model: a graph whose polled
queue has no completion would poll the entry before the first.
The run reads `CqPoll` itself: its constants are numbers and need no MC module.

### `CommGraph`

`stage` follows the life of a graph: `build` (constructors and operations), `init`,
`drain`, `fin` (the three loops of `finish`, `cursor` and `drained` being their
iterators), then `ready`, or `trapped` where the division by a zero `wqe_count` kills the
process.  `wqeCount`, `cqeCount`, `scqeCount` are the counts of the calls; `ctx[q]`
holds the counts of the drain (`written`, `cmpl`, `scmpl`) and the sizes computed from
the former; `prog[q]` is what has been written into block 0.  One action per kind of
operation; those of `LoopbackQp`, `RcQp` and `DoublingQp` differ in whose completion
they count, which is the point of the model.  Addresses, keys, reduction operands and
the `SendCredit` payload are left out: no count or index depends on them.

The properties do not compare the two passes with each other only: `CqCqes` and
`Signals` derive from the instruction list how many completions the device
produces, and waits are judged against that.  All ranks run the same list, so the
writes of this rank's queue stand for those that arrive on its pair.

`SqSlots` is the provider's answer to a request for `n` WQEs, a power of two not below
`3n` (`qps.cc` asks for `n`, the driver works in units of 64 bytes and a WQE of the
attributes `qps.cc` asks for takes three).  It is external; `GraphShape` only
assumes that it is at least `n`, the run uses the exact one.  `GivesTwice`, an even number
not below `2n`, is what the theorems on the layout need of it.

The request goes through a 16-bit parameter (`send_wq_size`), so the provider is asked
for `n % Word`; `Granted` is what it gives and `Fits` says whether the queue holds what was counted.
A queue that does not is `trapped` as well: the constructor of `qp_ctx` returns
early and leaves a context whose fields nobody has set.

### `Collective` and `GraphRun`

`Collective` is what the author of a graph may rely on.  It has his list of calls and,
for every rank, how often `db` was called (`called`), in how many rounds each operation
was done (`done`) and how many rounds have ended (`ended`).  There are no queues, no indices and
no counters: `Do(r, i)` may happen when, in the round at hand, all waits written before
operation `i` are satisfied, and a wait is satisfied by *all* the operations before it
in the list that it can stand for (`Arriving`, `Leaving`), at the other end and in the same round.

`GraphRun` has what the hardware has.  `CommGraph` compiles the graph once, for all ranks
(they run the same code); then each rank has

* `rounds`, the doorbells of `db`; `live`, whether `finish` has rung the receive enables;
* `step`, the instructions its management queue has executed;
* `released` and `receives`, the indices that `send_enable` and `recv_enable` have stored;
* `sent` and `signalled`, the WQEs each data queue has executed and the completions
  of its own that have come back.

`HwSend` executes the next WQE of a data queue if it is released and the other end has
a receive; it arrives with that step.  `HwAck` is later and separate, so a send's
completion and what it caused at the other end may be seen in either order.
`HwWait` compares the counter of the instruction with a count of completions and knows nothing
of rounds or of whose completions they are.  That is the point: `AsWritten` states that
this implements `Collective`, under the mapping `AuthorView`, in which `done` is
read off `sent` (`Done`, `Times`) and `ended` off `step` (`RoundsEnded`).

`Block(q)` are the instructions of a queue without the padding, and the device is taken to repeat
them for ever: the padding consists of NOPs behind the last instruction, which change nothing a rank can see.
`ScriptsAim` says of the author's lists that none waits for the sends of a `DoublingQp`, the
case of `graph_doubling`.  The theorems ask it of him; the run's scripts meet it (`Premises`).

Three things are taken from other modules instead of being modelled again.  The device walks an unrolled
queue (`RearmRing` implements `UnrolledQueue`, within its `Envelope`); the QPs of
different ranks are connected as `Far` and `Pair` say (`RingConnect`); the application sees the end of
a round when it is there (`CqPoll`).

The scripts of `MCGraphRun` are the author's lists of calls: a ring step with credits,
a reduction that reuses a buffer after `wait_send`, and a doubling step between two
copies to the rank's own memory.  They are well-formed in that every wait has something to wait for on the other
rank; for a list that has not, both specifications stop at that wait.

### `RingConnect`

A thread is a pair of a rank and a graph: the graphs with the same name on all ranks
are the parts of one collective, and each process builds each of its graphs in
a thread of its own.  `holder[r]` is the thread that has `ctx->mtx` in process `r`; `pc`
follows `finish` through `init` of one QP after the other, `leg` counts the QPs.
Each place where another thread or process can come between is a step: the constructor's
lock, the unlock and call of `exchange`, its return, the lock after it, and
the same again for the barrier.  What is between two such places (creating CQs and QP,
connecting, making the `qp_ctx`) is part of the step that follows or precedes
it.  `exchange` and `barrier` are one function of the application, called with a peer
and a tag (the barrier's is `tag + 0xf000`): a blocking send and receive, modelled as
a send at the call and a receive at the return, over one queue for each sender,
receiver and tag.  Sending does not block
on its own: `exchange` is taken to send and receive at once, as `MPI_Sendrecv` does.  An address is the name of the QP it belongs to.

`Throw` is any failing verbs call.  The exception leaves `finish()` with the mutex locked,
so the thread's `holder` stays what it was.

Two assumptions on the caller are named in the module and cited by the theorems:
`TagsApart`, that no tag is given to two QPs and no tag lies `0xf000` above another;
and `Paired`, that a ring has an even number of ranks.  The second is tight: with three
ranks and `tag1 # tag2`, TLC finds a deadlock in which rank 2 and rank 0 wait for each other
under different tags, both being even.  (With `tag1 = tag2` three ranks do connect.)  One rank
alone would have to exchange with itself and is left out.

### `NetMem`, `Queues`, `VerbCtx`

The three make one specification, `VerbCtx!Spec`: a process whose threads take the
context, make and delete memory and graphs on it and give it back.

`pd` is what exists on the protection domain, the one thing all classes share: regions,
keys, the lists of long keys and QPs.  An object is known by its kind, its maker and a
number.  `mem[t]` are the objects a thread can still delete; what is on `pd` and in nobody's
hands has leaked.  `fails` counts the verbs calls that failed.  Any may, at any place, up to
`MaxFails`; each place where a constructor throws leaves what it had made, as the code does.
The calls of destructors may fail too.  No caller looks at what they return, so the object leaves
its thread's hands and what backs it stays.

`register_umr` is `MakeKey`, then `Post`, then `PollUmr`, with the device (`HwUmr`) and the other
threads in between: it takes no lock.  `umrSq` and `umrCq` are the queues all threads share.
The UMR QP has `max_send_wr = 1` (`verbs_ctx.cc:162`).  That slot is all that keeps threads apart: while
one thread's request is on its way another one's post is refused and `UMR_PostFailed` is
thrown, so a completion can only be the poller's own.  With two slots TLC
finds a key handed out before it is written (the mutant of `KeyReady`).  The refused
thread pays: its key stays on the protection domain, and the last `remInstance` throws from
`~VerbCtx`, a destructor, which ends the process.  No verbs call has failed then: that it
happened is noted in `refused` and not in `fails`.

`Queues` takes a graph from its constructor (`NewGraph`, which locks the mutex) through the constructors of its
QPs (`NewQp`) and their operations to `finish`.  Of the operations it keeps just whether a QP has
a WQE of its own (`busy`): the constructor of `qp_ctx` divides by their number (`dv_mgr.cc:96`), and a
data QP nobody operates on, or the management QP of a graph without data QPs, ends the process there (`Initiated`).
`finish` goes through the creation of the QPs call by call.  A QP that `ibv_exp_create_qp` refuses is
dereferenced (`NoQp`), a management QP that is refused INIT or RTS is used all the
same, a CQ that cannot ignore overrun is lost, and the destructors leave `ibscq`.
A graph may be deleted at any time.  If it was not finished, or threw in `finish`, the destructor
of the first QP that has no `ibqp` dereferences it (`qps.cc:42`, `DeleteUnmade`).  Its author may also just
drop it (`Abandon`); either way its constructor's lock is never given back.  `death` says what
the process died of.
`RingConnect` and `Queues` model the same `init` for different questions, the one the
handshake of all ranks, the other the verbs objects of one; only the unlocks of the mutex are in both.

`VerbCtx` numbers the contexts, so that a pointer to a deleted one differs from one to its successor.
`getInstance` reads the pointer it returns after the unlock: that is the step `GetReturns`.  A constructor
that throws leaves `iniMtx` locked and `safeFlag` set (`GetThrows`), and a thread
that calls afterwards waits for ever.  Threads call `remInstance` once for each
`getInstance` and let go of what they made first; everything else they choose freely.

## 3. Runs

| Run | Instance | What it shows |
|---|---|---|
| `ring_quad` | 4 blocks of 3 instructions, first and last re-armed, polled after the second, one round ahead | type invariant, the inductive invariant, every released instruction armed for its round, no live overwrite, refinement of `UnrolledQueue` with a tail behind the polled completion |
| `ring_ahead` | 4 blocks, both tasks before the polled completion, two rounds ahead | the refinement at the other corner of `Envelope` |
| `ring_half` | 2 blocks, one round ahead | the refinement in the smallest ring: `PreArms = 0` where the loop bound is 0 |
| `cq_poll` | 4 entries, 3 completions a round, count modulo 16, two rounds ahead | the owner bit, over several laps and three wraps of the count; liveness |
| `graph_ring` | a `RingPair`, every program of up to 8 queued instructions | the compiled queues mean what the author wrote |
| `graph_king` | a loopback and a doubling QP, constructed at any time, up to 8 instructions | waits aim and blocks tile also for the operations that count otherwise |
| `connect_pair` | 2 processes, each with a ring and a doubling graph in threads of their own | the mutex and the handshakes of two graphs between the same two ranks; both neighbours of the ring are the same rank, told apart by tags; verbs calls may throw |
| `connect_four` | 4 processes, a ring; verbs calls may throw | no waiting in a circle; ready means connected; no message left |
| `collective` | two ranks, three collectives, four rounds, up to three at once | refinement of `Collective`: the devices do what the author wrote, on every rank and in every round; every round ends |
| `verbs_life` | two threads, one with pipelined memory and keys, one with user memory, keys and graphs that are finished, deleted unfinished or dropped; one failing call | the context's life, the shared UMR queue, who owns what, what the process dies of; every call returns |
| `mqp_fault` | one thread that builds a graph | *violation*: a graph whose management QP never reached RTS is announced as ready |
| `graph_doubling` | a doubling QP | *violation*: `wait_send` on a QP that uses `DoublingQp::writeCmpl` never moves |

### Bounds

* `MaxRounds = 9` with counters modulo 8 (`Word`, 2^32 in the program): the ring is
  walked twice and every counter wraps, because `MCBase` starts next to the end of the
  word.
* `MaxRounds = 13` in `cq_poll`: 39 completions over 4 slots, with a count modulo 16:
  nine laps, two wraps.  `Cqes = 3` does not divide `CqeCnt = 4`, so the awaited slot visits
  every position with both owner bits.
* `MaxIns = 8`: a `RingPair` takes two receive enables and leaves six instructions, that
  is, three operations, or two with two waits: enough for a wait between two operations of
  each queue, and for a write on one side against a wait on the other.  `PadSize` is 2
  instead of 8, so that full pads and a rest both occur in such short blocks.
* `connect_pair` has the fewest processes and threads for which a mutex matters to a
  peer: a thread that held it while waiting would stop the other thread, and with it the other process.
  `connect_four` is the smallest even ring with two different neighbours, where a
  circle of waiting ranks can close.  Each thread runs to its end; there is no further bound.
* `Word` in `CommGraph` is 2^16 in the program.  It is 8 in `graph_ring`, so that a management queue of
  eight instructions is truncated to nothing and traps; `Finishes` claims the other ones.
  It is 64 in the other graph runs, where no program reaches it.
* `collective`: two ranks are enough for every relation between a rank and its neighbour,
  both neighbours being the same rank under different QPs, and a loopback QP adds one
  whose arrivals and sends share a CQ.  `Window = 3` lets ranks be up to three
  rounds apart, so that completions of a later round are there when the wait of an
  earlier one looks; `MaxRounds = 4` is one more than fit at once.  `MaxIns = 12` holds the longest script.
* `verbs_life`: two threads are the fewest that share.  `MaxVisits = 3` calls of `getInstance` in all
  let one thread come back while the other comes and goes, so that a context is deleted and
  made again.  `MaxFails = 1` puts one failure at every place (failures do not help
  each other: each only leaves more behind).  `MaxHeld = 2` memory objects or
  graphs of a thread at a time, of these one region and one key, and one allocation of device
  memory make every resource run out.  `MaxQps = 2` is the management QP and one data QP of either
  kind, each with or without operations; what a further data QP adds is the same calls once more.  `mqp_fault` needs one
  thread that comes once and builds one graph.
* Deadlock is checked in every run.  `Idle`, `Over` and `Rest` are the only stops, each
  guarded by the end of all work, in `RingConnect` and `VerbCtx` also by an exception or the end of
  the process, after which the others may well wait for ever (that is what the code does).

### Fairness

* `CqPoll`: weak fairness of the device (it completes what was released to it, the premise
  of an offloaded collective) and of `poll` (the application calls it in a loop until it
  returns 1).  None of `Ring`: the application need not start a round.
* `CommGraph`: weak fairness of the steps of `finish`, one call nothing interrupts in
  this model.  None of the author's own operations: he need not finish.
* `RingConnect`: weak fairness of each thread.  It is enough for the mutex because
  every thread locks it a bounded number of times; for `exchange` and `barrier` it says that a
  message sent is received.  None of `Throw`.  `EverybodyConnects` asks only that all graphs are built
  or something has thrown.
* `GraphRun`: weak fairness of the compilation (`Compile`, one call), and for every rank of
  `GoLive` and `Db` (a collective is called the same number of times by all ranks, the premise of
  any collective) and of `Device` (the device executes what is released to it).  None of `Author`.  One
  condition for all steps of a device suffices because each of its queues runs dry after
  finitely many steps unless the others move.
* `VerbCtx`: weak fairness of the UMR queue (`Device`) and of each thread while it is inside a call
  (`Inside`); none of what a thread chooses to do.  Weak fairness suffices for the mutexes
  because the visits and what is made in each are bounded; a bound this code's callers
  have in effect, since they take the context to set up a collective and not in a loop.
* `RearmRing` states safety only and has no fairness.

### Disagreement between code and intent

`PcxQp::writeCmpl` counts what the queue will complete; `DoublingQp::writeCmpl`
(`qps.cc:469`) posts a signalled write and counts no completion, although its drain counts
`scq`'s.  A `wait_send` on such a QP is armed with an increment of zero: it waits in round 0 and
never again.  The run `graph_doubling` exhibits it with four instructions.

`create_management_qp` turns a refused transition to INIT (`qps.cc:561`) or RTS (`qps.cc:610`)
into a return code that no caller looks at, and returns the QP.  `finish` announces the graph as
"READY!" (`qps.cc:38`) although its management queue cannot send.  The refused RTR in between throws, and
an exception for the case, `QpFailedRTS`, is declared (`qps.cc:491`).  The run `mqp_fault` shows it.

## 4. Proofs

Everything here holds for all values of the constants that satisfy the named
assumptions of the modules, in particular for `Word = 2^32`, any ring and any
number of rounds.

`RearmRingProofs`

* `TypeCorrect`: `Spec => []TypeOK`.
* `Invariance`: under `Envelope`, `Spec => []IInv`.
* `FetchesArmed`, `NothingLiveOverwritten`, `RingKeepsPromise`: under `Envelope`, the
  properties `RungArmed`, `NoLiveOverwrite` and `KeepsPromise` of the runs.

`RungArmed` is not inductive: it speaks of the blocks the device may be in, and says
nothing of the block a half-done `rearm` will produce or of the source it reads.  `IInv`
adds `Armed`, the last round any block is armed for, as a function of the program counter;
`ArmedInv` says that the `Dups` rounds up to `Armed` (one fewer while stores are under way)
are all in the ring with their own counters, and that the stores already done are
those of round `Armed + 1`; `HostInv` ties `phase` to `Armed % Dups`; `DeviceInv` bounds the
device by the doorbell and the application by the device.  That the block being
overwritten, `Armed + 1 - Dups`, is out of the device's reach is where `Envelope` is
used (`PendingInRing`), and that two rounds less than `Dups` apart lie in different blocks is
`DifferentBlocks` of `RingArith`.  The refinement needs `RungArmed` for `HwExec`; every other
step stutters or is `NextRound`.

`CqPollProofs`

* `Invariance`: `Spec => []IInv`, without any assumption on the pace.
* `PollNeverEarly`: `NoFalseCompletion`.
* `CompletionsStay`: under `Pace`, `CompletionStays`.

* `TypeCorrect`: `TypeOK`.

The argument is in `OwnerBitTells`: the entry looked at is either blank, whose owner bit is
that of no first-lap completion, or the completion with the largest number not above
`written - 1` in that slot; were the awaited one not yet written, that is the one a lap
earlier, whose bit differs.  That the expected bit survives the wrap of `poll_cnt` needs
`Word` to be a multiple of two laps (`WrappedCount`), which powers of two are.

`RingConnectProofs`

* `Invariance`: under `Paired` and `TagsApart`, `Spec => []IInv`.
* `OneThreadInside`, `ReadyIsConnected`, `RingIsClosed`, `WireIsEmptied`: the properties
  `MutexProtects`, `ReadyMeansConnected`, `RingCloses` and `NothingLeftOver`.
* `TypeCorrect`: `TypeOK`.

None of these is inductive, because what one thread receives depends on what another has sent.
`IInv` says it with how far the two ends of a connection have come: `Posted`, `Taken`,
`Joined` and `Met` are the four marks a thread passes with each QP.  `WireInv` says that a channel
holds a message just if one end has sent and the other not yet taken, and that nobody is
two marks ahead of his peer; `LinkInv` that a connected QP is connected to the QP of the same
index at the other end; `QuietInv` that channels no QP uses stay empty.  All of it rests on
`MeetsBack`, that peers name each other (for a ring this is parity, `Neighbours` and `N % 2 = 0`),
and on `ChannelsApart`, that two QPs never share a channel, which is where `TagsApart` is needed.

`CommGraphProofs`

* `Invariance`: `Spec => []IInv`.
* `TypeCorrect`, `WaitsAlwaysAim`, `EnablesAlwaysCover`: the properties `TypeOK`, `WaitsAim` and
  `EnablesCover`, for every program, every set of QPs and every answer of the provider.
* `SendWaitsAlwaysAim`: `SendWaitsAim` where no QP is a `DoublingQp`.  With one it is
  false, see above, and the hypothesis is where the proof shows why.

`WaitsAim` relates an index written in the drain to a list made by the calls and an increment
computed in between, so the invariant has to name a common source.  It is the instruction list `iq`:
`CountsInv` says that the counts of the calls are sums over it (`WqesOf`, `CqesOf`, `ScqesOf`), `CtxInv` that the
counters of a context are the same sums over the part already drained, and `ProgInv` that each
instruction in a queue carries the sum at its own position.  One lemma (`CountStep`)
says how a sum grows by an instruction; `OperationStep` and `PostDataStep` are the two places where
code has to agree with it.  `TypeOK` includes that a block is never overfilled (`RoomInBlock`: what has been written is
a part of what was counted) and that the rest to pad is not negative, which rests on `RoundedIs`, that
the rounding loop finds a divisor of the ring.  The assumption is `GraphShape`.

`CommBlockProofs`

* `Layout`: `Spec => [](IInv /\ BlockInv)`, the invariant of `CommGraphProofs` with one more part.
* `BlocksAreTiled`, `RingIsFed`: under `GivesTwice`, `Spec => [](Countable => BlockTiled)` and the same of
  `FeedsRing`.
* `RecvEnablesComeFirst`: `RecvEnablesFirst` where all QPs are constructed before the first operation
  (`~ LateQps`).

That a block is tiled when `finish` returns depends on every WQE written since the first call, and `TypeOK` only
bounds where each lies.  `BlockInv` says that in every state the WQEs of a queue are `Laid` one behind
the other from slot 0 to `written` (`TileInv`), that a queue `fin` is done with has been filled to the end of
its block (`EndInv`), which instruction of the list lies where (`PlaceInv`), and that `recv_enables` is the number of
receive enables among the calls, all of them in front if the author constructs first (`RecvInv`).
`PadsLaid` is the lemma about the padding loop, with its rest that may be empty; `TwoBlocks` that a ring of an
even number of slots, at least twice the count, is divided into two blocks or more.

The hypotheses.  `GivesTwice` is a fact of the driver and not of this code; the runs check that the
sizes they use have it (`Provider`, `Premises`).  `Countable` is the 16-bit parameter: a queue counted to
`Word` or more asks for something else than it needs.  Mostly it then traps, but the truncated request may by chance be given
enough for one block and not for two, and nothing promises a layout then.
A graph of a few thousand operations is far below that.

`GraphRunProofs`

* `RunInvariance`: under `~ LateQps` and `ScriptsAim`, `RunSpec => []RunInv`.
* `RunTypesCorrect`: under the same, `RunTypeOK`.
* `DoneAsWritten`: under the same, `RunSpec => AsWritten`, the refinement of `Collective`.  It is
  a safety statement, since `Collective!Spec` has no fairness, and holds for every set of scripts, every number of ranks and
  rounds, every window and any answer of the provider.

The argument goes from the list of calls to the devices in four steps.

1. *Order* (`OrderInv`).  The k-th instruction of a compiled queue is the k-th of the calls that belong to it
   (`Nr`).  With `WaitsAlwaysAim` and `EnablesAlwaysCover` this says of every instruction which call it came from
   and, of its index, how many calls that is (`Drained`, `Compiled`).
2. *Turns*.  A queue that has executed `n` instructions is in round `n \div Len(Block(q))`; what that means
   for the counts of completions is in `SignalledIs`, `SignalledGrows` and `SignalledWithin`.
3. *Waits* (`WaitInv`).  A wait that was passed in round `n` has `Seen`
   every operation it stands for, in that round and on the rank it comes from.  The step is `WaitSees`: the counter compared is
   the number of completions the list causes up to the wait, in round `n`, and what a CQ has counted is bounded
   by how far one queue has come, the one at the other end or the rank's own.  A loopback QP's CQ counts both what arrives and
   what was acknowledged, but its other end is itself, so both counts belong to the same queue.  This is
   where `SignalInv` is needed, that no completion comes for a WQE that was not executed.
4. *Steps*.  An instruction of the management queue ends a round or stutters (`CdView`); `HwSend` is the author's
   `Do`, whose guard is met because what is `released` stems from a `send_enable` of a round that was called
   (`EnableInv`, `ReleasedBy`), which stands behind all the waits in front of the operation
   (`ReleasedSees`, `SendView`); `Db` is the call (`LiveView`), the last step of `finish` the construction
   of the list (`QuietView`), and the rest stutters.

`RunTypeOK` needs all of this only for its last line, that a queue never counts more completions
than it has sent.  `ScriptsAim` is needed in step 3, where a `DoublingQp` counts no completion for its
own sends; `~ LateQps` for `finish` to release the receives of all QPs and nothing behind them, without which the
devices of a rank would start a round that nobody has called.

`VerbCtxProofs`

* `Invariance`: `Spec => []IInv`.
* `HoldersKeepContext`, `NeverTwoContexts`, `KeysAreReady`: the properties `HolderHasContext`,
  `OneContext` and `KeyReady`, for any finite set of threads (`ThreadsShape`), any number of
  visits, keys and failures.
* `Ownership`: `Spec => []OwnIInv`, on top of the former.
* `Types`, `AllAccounted`, `CausesOfDeath`: the properties `TypeOK`, `Accounted` and `DeathHasCause`, for any
  order of what the threads make, use, finish, drop and delete.

`CtxInv` says that `ref` is the number of threads counted in (`Counted`: those that return from `getInstance`,
hold the context or call `remInstance`), and that `iniMtx` is held from the last
`--ref` to the unlock; hence nobody is counted in while a context is deleted, and the pointer read
after the unlock is the one there is.  `UmrInv` says that the UMR queue holds at most one
request or completion, whose key is that of the one thread that polls, if any thread does, and of
nobody's object if that thread has given up (`UMR_PollFailed`).

`Accounted` is about all threads at once and is not inductive: an object that two threads
held could be deleted by the one and missed by the other.  `HoldInv` says it thread by thread, which is possible because an
object knows its maker: what exists and was made by `t` is what `t` can delete, each once,
and the CQs of a graph whose QP at hand has been created are in use by that QP (`own = {}`).
A new object is `Fresh`, so its number is no other's of that maker (`FreshIs`).  All this stops with the first
failed call or refused post, so it is claimed while the state is `Clean`; `GraphTypes` and `ErrorInv`
say that a graph in the state `failed` and an error on the UMR queue come from a failure.  `Accounted` counts the
receive CQs only: a send CQ is the one thing that a destructor leaves although nothing has failed.

`DeathInv` then follows.  `~VerbCtx` throws only if something is left on the protection domain, and
the last holder has let go of all he had, so the state was not `Clean`.  A `NULL` is dereferenced where a
call fails, or for a graph that is not completely made: such a graph was not finished, or `finish`
threw.  A division by zero is by the operations of the QP just created, which exists because
`GraphTypes` also says how far `finish` is (`Progress`: nothing is made before it is called, and at a
connection or barrier something is).
`DeviceInv` keeps the allocations in the device's memory within what was taken of it also after failures, when
some of it is lost for good.

Only model-checked: liveness, which rests on fairness and so on `ENABLED`: `EveryRoundSeen`, `Finishes`, `EverybodyConnects`,
`RoundsEnd` and `CallsReturn`.  Every other property of the passing runs is proved.  The
assumptions of the modules, `Provider` and `Premises` are evaluated on the instances of the runs,
which also stay within `Envelope`, `Pace`, `TagsApart` and `Paired`: no theorem speaks of nothing.

## 5. Not modelled

* `pad`, `dup`, `cd_wait_signal` and `cq_db` of `qp_ctx`: nothing in the repository calls
  them (`cq_db` also lacks its return statement).
* `udma_barrier.h` and the doorbell stores: that the stores before a doorbell are visible to
  the device when it acts on it is assumed.
* The scripts of `config/`: their effect, that the device executes a recycled WQE, is the
  premise of the ring.
* Two graphs constructed by the same thread before the first is finished: undefined, see above.
* The queue that a truncated size gives, and what a `qp_ctx` with unset fields then does: the model
  stops at `trapped`.
* What a `VerbCtx` constructor that throws leaves open in the kernel: no other context is made
  in that process.
* `RefMem` and `RemoteMem`, which copy an address and own nothing; the slots of `PipeMem`
  (`operator[]`, `next`), which are an index modulo its depth that graphs use while
  they are built.
* Data: addresses, keys, operands of reductions, the contents of the buffers.  `Collective` speaks of
  which operation is done when, not of what it writes.
* Device errors on the data queues: a completion in error stops the
  management queue for good and the code has no path for it.

## 6. Plan

In order of what they are worth:

1. One theorem across `CommGraph` and `RearmRing`: `FeedsRing` says that a compiled management queue has the shape the
   ring assumes; that the tasks `PostCd` adds are the ring's `Tasks` is still by inspection.
2. The slots of `PipeMem` against the rounds that are in flight.
3. `GraphRun` on four ranks with TLC, where the two neighbours of a rank differ (the theorem covers them, liveness does not).
