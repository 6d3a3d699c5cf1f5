# UDM: a verification project

UDM sends one file over UDP. The server (`udmuser_srv.cpp`, direction TX) waits
for a Hello and sends the file in windows of capsules; the client
(`udmuser_cl.cpp`, direction RX) asks for it, writes each window to disk and
answers it with an OK. This directory holds TLA+ modules of the programs from
`main` to the end of the transfer, of the queue and of the thread pool they are
built on, the TLC configurations that check them and TLAPS proofs about them.

## The system

| Component | State | Operations | Interacts with |
|---|---|---|---|
| Session (`session.h`) | `next`, `complete`, `winSize`, `capsuleId`, `connections` | one handler per state and direction, `submitTask` | calls all the others from one thread |
| `rxcurrentWindow` (`session.h`) | `map<capid, memBuff*>` | filed by `receiveState`, read by `submitTask`, written and cleared by `doneState` | points into the receive queue |
| DataFactory (`datafactory.h`) | buffer queue, `fin`, `curSize`, `chunkSize`, the stream | `_inputFromSource`, `fetchChunk`, `makeChunkforRx` | Session, Compositor |
| Compositor (`presentation.h`) | none | `newBuffer`, `constructChunk`, writing a window | DataFactory |
| Gateway (`gateway.h`) | `peer_addr`, peer address list and count, a static rotation counter | `chunkWrite`, `send`, `pull`, `receive`, `selectAddrFromList` | the socket |
| PhyInterfaces (`gateway.h`) | own address list | count and list the interfaces, count again | Gateway, `setCapParams`, the kernel |
| threadsafe_queue (`circular_pipeline.hpp`) | linked list under two locks, `count` under either | `push`, `pushWithRef`, `try_pop`, `peek`, `isEmpty` | DataFactory, thread_pool |
| thread_pool (`worker_pool.hpp`) | work queue, `done`, threads | constructor, `submit`, `workdone`, destructor | Session (only `workdone`) |
| socket setup (`connection.h`, `userclass.h`) | the descriptor, the list of results | `resolve`, `fetch_addresses`, `udm_socket`, `udm_bind` | the kernel |
| programs (`udmuser_*.cpp`) | arguments | set everything up, run one session | all of the above |

One process is one thread: the pool starts no thread (a `break` precedes the
`push_back`) and the calls of `submit` are commented out. The concurrency is
between the two processes, the network and the kernel, and, once those lines are
put back, between the threads of the pool. What is hard: capsules arrive in any
order over several addresses, get lost (there is no timer and nothing is sent
again), arrive twice or come from a second client; handlers take whatever arrives
for what they expect; the window holds raw pointers into a queue that other code
pops; sizes meet the edges of a full capsule, of an `int` and of a 16-bit id; the
interfaces are counted several times while they may change; the two ends of the
queue have a lock each and share a counter; the destructor of the pool pops what
it seems to look at. `PROJECT.json` lists these
hazards at their lines, with the properties that cover them.

Correctness, per component:

* Session: both ends return; the client's file is the server's; at most one
  window is outstanding; both ends agree on the connection and on the window.
* DataFactory: chunks partition the file in order; FIN marks the last and only it.
* Window and queue: a pointer in the window refers to a chunk the queue still has.
* Gateway: an end rotates over exactly the peer's addresses without the loopback.
* PhyInterfaces: the addresses sent are the host's, or nearly so when an interface
  comes or goes meanwhile; the list fits its block.
* Queue: each call takes effect at one instant; no node is used after it is freed;
  every call returns.
* Pool: a task is run once; a wait saves the tasks from the destructor, which ends.
* Setup: a session starts only on an open, bound socket; a start gets as far as the
  wait for the peer, and a peer that speaks is answered.

## Modules

* `DataFactory` — the methods of the class as functions on its record. A chunk is
  its offset and length. `InputFromSource` keeps `curSize` as an `int` of
  `IntMax` and the comparison as `size_t`.
* `Gateway` (extends it) — peer lists as decoded by `SessionProcessor::process`,
  the rotation, sending and receiving. The network is the set of datagrams on
  their way to each end. `Lose`, `Duplicate` and the order of delivery are
  external and bounded by `MaxLost`, `MaxDup` and `Reorder`; an address in `Down`
  does not lead to the peer. `peer_addr` is whoever `recvfrom` heard last, and
  supplies the port of every later send. A second client is its Hello (`Stray`,
  at most `MaxStray`): what the server then sends to the stranger's port reaches
  no end of this session and counts as lost. The ports of the two clients differ.
* `Session` (extends it) — one action per handler and direction.
  `openStateTX` is `openState` for TX and so on; `closedState` is a loop and takes
  a step per `submitTask` (`closedStateTX`, `closedStateRX`) and one to leave
  (`closedStateExit`). The ways a process dies are actions: `bufferIsNull`
  (`fetchChunk`), `divideByZero` (`selectAddrFromList` with a count of 0) and
  `ioError`. A failed send of the client is only logged by the code, so it is a
  loss. `ses[d].proc` says how a process ended; `Returned(d)` is the exit of the
  loop in `start`.
* `FileTransfer` — the abstract specification of both ends together: the client's
  file only ever grows as a prefix of the server's, the client returns with all of
  it, the server after the client.
* `SessionRefinement` (extends `Session`) — the refinement mapping to `FileTransfer`:
  `received` is the sequence of bytes in `sink`, the flags are `Returned`.
  `MCSession` adds the constants for TLC.
* `ThreadsafeQueue` — one step per access that another thread can observe: the
  locks, the publication of `tail`, the load and the store of `count`, the move of
  `head`, the read of the unlinked node. The two writes to the last node are one step
  (`link`): they are made under `tail_mutex`, and a pop does not look at that node
  before `tail` has moved past it. A pointer is
  an index in `node`; a freed node stays there with `live` false. The two orders of
  `push` (count, publish) and `pushWithRef` (publish, count) are in `Route`.
* `FifoQueue` — the queue its callers rely on: every call is one atomic step between
  its start and its return. `peek` pops in it too, since it does in the code.
  `ThreadsafeQueue` maps to it with the chain of nodes from `head` to `tail`; a push
  takes effect at `publish`, a call that found the queue empty (and `isEmpty`) at
  `get_tail`, a pop at `moveHead`.
* `ThreadPool` — the owner (constructor, `submit`, the wait of `closedState`,
  destructor with its `peek` loop, the destruction of the members in reverse order)
  and the workers, on a queue whose calls are atomic, which is what
  `Linearizable` justifies. `breakLoop` is the `break` of the constructor's loop: it
  leaves the pool without a worker, which is the program as built. `startThread` and
  `startFails` are the lines behind the `break`; with them the same runs and theorems
  cover the pool its author has switched off. What the properties say of the program
  as built is what they say of behaviours without these two steps: tasks are kept
  until the destructor drops them, and the destructor ends.
* `PhyInterfaces` — every query of the kernel is a step of its own: growing the
  buffer, a reply, a failure. `phase` says for whom the number is asked. Between the
  list and the capsule the end waits in `recvfrom` for a Hello or the Hi
  (`heardPeer`, or `receiveFails`, which ends the program). The first `realloc` gets an
  uninitialised pointer, so it may abort.
* `SocketSetup` — both `main`s up to their session: arguments, `getaddrinfo`,
  the loop over `socket`, the loop over `bind`, the file. Every system call may
  fail. The default file name is copied to an uninitialised pointer: a crash or not.
* `Startup` (extends both) — an end from `main` to the capsule with its addresses.
* `SessionProofs`, `HandshakeProofs`, `TransferProofs`, `DuplicateProofs` (each
  extends the one before), `ThreadsafeQueueProofs`, `QueueRefinementProofs`,
  `ThreadPoolProofs`, `StartupProofs` — the theorems; see Proofs.

Mapping of state: `ses[d]` holds the fields of Session and SessionProcessor;
`conns[d]` the two entries of `connections` that are used; `txFactory`,
`rxFactory` the two factories of each process; `rxcurrentWindow[d]` the map, as
a set of buffers with at most one per `capid`; `hdrid[d]` counts allocated chunks
and gives every buffer an identity; `sink` is what the client has written.

## Runs

| Run | Checks | Instance |
|---|---|---|
| `ideal` | `WholeFileOnReturn`, `Termination`, `TransfersFile` (refinement of `FileTransfer`), no deadlock | in-order network, windows of 2, files of 1 to 6 capsules ending in a short one |
| `faulty` | `TypeOK`, `IntactPrefix`, `OneWindowOutstanding`, `FinOnlyOnLast`, `NoDangling`, `PeerListExact`, `HandshakeAgreed`, `NoStallWithoutFault`, `KeysInSendOrder`, `BacklogPerWindow`, `EndsWithLastByte` | reordering, 2 losses, an address that is down, failing calls, windows of 3 |
| `duplicates` | `NoDangling`, `NoStallWithoutFault`, `NoHole`, `EndsWithLastByte`, `RefinesUntilFault` (the steps of `FileTransfer`, up to the first fault of the network) | in-order network, 2 duplicates of any capsule, a second client, 1 loss, failing calls, windows of 2, sizes with an exact multiple |
| `queue` | `TypeOK`, `NoUseAfterFree`, `CountDrift`, `AllReturn`, `Linearizable` (refinement of `FifoQueue`) | 3 threads, any 4 calls |
| `pool` | `TaskOnce`, `NothingDroppedAfterWait`, `DestructorEnds` | 0, 1 and 2 workers, 3 tasks |
| `startup` | `ServesBound`, `HiExact`, `ListWithinAllocation`, `StartupProgress` | the wildcard address of one family or of both, descriptors 0 and 3, 0 and 2 interfaces, two changes |

Bounds. A full capsule carries 2 bytes (`CHUNK` 3, `HEADER_SPACE` 1), so a size is
a multiple of the payload or one more. The sizes of `faulty` include an exact
multiple (4), one window and more, two windows and more, and 15, beyond
`IntMax` = 13, where `curSize` wraps. Three interface lists put the loopback first,
in the middle and nowhere; `faulty` adds the list with nothing else. `CapMod` keeps
to the relation of the real constants, which `DataFactory` assumes
(`KeyAssumption`): the capsules of `IntMax` bytes and those of the handshake have
different ids, so that `KeysInSendOrder` holds because the file ends, by the wrap
of `curSize`, before the ids do. Two losses and two duplicates let two different
capsules be hit. Four calls of three threads let two pops meet a push, or a pop two
pushes and a test, with every loss of an update of `count`. Three tasks are more
than there are workers. Two interfaces need the buffer to grow twice; two changes
can come between any two queries, so that the size disagrees with the list and the
entries with the size. `Deadlock` is checked in `ideal`; in the other
sessions a process really may wait for ever, and queue, pool and start end.

What the runs show besides their properties: `count` of the queue may be off by
one for every push and every pop (`CountDrift` states the exact range; nobody reads
it). `workdone()` means that the queue is empty, not that the tasks have ended: a
worker may still be running the last one, and no property says otherwise.
`NothingDroppedAfterWait` needs its premise: an owner that destroys the pool with
tasks in the queue loses them to `peek`. `HiExact` is as strong as the code allows:
with an interface that comes or goes the capsule may have an entry that is no address,
but not more such entries than there were changes. `ServesBound` excepts descriptor 0,
which a server gets when it is started with its input closed: `udm_bind` takes it for
an error and main goes on with an unbound socket.

Fairness. In `Session` (`FairSpec`) it is weak fairness of each process: the
operating system runs a process that can run, and a `recvfrom` with a datagram
waiting returns. Nothing is assumed of the network; `ideal` has none of its faults.
In `ThreadsafeQueue` each thread inside a call is run; a mutex that is free again
and again might pass one thread by, but with a bound on the calls the others
finish. In `ThreadPool` the owner goes on with what it has begun, each worker is
run and a task returns; submitting, waiting and destroying are its choice. In
`Startup` the program is run until it waits for its peer, and again once the peer has
spoken; neither the peer is required to speak nor the kernel to fail an `ioctl`.

Six further runs end in a violation. Each states what a comment or a message of
the code says, and TLC shows how the code departs from it:

* `exact_multiple` — "FIN - Last Buffer of Last Window has been sent"
  (`datafactory.h:20`): with a file that is a multiple of 49138 bytes the last
  capsule has no FIN, the server exits with "Buffer is NULL" and the client waits.
* `fin_overtakes` — "OK - Window received was intact" (`datafactory.h:24`): a FIN
  that overtakes another capsule of its window makes the client write a file with
  a hole, send OK and return.
* `source_id` — "the srcid is generated for the first capsule that was sent"
  (`session.h:97`): it is stored at one index and read at the next, so it is 0.
* `loopback_only` — "remove the loopback address if the peer is not the host"
  (`session.h:180`): it is always removed; with no other address the next send
  divides by zero.
* `second_client` — "A Window sent on a connection must be ACKed on the same
  connection" (`session.h:474`): the server takes the Hello of a second client for
  the OK and goes on, while its own client does not have the window.
* `bind_retry` — "here we are binding the socket to the first address that is able
  to" (`connection.h:44`): after a failed `bind` the socket is closed and the next
  address is tried with the closed one. A server whose IPv4 port is taken exits
  although the wildcard address of IPv6 is free.

So `WholeFileOnReturn` and `Termination` are stated for the instance in which they
hold, `IntactPrefix` up to the arrival of a FIN, and `RefinesUntilFault` up to
the first fault of the network. `EndsWithLastByte` is what holds on every network:
a client that returns may miss something in the middle of the file, never its end.

## Proofs

A theorem holds for every value of the constants, from the assumptions the modules
name: positive sizes, `CHUNK <= IntMax`, a window size that fits its 4 bits,
interface lists of addresses, fewer capsules in `IntMax` bytes than values of
`capid`. Where a theorem of the session needs more, its statement says so:

* `Undisturbed` — so far no datagram has arrived twice and no second client has
  spoken. Loss, reordering, addresses that lead nowhere, failing calls and dying
  processes stay unrestricted. Without it those theorems are false, since any
  capsule is taken for the one that is awaited (`second_client`). With `MaxDup` and
  `MaxStray` 0, as in `ideal` and `faulty`, it always holds (lemma `PlainNetwork`).
* `LoopbackOnce` — no interface list has the loopback address twice:
  `SessionProcessor::process` lowers the count for each but shifts once.
* `~Reorder`: a FIN that overtakes makes a hole (`fin_overtakes`).

| Module | Theorem | States |
|---|---|---|
| `SessionProofs` | `TypeCorrect` | `Spec => []TypeOK` |
| | `FinCorrect` | `Spec => []FinOnlyOnLast` |
| | `WindowOwned` | `Spec => []NoDangling` |
| | `KeysOrdered` | `Spec => []KeysInSendOrder` |
| `HandshakeProofs` | `PeerListCorrect` | `Spec => [](Undisturbed => PeerListExact)`, given `LoopbackOnce` |
| `TransferProofs` | `PrefixIntact` | `Spec => [](Undisturbed => IntactPrefix)` |
| | `WindowBounded` | `Spec => [](Undisturbed => OneWindowOutstanding)` |
| | `HandshakeCorrect` | `Spec => [](Undisturbed => HandshakeAgreed)` |
| | `BacklogBounded` | `Spec => [](Undisturbed => BacklogPerWindow)` |
| | `WholeFile` | `Spec => [](lost = 0 /\ Undisturbed => WholeFileOnReturn)`, given `~Reorder` |
| | `TransferRefined` | `Spec => RefinesUntilFault`, given `~Reorder` |
| `DuplicateProofs` | `NeverStalls` | `Spec => []NoStallWithoutFault` |
| | `NothingSkipped` | `Spec => []NoHole`, given `~Reorder` |
| | `EndsComplete` | `Spec => []EndsWithLastByte` |
| `ThreadsafeQueueProofs` | `QueueTyped` | `FairSpec => []TypeOK` |
| | `QueueMemorySafe` | `FairSpec => []NoUseAfterFree` |
| `QueueRefinementProofs` | `CountBounded` | `FairSpec => []CountDrift` |
| | `QueueLinearizable` | `FairSpec => Linearizable`, the refinement of `FifoQueue` |
| `ThreadPoolProofs` | `TasksRunOnce` | `FairSpec => []TaskOnce` |
| | `WaitSavesTasks` | `FairSpec => []NothingDroppedAfterWait` |
| `StartupProofs` | `BoundToAble` | `FairSpec => []ServesBound` |
| | `ListFits` | `FairSpec => []ListWithinAllocation` |
| | `InterfacesSent` | `FairSpec => []HiExact` |

None of these invariants is inductive. The strengthenings, and why they are needed:

* Types of the session: `TypeInv` adds that a window is finite with one buffer per
  key (`WindowsKeyed`) and that the server's source is within the file with an
  empty buffer (`SourceOK`). That a window is written as a sequence of chunks needs
  `RankExists`: each position of the walk has a buffer. If position i had none, the
  ranks would map the n buffers into n - 1 places, two buffers would share a rank,
  and one's keys are a strict subset of the other's.
* FIN: `TypeInv` and the lemma `InputFromSourceOK`: a chunk ends where the stream is
  left, and `fin` comes with a chunk only at the end of the file. It includes the
  wrap of `curSize`, which sets `fin` too but leaves no chunk to put FIN on.
* Pointers of the window: `Owned`. The danger is `setupState`, which files a payload
  and pops it from the queue in the same call. `ShakingClean` says no payload can
  reach the client before it has sent its ACK: the addresses the server needs to
  send one come only with that ACK, and a server given an empty list by a repeated
  Hello dies on its first send.
* Keys: `KeyInv`. `SourceCount` ties the number of capsules sent to the read
  position, `AllStamped` a capsule's number to its key and its offset. A chunk is
  read only while `curSize` has not wrapped, so the position is at most `IntMax`, and
  `KeyAssumption` leaves a key for it. Duplicates and strangers do not matter.
* Handshake: `ShakeInv` lists the pairs of states the two ends can be in
  (`Greeting`), each with the one capsule that may be under way, and what each end
  has learnt. One capsule at a time is what an undisturbed network gives; `DecodeExact` is
  the arithmetic of the shifted list.
* Transfer: `TransferInv` says that the two ends are together in one of four
  situations. `Fresh`: no payload sent. `Filling`: a window is under way; what the
  client holds and what is on its way to it are different numbers between the
  length of its file and the last number sent. `Answered`: the window is written,
  the OK not read. `Finished`: the client has returned. The step that matters is from
  `Filling` to `Answered`: the client leaves its loop after `WIN_SIZ` payloads, their
  numbers are all different and lie among the `WIN_SIZ` numbers after the end of the
  file, so they are all of them (`CountInRange`, a counting argument), nothing can
  be left on the way, and sorting by key puts each at its place (`SortedWindow`,
  `WrittenSink`). `PrefixIntact`, `WindowBounded`, `BacklogBounded` and `WholeFile`
  are read off from `TransferInv`. So is `HandshakeCorrect`, which is about the whole
  transfer and not only the handshake: in a window the payloads sent are those the
  client holds and those under way, unless some were lost (`PayloadCount`), so both
  ends count down from the same size.
  `ShakeInv` and `TransferInv` are inductive while `Undisturbed` holds, which is
  never regained (`UndisturbedBefore`).
* Refinement of `FileTransfer`: from `TransferInv`, as long as nothing is lost,
  `PrefixWritten`: the bytes written are a prefix of the file, all of it once the
  client has returned. With it, `doneStateRX` is a `Receive` or the client's return,
  the server's reading of the last OK its own return, and every other step a stutter.
* No stall on any network: `BalanceInv`. Nothing can be said of which window the two
  ends are in, since a repeated capsule moves the server on; what is kept is a count.
  As long as nothing is lost, every slot the client has still to fill is matched by a
  datagram under way to it, by a slot of the server's window, or by some datagram
  under way to the server, which will give it another window (`SlotsCovered`). Once
  the source has ended, the payload with FIN is under way or has arrived, and a
  client that has returned leaves the server something to read (`FinComing`).
  `GreetingComing` is the same for the handshake.
* No hole with duplicates: `GaplessInv`. There are numbers lo <= s <= t such that the
  window holds exactly the payloads lo + 1 to t, the file ends with payload s, no
  payload under way is older than t, and every one after t that was sent is under
  way. A window written too early, too short or again then begins at or before the
  end of the file. In-order delivery is what makes the next payload t or t + 1.
* Last byte: `FinInv`. When the client has seen FIN, the payload that carries it is in
  its window until the window is written. FIN is looked for on the highest key only,
  and by `FinCorrect` it is only on a payload that ends the file; by `KeyInv` no other
  payload has a higher key, so it is written last (`LastWritten`).
* Queue: `QueueInv` describes the chain of nodes from `head` to `tail` as the live
  nodes in order of allocation, who holds which lock, and what each thread may
  assume at each access. `CountInv` adds how much each thread's pending load of
  `count` can lose. The refinement maps each step to a step of `FifoQueue` or to a
  stutter. The length of the chain is by induction, see below.
* Pool: `PoolInv` says that the queue holds the youngest tasks in the order of their
  submission and that every older one has one fate: it runs, has run once or was
  dropped (instead of the cardinalities of `TaskOnce`); `WaitedEmpty` that nothing is
  submitted after the wait.
* Start: `Serving` and `Discovered` say at each program point what the socket, the
  buffer and the counts are; `Agreed`, the part of `Discovered` that holds while no
  query has failed, that lengths asked for at different times differ by at most the
  number of changes (`Near`) and that the entries copied are those of the list.

Each of these was model-checked on the instances of the runs before it was proved.

Induction over data. The induction theorems of the library take an operator as a
parameter and cannot be used, but the existence of a least element of a set of
naturals can (`LeastNat`, from `WellFoundedInduction`). The facts about the
recursive function behind `Chain` are proved from it by a least counterexample. So
is what `FlattenSeq` makes of the chunks of the client's file (`WrittenPrefix`): it
chooses a function that satisfies the equation of its recursion, the function that
gives the prefixes of the file satisfies it, and there is no least place at which a
second solution could differ.

Only model-checked:

* liveness: `Termination`, `AllReturn`, `DestructorEnds`, `StartupProgress`
  (fairness is out of the prover's reach);
* `TransfersFile`, for the fairness in it; its safety part is `TransferRefined`.

Every invariant a passing run checks is also stated by a theorem.

tlapm resolves `@` wrongly when one EXCEPT is nested in another, so updates of a
record inside `ses` are operators of their own (`Numbered`, `SlotUsed`,
`LeaveDone`).

## Not modelled

* Code that is never reached: `connect2Addr`, `head_dataref` (not instantiated),
  `getCount`, `join_threads`, the unused states inq, send and recv, compression
  (empty), the classes of `userclass.h` with empty bodies.
* Logging and timing; `stdutil.h` and `stdutils.h` hold nothing else.
* I/O errors of the file, and a sink that could not be opened: the code looks at
  neither, so no property of the client's file could hold with them.
* Bodies of capsules, which are allocated and never freed; strings copied to
  blocks one byte too small for their terminator.
* What a second client does after its Hello, and two clients on the same port.
* Address families in the session: the peer's addresses are IPv4 strings.

## Plan

Done, in this order: the session with its gateway and factories, the queue and the
pool, the start of the programs; then the proofs of types, pointers, keys and
handshake, of the transfer on an undisturbed network, of queue, pool and start; then the
proofs for a network that also repeats datagrams and the refinement of
`FileTransfer`.

Left, and of use only if the code changes:

1. With timers and sending again (`Timer` in `gateway.h` is empty), `Lose` would no
   longer be an excuse in `NoStallWithoutFault`, and `BalanceInv` is the place to say
   what the timer restores.
2. With the calls of `submit` in `submitTask` put back, `Session` would run on the
   workers of `ThreadPool`: a composition of the two in place of the sequential
   `closedState`.
3. With a check of the sink's stream, its failure would be an action of `Session`.
