# Concurrent cores of the HPCC Platform in TLA+

HPCC Platform is a set of engines around a common runtime: Thor (batch jobs), Roxie (low-latency
queries), Dali (metadata), ESP (web services), the ECL compiler and the libraries under `system/`.
Most of it is sequential code about data. This development is about the parts that are protocols
between threads or processes, where a wrong step shows up as a query that hangs or a row that is
missing, days later:

* the **UDP transport** of Roxie (`src/roxie/udplib`), which carries the results of a query from the
  agents back to the server and reimplements, on datagrams, what TCP would give: permission to send,
  confirmation, resending and duplicate removal; with it the **collators** that put the packets
  together again for the query that waits;
* the **locks of Dali's data store** (SDS, `src/dali/base/dasds.cpp`), on which every process of a
  cluster relies for exclusion;
* the **task scheduler** of jlib (`src/system/jlib/jtask.*`), with its lock-free work-stealing stacks;
* the **reader-writer queue** of jlib (`src/system/jlib/jqueue.*`), the lock-free bounded queue
  between the strands of a Thor or Roxie activity.

File names without a path are files of these directories.

## 1. Inventory

### The parts, their state and their operations

| part | state | operations | what makes it correct |
|---|---|---|---|
| `PacketTracker` (udpsha.cpp 370-483) | `base`, `hwm`, a circular bitmap of `TRACKER_BITS` | `noteSeen`, `hasSeen`, `canRecord`, `hasGaps`, `lastSeen` | it says "seen" for exactly the packets that were handed on, through every wrap |
| `UdpResendList` (udptrs.cpp 97-190) | a circular array of packets and the times they were sent, `first`, `count` | `append`, `noteRead`, `firstTracked`, `canRecord`, `numActive` | a packet leaves it only when it is confirmed; no entry is overwritten |
| `UdpReceiverEntry` (udptrs.cpp 194-797): one destination on the sending side | output queues, `packetsQueued`, `requestExpiryTime`, `activeFlowSequence`, `activePermitSeq`, `timeouts`, resend list, sequence numbers | `pushData`, `requestToSendNew`, `resendRequestToSend`, `requestAcknowledged`, `notePermitReceived`, `sendData`, `sendDone`, `abort`, `removeData` | as long as something is queued or unconfirmed the destination is asked for a permit; the counter matches the queue |
| `CSendManager` threads (udptrs.cpp 799-1225) | `send_queue` of permits with the semaphore `free_space` | `send_resend_flow`, `send_receive_flow`, `send_data` | no permit is lost inside the process |
| `UdpSenderEntry` (udptrr.cpp 549-853): one source on the receiving side | `state`, `flowSeq`, `sendSeq`, `timeouts`, its `SendPermit`s, `packetsSeen` | `noteRequest`, `noteDone`, `acknowledgeRequest`, `grantPermit`, `sendPermitToSend`, `decPermit`, `updateNumReserved` | state, lists and permits agree |
| `receive_receive_flow` (udptrr.cpp 856-1240) | `pendingRequests`, `pendingPermits` | `doFlowRequest`, `checkPendingRequests` | no request and no permit is forgotten; what is granted fits the input queue |
| `receive_data` and the collator thread (udptrr.cpp 1241-1570) | `input_queue` | read a packet, redirect a flow message, pass packets to collators | each packet once, in spite of resends |
| collator and `PackageSequencer` (udpmsgpk.cpp) | sequencers of unfinished messages, a queue of results with an `InterruptableSemaphore` | `insert`, `collate`, `getNextResult`, `interrupt`, `detachCollator` | a message is complete exactly when all its packets are there; no buffer is leaked or released twice |
| `queue_t`, `simple_queue` (udpsha.hpp) | buffers with semaphores | push, pop, remove | no lost wakeup, no lost place |
| `CLock` and the connections of SDS (dasds.cpp) | holders with their modes, counters, `waiting`, a semaphore, `pending`; the table of connections | `lock`, `tryLock`, `changeMode`, `unlock`, `removePending`; connect, disconnect, forced unlock, ended session | modes never conflict, no wake-up is lost, no lock outlives its connection, no lock object dies in use |
| `TaskScheduler`, `CasTaskStack`, `CCompletionTask` (jtask) | a global queue, a stack per processor (start, end, slots), `processorsWaiting`, a semaphore; predecessors of the completion task | `enqueue`, `pushTask`, `popTask`, `stealTask`, `getNextTask`, `spawn`, `decAndWait`, destruction | every task runs once; whoever waits is woken |
| `ReaderWriterQueue` (jqueue.hpp) | one word (position, waiting readers and writers, items), slots with sequence numbers, two semaphores | `enqueue`, `dequeue`, `noteReaderStopped`, `noteWriterStopped`, `abort`, `reset` | items come once and in order; every thread ends |
| message packer, IP map, topology client, Aeron variant, simulator | - | - | not modelled |

Everything else (the Roxie server and agents, the memory manager, the rest of jlib and of Dali, Thor,
ESP, the compiler) is listed in `PROJECT.json` with the reason why it is not modelled.

### How they interact

The transport:

    sender process                                              receiver process
    worker --pushData--> output queue                             input_queue --> collator thread
        \                    |                                       ^
         request_to_send     | send_data                             | receive_data
          \                  v                                       |
           \     packets + completion  ===== data socket =====>  PacketTracker
            \                                                        | flow messages are redirected
             ------- request_to_send ======= flow socket =====>  flow thread
    send_receive_flow <===== ok_to_send (max_data, copy of the tracker) ====  grantPermit
        |                                                            ^ expired permits
        v send_queue                                                 |
    send_data --noteRead--> UdpResendList                        pendingRequests, pendingPermits
    send_resend_flow: repeats a request that got no permit

A sender with something to send writes `request_to_send` under a new flow sequence number. The
receiver acknowledges it, and later grants a permit (`ok_to_send`) for a number of packets; with it
travels a copy of its tracker. The sender releases what that copy confirms, resends what is missing,
sends new packets, and then either reports `send_completed` or, when anything remains, asks for more.
Completions travel on the data socket, behind the data, and the data thread hands them to the flow
thread. Every message may be lost, and flow messages may overtake each other.

`input_queue` is where the collators begin: the collator thread pops a buffer, looks up the collator
of its query, inserts the packet in the sequencer of its message and, when the message is complete,
queues it and signals the query.

In SDS every client request is served by a thread of its own. A connect holds `connectCrit` and
`dataRWLock` (for reading) around `CLock::lock`, which gives both up while it sleeps; a disconnect
holds `dataRWLock`, for writing if it deletes the node; an ended session aborts connects that are
still under way. In the task scheduler the client, the processors and the destructor share the queue
and the stacks; a processor owns the `end` of its stack, any other may steal at its `start`. In the
reader-writer queue writers and readers share one word, and a thread that claims a slot in it fills or
empties the slot afterwards.

### What is hard

* **Threads.** In one sender the workers, `send_data`, `send_receive_flow`, `send_resend_flow` and
  aborts share the queue, its counter and the state of the request; only some of it is under
  `activeCrit`. In the receiver the data thread decrements permits that the flow thread adds up.
* **Messages.** Requests, permits, completions and packets are lost, late, repeated or out of order,
  and two permits of one sender may be out at once.
* **Wraps.** Packet and flow sequence numbers wrap, and so does the bitmap, in much shorter laps.
* **Timeouts** of requests and permits race with the messages they stand in for.
* **Limits.** Resend window, input queue, permits per sender and the permit queue fill up.
* **Restarts.** A sender starts again from sequence number 0 with a receiver that remembers it.
* **Sleeping and waking.** All four libraries count who sleeps and signal as many; a timeout, an
  abort or an interrupt between the count and the sleep must lose neither.
* **Lock-free updates.** A compare-and-exchange may succeed on a value that has come round again
  (ABA), and the slot it claims is used later than it was claimed.
* **Locks given up on the way.** `changeToWrite`, and a connect that sleeps, come back to a state
  that others have changed.

`PROJECT.json` lists these under "hazards", each at its line, with the properties aimed at it.

## 2. The modules

| module | models | built on |
|---|---|---|
| `SequenceNumbers` | sequence numbers that wrap (`int` and `unsigned` differences), and the next flow sequence number | |
| `PacketTracker` | class `PacketTracker` as operators on a record `[base, hwm, seen]` | `SequenceNumbers` |
| `UdpResendList` | class `UdpResendList` as operators on a record `[entries, first]`, and the limits `sendData` computes from it | `PacketTracker` |
| `UdpDataStream` | data from one sender to one receiver, for *any* permits | `UdpResendList` |
| `FlowReceiver` | **abstract**: what a receiver owes one sender | `SequenceNumbers`, `Subsequences` |
| `UdpReceiveFlow` | flow, data and collator thread of the receiver, several senders | `SequenceNumbers` |
| `UdpSendFlow` | the threads of the sender for one destination | `SequenceNumbers` |
| `UdpTransport` | both sides with flow messages, data and losses | `FlowReceiver`, `UdpResendList` |
| `PackageSequencer` | class `PackageSequencer` as operators on a record `[list, contiguous, tail, avail]`; `RESENT` is the flag above the packet numbers | |
| `MessageCollator` | `input_queue`, the collator thread, one query with its collator | `PackageSequencer` |
| `SDSLock` | the lock of one node of the store, and the connections to it | |
| `TaskScheduler` | client, completion task, processors and their stacks, destruction | |
| `ReaderWriterQueue` | readers, writers, abort and reset of one queue | |
| `Subsequences` | the part of a list that is kept, by its positions | |
| `UdpDataStream_proofs`, `UdpReceiveFlow_proofs`, `UdpSendFlow_proofs`, `UdpTransport_proofs`, `SDSLock_proofs`, `TaskScheduler_proofs`, `ReaderWriterQueue_proofs`, `MessageCollator_proofs` | theorems about the module of that name and its refinement | |
| `MC...` | instances for TLC and refinement mappings | |

The composition is by refinement, so that no run has to hold everything at once:

    UdpReceiveFlow  --implements-->  FlowReceiver  --is the receiver of-->  UdpTransport
                                                                               |
                                                              implements UdpDataStream

### Correspondence with the code

**`PacketTracker`, `UdpResendList`.** `seen` is the set of slots whose bit is set; `entries` is the
set of sequence numbers that have a buffer in the array (the slot is `seq % TRACKER_BITS`), and
`timeSent` is replaced by the set of entries that are due to be resent. The settings
`udpResendAllMissingPackets` and `udpAssumeSequential` are constants. `count` is the cardinality of
`entries`.

**`UdpDataStream`.** `UsePermit` is `sendData`; `Arrive` is one turn of `receive_data`. The n-th
packet carries `n % SeqSpace`; the code sees only that number, while the history variables
`delivered` and `twice` use `n`. A permit may be a copy of the tracker taken at any time since the
current request: the flow control is left open on purpose, and `UdpTransport` closes it. `permits` are
those for the current flow sequence number. `NewRequest` (`requestToSendNew`) takes a new one, and so
does a permit that is used while packets remain to be confirmed and the request is active (udptrs.cpp
317); both make the others out of date. After `GiveUp` (`abort`) the number stays, so a permit under it
is still used, and may be used again if it was sent twice: `UsePermit` then leaves the others in place.
`RestartSender` is a new process that meets a receiver which kept its entry; nothing of the old
process is in flight.

**`UdpReceiveFlow`.** The flow thread's `flowPc` walks through `doFlowRequest` ("read", "done",
"request") and `checkPendingRequests` ("expire", "sum", "grant"), cut where it touches what the data
thread shares with it: `numPackets` of a permit and the length of the input queue. `RevokeCompleted`
and `FinishDone` are `noteDone`; `ResendPermit` and `NoteRequest` are the two outcomes of
`noteRequest`; `ExpirePermit`, `SumReserved`, `ReadAvailable`, `GrantPermit` are the loops of
`checkPendingRequests`. The loop over requests steps to `finger->next` after `grantPermit` has
unlinked `finger`, so it ends after its first grant; the model does the same. Senders are not
modelled: any message with any flow sequence number may come at any time, which covers lost,
repeated, reordered and outdated ones. `reply` holds what the last step wrote.

**`UdpSendFlow`.** A worker is idle, or between `pushOwnWait` and `packetsQueued++` ("count"), or
about to call `requestToSendNew` ("request"). `send_receive_flow` pushes a permit and notes it in a
second step (`noting`), since the data thread may act on the permit in between. `send_data` takes a
permit, gathers packets one by one (each is popped in one step and uncounted in the next), writes
them and calls `sendDone`. `requestActive` is `requestExpiryTime # 0`. `critOwner` is the owner of
`activeCrit` where it is held over several steps. `aborter` and `removed` are a thread inside
`removeData`. The resend list is a count here.

**`UdpTransport`.** Handlers run to completion; sockets are sequences. A timeout of a request repeats it
(`ResendRequest`) or, if it is one too many, gives it up: `GiveUp` is `abort`, which ends the request
and empties the queues but keeps the copies of what was sent; `UsePermit` with `aborted` is an abort
"just before I got here" in `sendDone` (316). How many timeouts are too many (`maxRequestDeadTimeouts`)
is left open. `RemoveData` is `abortData` for an abandoned query. `givenUp` is a history variable: the
latest request was given up. `pushed - nextSendSequence` is `packetsQueued`. Both settings of
`udpAllowAsyncPermits` are covered: without it, `request_to_send_more` travels on the data socket;
with it, `send_completed` does and the next request takes the flow socket.

**`PackageSequencer`, `MessageCollator`.** A packet is its `pktSeq` with the flags
`UDP_PACKET_COMPLETE` and `UDP_PACKET_RESENT` above the number; `Inserted` is `insert`, with the fast
path at `tail` and the search from `lastContiguousPacket` as the code has them, and `avail` the tokens
of `dataAvailable`. `Pop` to `SignalResult` are the collator thread, cut at `cpc` where it lets go of a
critical section; `GetNextResult` to `ReleaseResult` are the query. A collator found by the collator
thread stays linked while it works on it, so that `DetachCollator` leaves its destruction to
`Unlinked`. One query is modelled: packets for others go to the collator that discards, or nowhere,
and in both cases are released.

**`SDSLock`.** `lock` has the fields of `CLock`. `pc` is a connecting or changing thread: it tries
("first"), sleeps ("wait"), wakes ("woken") or times out ("timedout", then "validate", which checks the
sessions of the holders without any lock), and has the lock and not yet its connection ("locked").
`conn` goes from "temp", where the end of the session aborts it, to "full". `dpc` is a disconnect: it
sets delete-on-last-release, unlocks, and, after `changeToWrite`, looks again ("recheck") or deletes
without looking ("delete"). `NobodyReading` stands for `dataRWLock` taken for writing.

**`TaskScheduler`.** `pc` of a processor goes through `getNextTask` ("check", "queue", "steal",
"get", "cas", "nothing", "sleep", "found"), the execution of a function with its spawns ("run",
"func", "push", "note"), the completion ("pred") and `popTask` ("pop", "popcas"). `cur` and `got` are
the pair and the slot a processor has read before its compare-and-exchange. "crashed" is a processor
that calls `execute` on no task (section 3).

**`ReaderWriterQueue`.** `state` is the word, as a record whose fields carry into each other as the
additions of the code do (`WithReader`, `WithWriter`). A thread tries, checks the active counts, adds
itself to the word ("park"), looks again ("wait") and sleeps; with a slot it waits for the slot's
sequence number ("slot"), copies ("store") and signals. `line` and `due` record the order in which
slots were claimed. `Reset` is `reset` followed by the draining of the queue that the junctions do,
once all threads have ended.

### Simplifications worth knowing

* Time: any timeout that can fire may fire at any moment. This allows more than the code does, so
  safety carries over.
* The three stores of `grantPermit` into a permit are one step. A decrement by the data thread in
  between has the effect of one before the grant, which the model has.
* `RequestExpired` reads its three atomics in one step; `requestAcknowledged` clears `timeouts` in
  the step that also takes `activeCrit`.
* One thread at a time is inside `removeData`. `packetsQueued` is unsigned in the code; in the model
  it may go below 0 for a moment, and `CounterExact` says that the updates in progress account for it.
* `DataRemaining` of `UdpSendFlow` leaves out `canRecord`: when it is false there are unconfirmed
  packets, and the test is true anyway.
* The permit a packet is counted against is left open: `UdpTransport` lets a permit that is sent again
  be for any number of packets, and `UdpReceiveFlow` gives a packet any number. `decPermit` is given `msgSeq` and compares it with `sendSeq`, two different
  numberings (see section 8).
* One output queue stands for `numQueues`; priorities, the token bucket and encryption are left out;
  so is operation without `udpResendLostPackets`.
* `UdpTransport` leaves out `send_start` and `decPermit`, which change what a permit reserves, and
  `request_received`, which restarts a timer. They are in the flow modules. What the first two change
  shows only in a repeated permit, the third in when a timeout comes; the model leaves both open.
* `SDSLock`: every connect takes `dataRWLock` for reading (one that may create nodes takes it for
  writing, and excludes more); `RTM_LOCK_SUB` is left out, since its count is never read; an
  identifier of a connection is used again once nothing is left of it; the sessions found dead by
  `validateConnectionSessions` end at any time instead.
* `TaskScheduler`, `ReaderWriterQueue`: atomics are sequentially consistent. A
  `compare_exchange_weak` that fails for no reason repeats the loop with the value it had: a stutter.
  Spins before a sleep are left out. `popTask` reads the slot together with the pair, because only
  the owner, who pops, writes slots. `spawn` is one step up to the store of the task: an exception of
  another function, or a theft, that comes in between has the effect of one just after. `FirstSeq` starts an instance where a long-used object would be.
* `MessageCollator`: time-outs and interrupts may come at any moment, memory may run out at any
  packet; contents and metadata are left out.

## 3. Properties and runs

Every passing run explores its whole state space, and every property of a passing run has a mutant
in `PROJECT.json`: a plausible slip in the code that makes the property fail. The mutated definitions
are the "faulty variants" in the modules. The type invariant of a module is a conjunct of
`TrackerExact`, `ConsistentFlow`, `ConsistentSend`, `TokensExact`, `NoSleepOnWork` or `WaitersCovered`
where it is not listed by itself.

| run | distinct states | question and answer |
|---|---|---|
| `data_stream` | 617 k | Packets, confirmations and resends with any permits, over a socket that loses, reorders and duplicates, with a sender that may restart or give its request up. While the socket has kept the order and the sender has not restarted: `ReleasedOnlyIfDelivered` (the sender drops its copy only of packets the collators got), `DeliveredOnce`, `TrackerExact` (base, hwm and bitmap are exactly what was delivered). Always: `WindowRespected` (neither the throw and assert of `append` nor the in-flight assert fires). |
| `receive_flow` | 894 k | One sender, two permits, arbitrary messages: `RequestListExact` (on `pendingRequests` iff the state is requested, once), `PermitListExact` (`pendingPermits` is exactly the active permits), `NumPermitsExact` (so `allocatePermit` never throws), and `ImplementsFlowReceiver`. |
| `receive_flow_two` | 183 k | Two senders that compete, and senders passed over by `canSendAny`: the proof's invariant `ConsistentFlow`, and `GrantsFitQueue` (reservations never exceed the queue when a grant is made). |
| `send_flow` | 2.3 M | Two workers, all threads, aborted queries, `abortAll`, requests that are given up: `CounterExact`, the proof's invariant `ConsistentSend`, and `NoStrandedUntilGivenUp`: packets never wait with no request, nor with one that will be neither answered nor repeated. |
| `transport` | 666 k | End to end, with a loss, overtaking flow messages, and a request given up or a query abandoned. `NothingForgotten`: what was sent and not delivered has a copy. `AsksUntilDone`: packets are queued only while a request is active, and packets are unconfirmed without one only after the sender has given up. `ImplementsDataStream`: the permits really issued are ones `UdpDataStream` allows. |
| `transport_live` | 99 k | With asynchronous permits: `AllDelivered`, every queued packet reaches the collators, unless it is removed unsent (by `abort` or for an abandoned query), or the sender has given up with packets unconfirmed and nothing has been queued since. |
| `collation` | 1.0 M | Packets in any order, repeated or resent, and a query that times out, is interrupted, runs out of memory or detaches. `SequencersExact`: sorted, and contiguous as far as can be. `ResultsReadable`: what the query gets is whole, and its cursor never blocks. `BuffersConserved`: each buffer is in one place, and released once. `TokensExact`: tokens match what they stand for. `EventuallyDelivered`: a message whose packets all came reaches the query. |
| `sds_lock` | 2.1 M | Three connections, one of which deletes the node as it leaves. `LockExact`: counters, table and modes agree, a writer is alone, also when a change of mode is refused and what it gave up is restored. `WaitersExact`, `NoSleeperOnFreeLock`: no wake-up is lost to a timeout. `LockInUseStays`: the lock object lives exactly as long as it is used. `NoDeadHolder`: nothing stays locked by a connection that is gone. `LastDeletesUnlocked`: the last to unlock deletes the node only if nobody locked it in the window. |
| `task_scheduler` | 452 k | Two processors push, pop and steal while the scheduler may be destroyed. `ExecutedOnce` (the ABA race the code warns of), `NothingLost`, `CompletesLast`, `NoSleepOnWork` (when there is work and a processor sleeps with no token on the way, some processor is awake that will look again), `ReturnsUnlessRefused` (`decAndWait` returns), `EventuallyJoined` (so does the destructor). |
| `rw_queue` | 605 k | Two readers and a writer, aborted or left by a reader at any point, then reset and used again: `DequeuesInOrder`, `SlotsExclusive`, `WaitersCovered`, `AllReceived`, `EventuallyDone`. |

`FlowReceiver` is reached through a refinement mapping (`EntryOf`): a `noteDone` that is half way
through its revocations counts as done from the moment its message is read. `UdpDataStream` is
reached by keeping the permits for the current request, and the data packets of the data socket.

In `rw_queue` there is one writer, so `SlotsExclusive` is checked there between readers and between a
reader and the writer; several writers are covered by its proof.

### Where the code does not do what it says

Two runs end in a violation on purpose. Each checks one sentence of a comment in the source, quoted
under "findings" in `PROJECT.json`.

| run | line | what the trace shows |
|---|---|---|
| `sds_delete_race` | dasds.cpp:7884 | A connection that deletes on disconnect and holds no lock does not make the second check: the node is removed under the lock another connection took in the window (`DeletedOnlyUnlocked`). |
| `rw_queue_reset` | jqueue.hpp:282 | The word keeps the count of a reader that was told that all writers had stopped. `reset` does not clear it, and with the one bit of a single reader the next wait carries into the position (`NeverOverflows`). The reader then sleeps for ever: `EventuallyDone` fails with `ReaderLimit = 2`. |

More can be seen by changing a configuration, or by reading the models:

* The premise `Orderly` of `ReleasedOnlyIfDelivered` and `DeliveredOnce` is needed. Checking
  `ConfirmedAreDelivered` in its place shows that after a restart the old tracker confirms packets of
  the new process that were lost (udpsha.cpp:462), and that an original packet that arrives after its
  own resend and after the window has moved is taken for a restart (udpsha.cpp:428): base moves back,
  then jumps past a packet that never arrived.
* `NoStrandedPackets` without the premise of `NoStrandedUntilGivenUp` fails: a push that counts its
  packet between the two steps of `removeData` (udptrs.cpp:643) leaves it queued with no request.
* `StalePermits = TRUE` in `UdpSendFlow.cfg` refutes `NoStrandedUntilGivenUp`. `notePermitReceived`
  (udptrs.cpp:417) compares `activePermitSeq` with `activeFlowSequence` and does not look at the
  permit. The test is false once a request is active, so that `activePermitSeq` is never set for it
  and requests are repeated while a permit waits; before the first request both are 0, and a permit
  for an earlier process is noted, which later stops the request of that number from being repeated.
* `checkPendingRequests` follows `next` of an entry it has just unlinked (udptrr.cpp:1115) and ends
  after one grant, although "Aim is to issue enough permits to use all available the space" (1104).
* A sender that gives up (udptrs.cpp:397) keeps copies of what it has sent and does not ask for their
  confirmation any more: they are resent only when something else is queued for the same receiver. The
  last disjunct of `AllDelivered` says so, and TLC refutes it without.
* `pushOrModify` (udpsha.hpp:154) takes a token of `free_space` before it finds that a duplicate
  permit "didn't need to [be added] to the queue" (udptrs.cpp:1078): the place is lost for good.
* `sendPermitToSend` writes the `flowSeq` of the sender entry (udptrr.cpp:702), also when `noteRequest`
  sends an older permit again; and `noteRequest` does not "ignore requests with a lower flow id"
  (udptrr.cpp:133): a late request becomes the current one (653). Both only cost time, because
  requests are repeated and permits expire: `UdpTransport` has both, and `NothingForgotten` and
  `AllDelivered` hold there.
* A packet dropped because the memory pool is exhausted (udpmsgpk.cpp:575) has been recorded by the
  tracker, so it is never sent again; `EventuallyDelivered` excuses its message.
* A task refused by a full stack (jtask.cpp:122) has already been counted as a predecessor
  (jtask.hpp:184): `decAndWait` waits for ever. `ReturnsUnlessRefused` excuses it.
* `~TaskScheduler` sets `aborting` before it tells the processors to stop (jtask.cpp:530): one may
  leave `getNextTask` with no task in between and call `execute` on it. The model stops there
  ("crashed"), and the properties speak of every other interleaving.
* The loop of a processor executes a task whose `execute` throws once more (jtask.cpp:395). The
  functions of a completion task catch their exceptions, so that the model does not meet it.

## 4. Bounds, and why they are enough

* `SeqSpace` stands for 2^32. What the code depends on is that half of it exceeds the window, and that
  the window divides it; both are assumptions of `PacketTracker`. `UdpDataStream` asks for four windows: a
  permit that still counts after a request was given up may be two windows old. `data_stream` uses 8
  with a window of 2 and sends 10 packets: five laps of the bitmap, one of the sequence numbers, with one
  packet out of order or duplicated, or one restart (`MaxFaults`). The flow modules use 4 (and 2 with two senders), so flow sequence
  numbers wrap all the time.
* `MaxWire`, `MaxFlowMsgs`, `MaxPermits` bound what is in the network. Two permits are enough for one to
  be stale, two flow messages for one to overtake the other.
* `receive_flow`: a queue of 2, permits of 1 slot and 2 permits per sender, so that all permits can be
  out, the queue full, and `numPackets` negative (`MaxOverrun = 1`). `MaxStart` bounds the number in a
  `send_start`, above that of a grant: the sender may report more packets than it was granted, and the
  reservation "could go up" (udptrr.cpp:1020).
* `send_flow`: two workers are what it takes for one to see the other's packet in the counter; an output
  queue of 2 and a permit queue of 1 are reached often. A permit is not merged into a queue of 1; the
  proof has every size.
* `transport`: two packets, a permit of one packet, one loss, one request given up or query abandoned
  (`MaxAborts`), two messages on each flow socket, in any order. `MaxFlow` stops the flow sequence numbers
  at 2; `transport_live` has no such bound (`MaxFlow =
  SeqSpace - 1`), but one message at a time on each flow socket.
* `collation`: `RESENT = 4`, so that packets have two bits for their number; a message of three packets,
  so that a gap in the middle and one at the end both occur, and one of a single packet; four arrivals,
  so that the long message can complete with a repeated packet or beside the other one; one buffer
  waiting for the collator thread.
* `sds_lock`: three connections, so that a reader, a writer and a third that comes in the window meet.
  The numbers of connections and of operations are not bounded otherwise.
* `task_scheduler`: two processors; a root spawns two tasks, one of which spawns another, on a stack of
  one slot, so that every push reuses the slot a thief may be reading; `SeqSpace` 4 from 3, so that
  start and end wrap. `TasksAssumption` says that every spawn makes a task of its own, and that fewer
  tasks are pushed than there are numbers: a thief that sleeps between its read and its
  compare-and-exchange while 2^32 tasks pass is outside the model.
* `rw_queue`: an item and two slots, so that the queue is full and empty by turns; positions wrap after
  8, from 6; three items, then two after the reset; one abort or early stop. `QueueAssumption` has the
  relation of the code's widths (`sequenceBits = writerBits + maxSlotBits`) as `NumSlots * WriterLimit
  <= SeqSpace`: with fewer positions a writer that lags a lap behind would take another's sequence
  number for its own.
* `CHECK_DEADLOCK FALSE` appears where the system rightly stops: everything confirmed (`UdpTransport`),
  the query gone and all packets in (`MessageCollator`), all threads ended (`TaskScheduler`,
  `ReaderWriterQueue`, the crashed processor included), and in `SDSLock`, where a deleted node accepts
  no more requests.
* Workers are interchangeable, and so are the connections that do not delete: `UdpSendFlow` and
  `SDSLock` are checked up to their permutations. No symmetry is used with a liveness property.

## 5. Fairness

`AllDelivered` assumes what the threads' loops do: they read their sockets (`DataArrives`,
`FlowArrives`, `PermitArrives`, `RedirectFlowMsg`), `send_resend_flow` repeats an expired request
(`ResendRequest`), and the flow thread expires and grants permits (`ExpirePermit`, `GrantPermit`). A
step that writes to a socket is disabled in the model while that socket is at its bound; the code has
no such bound, and strong instead of weak fairness makes up for it. Nothing is assumed about packets
being queued, removed or given up (`PushData`, `RemoveData`, `GiveUp`), and losses are finitely many
(`MaxLosses`): with unlimited losses nothing can be promised. `ExpirePermit` and giving up at the
receiver may happen at any time.

`EventuallyDelivered` assumes that the receiving and the collator thread go on with what they have
begun, and that a query asks for results until it is stopped. `ReturnsUnlessRefused` and
`EventuallyJoined` assume that the client and each processor take a step when they can, and that a
destructor that has begun goes on; `EventuallyDone` assumes it of each reader, each writer and a thread
that aborts. All of this is weak fairness per thread, which a preemptive scheduler gives. Nothing is
assumed about arrivals, time-outs, interrupts, aborts or the start of a destruction.

## 6. What is proved

TLAPS proves, for every value of the constants that satisfies the named assumptions:

| module | results | for any |
|---|---|---|
| `UdpDataStream_proofs` | always `WindowRespected` and the types; while data packets stay in order, `TrackerExact`, `DeliveredOnce`, `ReleasedOnlyIfDelivered` | size of the bitmap, range of sequence numbers, settings of the resend list, packets per permit, losses, reordering, duplicates, restarts and requests given up |
| `UdpReceiveFlow_proofs` | `ConsistentFlow`, and with it the types, `RequestListExact`, `PermitListExact`, `NumPermitsExact`; the action property `GrantsFitQueue`; the refinement `ImplementsFlowReceiver` | senders, permits per sender, limits, width of sequence numbers |
| `UdpSendFlow_proofs` | `ConsistentSend`, and with it the types and `CounterExact`, aborts and stale permits included; `NoStrandedUntilGivenUp` without stale permits | finite set of workers, queue sizes |
| `UdpTransport_proofs` | `NothingForgotten`, `AsksUntilDone`; the refinement `ImplementsDataStream` under the premise below | size of the bitmap, range of sequence numbers, settings (`udpAllowAsyncPermits`, `udpResendAllMissingPackets`, `udpAssumeSequential`), slots, losses, requests given up, queries abandoned, and flow messages that overtake each other or not |
| `SDSLock_proofs` | the types, `LockExact`, `WaitersExact`, `NoSleeperOnFreeLock`, `LockInUseStays`, `NoDeadHolder`; the action property `LastDeletesUnlocked` | finite set of connections, whichever of them delete |
| `TaskScheduler_proofs` | `ExecutedOnce`, `NothingLost`, `CompletesLast`, `NoSleepOnWork` | processors, tasks and what they spawn, size of the stacks, width of their numbers |
| `ReaderWriterQueue_proofs` | `DequeuesInOrder`, `SlotsExclusive`, `WaitersCovered`, `AllReceived`; `NeverOverflows` under the premise below | readers, writers, items, slots, widths of the fields, aborts and resets |
| `MessageCollator_proofs` | `SequencersExact`, `ResultsReadable`, `BuffersConserved`, `TokensExact` | messages, numbers of packets and of arrivals, size of `input_queue` |

Every one of these is also checked by a run, so that a reader can see it on a small instance. The
inductive invariants were checked by TLC before they were proved, those with unbounded positions in
their parts that TLC can evaluate. Each module of proofs stands alone: a theorem cannot be used through
`INSTANCE`, so the few general facts that two of them need (about remainders, about listing a finite
set of positions) are stated and proved in both.

**Assumptions.** `TrackerAssumption` says that the bitmap has a size that divides the range of sequence
numbers, and is less than half of it (both are powers of two in the code). `StreamAssumption` limits
`max_data` to the bitmap, as the constructor of the receiver does, and has four bitmaps fit in the range
of sequence numbers. `TransportAssumption` bounds the
packets of a behaviour by half the sequence numbers, so that in `UdpTransport` they do not wrap (that
they may is the subject of `UdpDataStream`). `SequenceAssumption`, `ReceiveFlowAssumption`,
`SendFlowAssumption`, `SDSLockAssumption`, `SchedulerAssumption` and `CollatorAssumption` say that sizes
are natural numbers, positive where the code needs it, and that threads, connections and messages are
finitely many. `SequencerAssumption` places the flag `RESENT` above the packet numbers. `NoneAssumption`
keeps the null pointer apart from real buffers and sequencers. `TasksAssumption` and `QueueAssumption`
are explained in section 4. TLC evaluates all of them in the runs. Some theorems have a premise of their
own: `NothingStranded` assumes `~StalePermits`, without which it is false (section 3), those of
`ReaderWriterQueue_proofs` assume `FieldsSuffice`, `ReceiverImplementsFlowReceiver` that there is a
sender, and `TransportImplementsStream` that flow sequence numbers do not come round (`MaxFlow <
SeqSpace - 1`, below).

**The data stream.** Every packet has an unbounded number, of which the code sees the remainder.
`Records(t, D, B)` says what a tracker stands for: the packets of `D` have been seen, `B` is the first
one missing, and none of `D` is further ahead than the bitmap reaches. From it `HasSeenExact` and
`RecordExact` give what `hasSeen` and `noteSeen` do for a packet no further than a bitmap from `B`; in
particular the loop that moves `base` stops at the first packet missing and clears just the bits it
passes. `Holds(l, next, K, F)` says the same of a resend list: it has copies of the packets of `K`, the
oldest is `F`, and from there to the next packet it is at most the bitmap. `NoteReadHolds`,
`AppendHolds`, `AppendNeverFails` and `LimitRespectsWindow` keep this true whatever the network does:
that is `WindowRespected`. The rest needs order. `WireOrdered` says how far a packet can be behind
another one sent before it, or behind one that has arrived (`Slack`): an original is the newest when it
is sent, a copy is in the window. Then nothing on the wire is outside of what the tracker can place, the
reset of `noteSeen` never happens, and a packet before `B` is a copy of one that was seen. `PermitSound`
says that the tracker in a permit that still counts shows only packets that were handed on, and is not
too far behind the sender to be compared with (`Lag`): one window while the request is active, because
`sendDone` asks under a new flow sequence number while packets are unconfirmed, and two after the request
was given up, because the permit in use at that moment may send another window under the old number, and
nothing more is sent under it afterwards. Together with "what is not in `K` has been handed on" (`StreamInOrder`) this is inductive.

**The receiver.** `RequestListExact`, `PermitListExact` and `NumPermitsExact` rest on each
other: an expiry unlinks the head of `pendingPermits`, which is a permit of its sender because the
list is exact; it puts the sender on `pendingRequests` only if the state says it is not there; and
`allocatePermit` finds a free permit only if `numPermits` counts the active ones. Two more conjuncts
make this inductive. `HandlersOK` says what the flow thread's locals are at each place of its loop (a
completion or a request in `msg` while it is handled). `FlowKnown` says that a sender on the request
list has a flow sequence number other than 0: a permit granted under 0 would be on the list and not
active. The lemmas `AppendNew`, `UnlinkAtRemoves`, `UnlinkRemoves` and `TailRemoves` say what the list
operations do to a list without repetitions. `GrantsFitQueue` needs `Scan`: what the flow thread has
added up is at least what the permits it has passed still reserve, because the data thread only lowers
reservations. Sums are cardinalities of sets of reserved slots, for which `RoomAdd` and `RoomShrinks`
give what a sum needs without recursion.

*`ImplementsFlowReceiver`.* What `FlowReceiver` sees of a sender is told by three things: its state,
its flow sequence number, and `Kept(pendingPermits, P)`, the list of active permits restricted to its
own. The lemmas `KeptUnlink`, `KeptTail`, `KeptAppend` and `KeptTwice` say how that restriction
commutes with each list operation, `ShownChange` and its companions how a permit shows its slots.
`PermitListExact` makes the restricted list the permits that `PermitsFor` and `CompletedIds` look for
in the table, and `NumPermitsExact` its length, on which both the grant and the state after an expiry
depend. `noteDone` takes effect for `FlowReceiver` when the message is read (`ReadStep`); the permits
it is about to revoke one by one are left out from then on, so that `RevokeStep` and `FinishStep` are
not seen, while the data thread may still count against a permit that is half revoked. `NextStep` is
for every sender; the theorem names one because a refinement needs one.

**The sender.** `CounterExact` is a balance that every thread keeps: what a worker, the
data thread or an abort has done to the queue and not yet to the counter is visible in its program
counter. `TypeOK` needs two more facts: `PermitsFit` (tokens and queued permits together never exceed
the permit queue, though tokens leak) and `WindowFits` (what is unconfirmed and what the permit in
hand still allows fit the resend list). `NoStrandedUntilGivenUp` follows from `Asked`: the counter,
which may be negative meanwhile, becomes positive only through the one worker that found it at 0 and
will make a request; and since a permit is noted only after a request, when `activePermitSeq` is 0 and
`activeFlowSequence` is not, the comparison in `notePermitReceived` is never true and requests go on
being repeated.

**The transport.** `NothingForgotten` is about the sender, and false as soon as a permit shows a packet
that did not arrive; so the invariant `Inv` follows the tracker through the network. `Records(t, D, B)`
is as in the data stream; `TrackedInv` says it of the receiver's tracker, `AllSound` of the copy in
every permit under way, for some part of what was delivered. `Window` is the resend list: all of it
between its oldest packet and the next one, at most a bitmap apart. `WireOrdered` says that an original
on the data socket is newer than all that was delivered or is before it: without it a packet could be
further ahead than the tracker can place. `AsksUntilDone` is part of `Inv` because `sendDone` decides by
it: `EndsWhenDone` says that a request ends in `sendDone` only if nothing is left to do or it was aborted,
`EndedIsEmpty` that a permit used after the end of the request sends nothing new, `ShrinkInv` that packets
may leave the queues unsent at any time (`GiveUp`, `RemoveData`). Neither needs the flow sequence numbers. A late permit of an earlier request is harmless because
what it shows is true, and `noteRead` releases nothing else.

*`ImplementsDataStream`.* The data stream allows permits whose tracker is a copy made since the current
request; in `UdpTransport` that is a permit under the current flow sequence number. `FlowNumbers` says
that no message or permit under way bears a number the sender has not reached, and that a
`request_to_send_more` bears an earlier one. So a new request makes all permits under way old, in both
specifications. This needs that numbers do not come round: if the sender had been through all
`SeqSpace - 1` of them while a permit of the first was still on its way, that permit would count as
current with an outdated tracker. Hence the premise; the code has 2^32 numbers. Its instance in run
`transport` has 2 of 7. A packet that arrives, a permit that is used, one that is granted and one that
is lost, a new request and one given up are steps of the stream; redirected and repeated flow messages
and packets removed unsent are not seen.

**The lock.** The invariant has three parts. `GoodLock` is about the lock object alone: counters
match the table of holders, a writer is alone, and nobody is counted as waiting on a free lock; each
operation of `CLock` has a lemma that it keeps this. `RefusedSame` is the lemma about a change of mode
that is refused: only readers' counters are restored, which is right because a writer is alone. `Waiters` and `InUse` relate it to the threads:
`waiting` plus the tokens of the semaphore is the number of threads asleep, `pending` that of threads
inside. A timeout is what makes this hard, since the sleeper is counted until it has the critical
section, and may have been given a token. After the node is deleted only `Waiters` with tokens for
everyone is left (`orphaned`). `ConnInv` is about connections: one that is being opened is alone, a
holder is known to someone who will release it. Counts are cardinalities; `CountChange` says what
the step of one thread does to them.

**The scheduler.** A stack's start and end wrap, so the proof counts them from where they began
(`Offset`); `Bounded` says that they are in order and that the pushes so far have not come around, and
`Thief` what a thief knows between its read and its compare-and-exchange: if the start is still the
one it read, the slot is still that task's. This is where the ABA race is excluded, and it needs that
pushes only happen at the end. `Placed` says that there is a map from tasks to places (new, queue, a
position of a stack, a processor, done) that agrees with all queues and stacks; a step moves one task in
it, which gives `ExecutedOnce` and `NothingLost`. `Predecessors` counts spawned and unfinished tasks.
`Covered` is behind `NoSleepOnWork`: once a waiting processor has looked at the queue, there are at
most as many tasks on it as tokens, signals under way and processors about to look.

**The queue.** `Positions` gives every claim an unbounded position, of which the code sees only the
remainder: writers and readers claim distinct positions, a slot shows the position it is for, and what
is not yet filled or emptied is claimed by a thread that will. The step that needs the widths is the
lemma `NeverSoFarBehind`: a slot cannot be a whole space of numbers behind, because the writers of all
laps between would all be waiting for it, and there are fewer than `WriterLimit`. `Counts` bounds the
fields of the word by the threads that are, or were, waiting, and `Ending` and `Accounted` give
`AllReceived`. The premise `FieldsSuffice` says that the fields hold every thread once *per use of the
queue*. It is needed because `reset` leaves waiting threads in the word; run `rw_queue_reset` breaks it
and shows the overflow, run `rw_queue` satisfies it. For a queue that is never reset it follows from
`QueueAssumption`, and the comment "This can never overflow" is then true (`CountsDoNotCarry`).

**The collator.** `Ordered` is the state of a sequencer between two insertions. The lemma about
`insert` says that a packet that is not discarded goes after all smaller and before all greater ones,
whether the place is found at the tail, at the head, from the last contiguous packet or by the full
search, and that the contiguous part then extends as far as it can. Since packets of a message are
numbered without a gap, it is complete exactly when the contiguous part has all of them (`Partial` in the
mapping, `Whole` on the queue). `Control` says who has a link to the collator, so that it is destroyed
once and not under the collator thread. `BuffersConserved` is a sum over the places a buffer can be in;
`Total` is again a cardinality, with lemmas for one argument more, one changed, one list shortened.

## 7. What is only model-checked

* Liveness (`AllDelivered`, `EventuallyDelivered`, `ReturnsUnlessRefused`, `EventuallyJoined`,
  `EventuallyDone`), which is outside what TLAPS 1.4.5 can do.
* The temporal part of the composition: that the transport goes on delivering when the abstract
  `FlowReceiver` in it is replaced by `UdpReceiveFlow`. The refinements proved are about safety.

Every invariant, action property and refinement of a passing run is proved.

## 8. What is not modelled

* The message packer, and how rows are copied out of packets: sequential work on buffers.
* Which permit a packet is counted against. `receive_data` calls `decPermit(hdr.msgSeq)` (udptrr.cpp
  1349), and `decPermit` compares that with a packet's `sendSeq`.
* Encryption. On a resend the length in the kept header is the encrypted one (udptrs.cpp 561).
* The comment at udptrr.cpp:1142 about a permit for 0 slots describes something the code below it
  does not do; the receiver model does not either.
* Two threads inside `removeData` at once (abortAll is not under `activeCrit`).
* Connections to several nodes, the tree itself with its deltas and backups, subscriptions and
  notifications of Dali; its sessions, its coven and the distributed file system.
* Sockets, buffers, statistics, tracing, the simulator, the Aeron transport, the topology client, the
  IP map; the Roxie server and memory manager; Thor, ESP and the compiler. The compiler, by far the
  largest part, is sequential: nothing in it is a matter of interleaving or failure.

## 9. Plan

Done: the transport from the tracker to the end-to-end composition; the collators; the SDS locks; the
task scheduler; the reader-writer queue; all safety properties and both refinements proved.

Two findings came from proofs. `FlowReceiver!AfterExpiry` was first written as a `CASE` whose guards
overlap; TLC takes the first that is true, but TLA+ leaves the choice open, and the proof of the
refinement did not go through until it said, like the code, which test comes first. And
`ImplementsDataStream` turned out to need the premise on flow sequence numbers, which the bounds
of the run satisfy silently.

Next, in this order:

1. `decPermit` with both numberings, and an encrypted packet that is resent.
2. Several threads in `removeData`; the waiters of `queue_t`.
3. The topology client and the IP map; the retry logic of `ccdqueue.cpp`.
4. The deltas of the Dali store with a crash between write and rename.
