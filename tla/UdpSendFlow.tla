----------------------------- MODULE UdpSendFlow -----------------------------
(* The sending side of the flow control for one destination                   *)
(* (UdpReceiverEntry and the threads of CSendManager, udptrs.cpp):            *)
(*   - worker threads queue packets (pushData) and abort queries (abortData); *)
(*   - send_data acts on permits (sendData, sendDone);                        *)
(*   - send_resend_flow repeats a request that timed out, or gives up;        *)
(*   - send_receive_flow takes in acknowledgements and permits.               *)
(*                                                                            *)
(* The threads share packetsQueued, which is not updated together with the    *)
(* queue it counts, and the request under way (requestExpiryTime and          *)
(* activeFlowSequence), which the critical section activeCrit guards.  Each   *)
(* action is a stretch of one thread between accesses to what it shares.      *)
(* requestExpiryTime is abstracted to whether it is set; a request may be     *)
(* found expired at any time.  The resend list is abstracted to the number of *)
(* packets in it; any number of them may be confirmed by a permit, and any    *)
(* number of the rest may be due.  One thread at a time is inside removeData. *)
EXTENDS SequenceNumbers, Sequences, FiniteSets

CONSTANTS
    Workers,             \* the threads that queue packets
    QueueSize,           \* limit of the output queue
    PermitQueueSize,     \* size of the send_queue of permits
    MaxData,             \* the most packets one permit allows
    MaxDeadTimeouts,     \* maxRequestDeadTimeouts, 0 for no limit
    AllowAsyncPermits,   \* udpAllowAsyncPermits
    RemoveDuplicates,    \* udpRemoveDuplicatePermits
    CanAbort,            \* may abortAll() be called?
    IsLocal,             \* isLocal: the destination is this machine
    StalePermits,        \* may a permit come before the first request?
    MaxTimeouts,         \* bound: timeouts counted while there is no limit
    MaxUnacked           \* size of the resend list (TRACKER_BITS)

ASSUME SendFlowAssumption ==
    /\ IsFiniteSet(Workers)
    /\ {QueueSize, PermitQueueSize} \subseteq Nat \ {0}
    /\ {MaxData, MaxDeadTimeouts, MaxTimeouts, MaxUnacked} \subseteq Nat
    /\ MaxDeadTimeouts <= MaxTimeouts
    /\ {AllowAsyncPermits, RemoveDuplicates, CanAbort, IsLocal, StalePermits} \subseteq BOOLEAN

VARIABLES
    outputQueue,          \* packets in output_queue
    packetsQueued,        \* the atomic counter of them
    unacked,              \* packets in the resend list
    requestActive,        \* requestExpiryTime # 0
    activeFlowSequence,
    activePermitSeq,
    timeouts,
    sendQueue,            \* the permits waiting for send_data
    freeSpace,            \* tokens of the free_space semaphore of sendQueue
    noting,               \* flow sequence of a permit queued but not yet noted, or 0
    critOwner,            \* the thread inside activeCrit across several steps
    workerPc,             \* where each worker is
    dataPc,               \* where send_data is
    permit,               \* the permit it acts on, and what it still allows
    sending,              \* packets it is about to write
    resendPc,             \* where send_resend_flow is
    aborter,              \* who is inside removeData: "none", "query", "resend" or "all"
    removed,              \* packets it has removed but not yet subtracted
    written               \* the messages written by the last step

queueVars  == <<outputQueue, packetsQueued>>
requestVars == <<requestActive, activeFlowSequence, activePermitSeq, timeouts>>
permitVars == <<sendQueue, freeSpace, noting>>
dataVars   == <<dataPc, permit, sending, unacked>>
abortVars  == <<critOwner, resendPc, aborter, removed>>
vars == <<queueVars, requestVars, permitVars, dataVars, abortVars, workerPc, written>>

PermitMsg == [flowSeq : FlowSeq, max_data : 0 .. MaxData]
NoPermit  == [flowSeq |-> 0, max_data |-> 0]

\* A flow message written to the flow or to the data socket.
Message(cmd, f, socket) == [cmd |-> cmd, flowSeq |-> f, socket |-> socket]

Init ==
    /\ outputQueue = 0
    /\ packetsQueued = 0
    /\ unacked = 0
    /\ requestActive = FALSE
    /\ activeFlowSequence = 0
    /\ activePermitSeq = 0
    /\ timeouts = 0
    /\ sendQueue = <<>>
    /\ freeSpace = PermitQueueSize
    /\ noting = 0
    /\ critOwner = "none"
    /\ workerPc = [w \in Workers |-> "idle"]
    /\ dataPc = "wait"
    /\ permit = NoPermit
    /\ sending = 0
    /\ resendPc = "wait"
    /\ aborter = "none"
    /\ removed = 0
    /\ written = {}
-----------------------------------------------------------------------------
\* pushData, first step: pushOwnWait blocks while the queue is full.
PushOwnWait(w) ==
    /\ workerPc[w] = "idle"
    /\ outputQueue < QueueSize
    /\ outputQueue' = outputQueue + 1
    /\ workerPc' = [workerPc EXCEPT ![w] = "count"]
    /\ written' = {}
    /\ UNCHANGED <<packetsQueued, requestVars, permitVars, dataVars, abortVars>>

\* Faulty variant of CountPushed: only the first packet is counted.
CountFirst(w) ==
    /\ workerPc[w] = "count"
    /\ packetsQueued' = IF packetsQueued = 0 THEN 1 ELSE packetsQueued
    /\ workerPc' = [workerPc EXCEPT ![w] = IF packetsQueued = 0 THEN "request" ELSE "idle"]
    /\ written' = {}
    /\ UNCHANGED <<outputQueue, requestVars, permitVars, dataVars, abortVars>>

\* pushData, second step: if (!packetsQueued++).
CountPushed(w) ==
    /\ workerPc[w] = "count"
    /\ packetsQueued' = packetsQueued + 1
    /\ workerPc' = [workerPc EXCEPT ![w] = IF packetsQueued = 0 THEN "request" ELSE "idle"]
    /\ written' = {}
    /\ UNCHANGED <<outputQueue, requestVars, permitVars, dataVars, abortVars>>

\* requestToSendNew: no new request while one is active.
RequestToSendNew(w) ==
    /\ workerPc[w] = "request"
    /\ critOwner = "none"
    /\ IF requestActive
       THEN /\ written' = {}
            /\ UNCHANGED <<activeFlowSequence, requestActive>>
       ELSE /\ activeFlowSequence' = NextFlow(activeFlowSequence)
            /\ requestActive' = TRUE
            /\ written' = {Message("request_to_send", activeFlowSequence', "flow")}
    /\ workerPc' = [workerPc EXCEPT ![w] = "idle"]
    /\ UNCHANGED <<queueVars, activePermitSeq, timeouts, permitVars, dataVars, abortVars>>
-----------------------------------------------------------------------------
\* send_receive_flow gets request_received (requestAcknowledged).
RequestAcknowledged ==
    /\ noting = 0
    /\ critOwner = "none"
    /\ timeouts' = 0
    /\ written' = {}
    /\ UNCHANGED <<queueVars, requestActive, activeFlowSequence, activePermitSeq,
                   permitVars, dataVars, abortVars, workerPc>>

\* pushOrModify finds a permit for the same flow and size in the queue.
IsQueued(p) == \E i \in DOMAIN sendQueue : sendQueue[i] = p

\* send_receive_flow gets ok_to_send and queues it (pushPermit).  pushOrModify
\* takes a token of free_space before it looks for a duplicate and keeps it
\* when it finds one.  A permit that comes before the first request was written
\* for an earlier process on this node.
PermitReceived(p) ==
    /\ noting = 0
    /\ freeSpace > 0
    /\ activeFlowSequence # 0 \/ StalePermits
    /\ freeSpace' = freeSpace - 1
    /\ sendQueue' = IF RemoveDuplicates /\ IsQueued(p) THEN sendQueue ELSE Append(sendQueue, p)
    /\ noting' = p.flowSeq
    /\ written' = {}
    /\ UNCHANGED <<queueVars, requestVars, dataVars, abortVars, workerPc>>

\* The wait for free_space times out: the permit is ignored.
PermitIgnored(p) ==
    /\ noting = 0
    /\ freeSpace = 0
    /\ written' = {}
    /\ UNCHANGED <<queueVars, requestVars, permitVars, dataVars, abortVars, workerPc>>

\* notePermitReceived, as written: it compares two members of the sender, not
\* the flow sequence of the permit.  The data thread may have acted on the
\* permit by then.
NotePermitReceived ==
    /\ noting # 0
    /\ IF activePermitSeq = activeFlowSequence
       THEN activePermitSeq' = noting /\ timeouts' = 0
       ELSE UNCHANGED <<activePermitSeq, timeouts>>
    /\ noting' = 0
    /\ written' = {}
    /\ UNCHANGED <<queueVars, requestActive, activeFlowSequence, sendQueue, freeSpace,
                   dataVars, abortVars, workerPc>>
-----------------------------------------------------------------------------
\* send_data pops a permit and ignores it if it is not for the current request.
IgnoreOldPermit ==
    /\ dataPc = "wait"
    /\ sendQueue # <<>>
    /\ Head(sendQueue).flowSeq # activeFlowSequence
    /\ sendQueue' = Tail(sendQueue)
    /\ freeSpace' = freeSpace + 1
    /\ written' = {}
    /\ UNCHANGED <<queueVars, requestVars, noting, dataVars, abortVars, workerPc>>

\* Otherwise noteRead releases what the permit confirms and resends those of
\* the rest that are due, which count against the permit.
StartSending(confirmed, resent) ==
    /\ dataPc = "wait"
    /\ sendQueue # <<>>
    /\ Head(sendQueue).flowSeq = activeFlowSequence
    /\ confirmed + resent <= unacked
    /\ LET left   == unacked - confirmed
           max    == Head(sendQueue).max_data
           room   == IF resent <= max THEN max - resent ELSE 0
       IN  /\ unacked' = left
           /\ permit' = [flowSeq |-> activeFlowSequence,
                         max_data |-> IF room > MaxUnacked - left THEN MaxUnacked - left ELSE room]
           /\ sending' = resent
    /\ sendQueue' = Tail(sendQueue)
    /\ freeSpace' = freeSpace + 1
    /\ dataPc' = "gather"
    /\ written' = {}
    /\ UNCHANGED <<queueVars, requestVars, noting, abortVars, workerPc>>

\* The gather loop pops a packet; packetsQueued is decremented afterwards.
PopQueued ==
    /\ dataPc = "gather"
    /\ permit.max_data > 0
    /\ packetsQueued # 0
    /\ outputQueue > 0
    /\ outputQueue' = outputQueue - 1
    /\ permit' = [permit EXCEPT !.max_data = @ - 1]
    /\ sending' = sending + 1
    /\ unacked' = unacked + 1
    /\ dataPc' = "uncount"
    /\ written' = {}
    /\ UNCHANGED <<packetsQueued, requestVars, permitVars, abortVars, workerPc>>

UncountPopped ==
    /\ dataPc = "uncount"
    /\ packetsQueued' = packetsQueued - 1
    /\ dataPc' = "gather"
    /\ written' = {}
    /\ UNCHANGED <<outputQueue, requestVars, permitVars, permit, sending, unacked, abortVars, workerPc>>

\* The loop ends: the permit is used up, nothing is counted, or the queue turns
\* out to be empty; to a local destination it may also stop after a packet.
\* The packets are written after a send_start.
WritePackets ==
    /\ dataPc = "gather"
    /\ \/ permit.max_data = 0 \/ packetsQueued = 0 \/ outputQueue = 0
       \/ IsLocal /\ sending > 0
    /\ activePermitSeq' = 0
    /\ dataPc' = "done"
    /\ written' = IF sending = 0 THEN {}
                  ELSE {Message("send_start", activeFlowSequence, "flow")}
    /\ UNCHANGED <<queueVars, requestActive, activeFlowSequence, timeouts, permitVars,
                   permit, sending, unacked, abortVars, workerPc>>

\* Faulty variant of DataRemaining: only the packets to confirm.
UnackedRemaining == unacked # 0

DataRemaining == packetsQueued # 0 \/ unacked # 0

\* sendDone, inside activeCrit: ask for more, or report completion.
SendDone ==
    /\ dataPc = "done"
    /\ critOwner = "none"
    /\ IF DataRemaining /\ requestActive
       THEN /\ activeFlowSequence' = NextFlow(activeFlowSequence)
            /\ written' = IF AllowAsyncPermits
                          THEN {Message("send_completed", activeFlowSequence, "data"),
                                Message("request_to_send", activeFlowSequence', "flow")}
                          ELSE {Message("request_to_send_more", activeFlowSequence, "data")}
            /\ UNCHANGED requestActive
       ELSE /\ requestActive' = FALSE
            /\ written' = {Message("send_completed", activeFlowSequence, "data")}
            /\ UNCHANGED activeFlowSequence
    /\ permit' = NoPermit
    /\ sending' = 0
    /\ dataPc' = "wait"
    /\ UNCHANGED <<queueVars, activePermitSeq, timeouts, permitVars, unacked, abortVars, workerPc>>
-----------------------------------------------------------------------------
\* send_resend_flow finds the request expired, and no permit received for it.
RequestExpired ==
    /\ resendPc = "wait"
    /\ requestActive
    /\ activePermitSeq = 0 \/ activePermitSeq # activeFlowSequence
    /\ timeouts' = IF timeouts < MaxTimeouts THEN timeouts + 1 ELSE timeouts
    /\ resendPc' = "resend"
    /\ written' = {}
    /\ UNCHANGED <<queueVars, requestActive, activeFlowSequence, activePermitSeq, permitVars,
                   dataVars, critOwner, aborter, removed, workerPc>>

GiveUp == MaxDeadTimeouts # 0 /\ timeouts >= MaxDeadTimeouts

\* resendRequestToSend sends the request again if it is still active.
ResendRequestToSend ==
    /\ resendPc = "resend"
    /\ critOwner = "none"
    /\ ~GiveUp
    /\ written' = IF requestActive
                  THEN {Message("request_to_send", activeFlowSequence, "flow")} ELSE {}
    /\ resendPc' = "wait"
    /\ UNCHANGED <<queueVars, requestVars, permitVars, dataVars, critOwner, aborter, removed, workerPc>>

\* It calls abort(), inside activeCrit, after too many timeouts ...
AbortRequest ==
    /\ resendPc = "resend"
    /\ critOwner = "none"
    /\ GiveUp
    /\ aborter = "none"
    /\ timeouts' = 0
    /\ requestActive' = FALSE
    /\ critOwner' = "resend"
    /\ resendPc' = "abort"
    /\ aborter' = "resend"
    /\ written' = {}
    /\ UNCHANGED <<queueVars, activeFlowSequence, activePermitSeq, permitVars, dataVars, removed, workerPc>>

\* ... and abortAll() calls it without activeCrit.
AbortAll ==
    /\ CanAbort
    /\ aborter = "none"
    /\ timeouts' = 0
    /\ requestActive' = FALSE
    /\ aborter' = "all"
    /\ written' = {}
    /\ UNCHANGED <<queueVars, activeFlowSequence, activePermitSeq, permitVars, dataVars,
                   critOwner, resendPc, removed, workerPc>>

\* abortData() removes the packets of one query and leaves the request alone.
AbortData ==
    /\ aborter = "none"
    /\ packetsQueued # 0
    /\ aborter' = "query"
    /\ written' = {}
    /\ UNCHANGED <<queueVars, requestVars, permitVars, dataVars, critOwner, resendPc, removed, workerPc>>

\* removeData, first step: take matching packets off the queue; all of them
\* when called by abort().
RemoveQueued ==
    /\ aborter # "none"
    /\ removed = 0
    /\ packetsQueued # 0
    /\ \E n \in 1 .. outputQueue :
          /\ aborter # "query" => n = outputQueue
          /\ removed' = n
          /\ outputQueue' = outputQueue - n
    /\ written' = {}
    /\ UNCHANGED <<packetsQueued, requestVars, permitVars, dataVars, critOwner, resendPc, aborter, workerPc>>

\* Faulty variant of SubtractRemoved: the counter is set to 0.
ClearCounter ==
    /\ aborter # "none"
    /\ removed > 0 \/ packetsQueued = 0 \/ outputQueue = 0 \/ aborter = "query"
    /\ packetsQueued' = 0
    /\ removed' = 0
    /\ aborter' = "none"
    /\ IF aborter = "resend" THEN critOwner' = "none" /\ resendPc' = "wait"
                             ELSE UNCHANGED <<critOwner, resendPc>>
    /\ written' = {}
    /\ UNCHANGED <<outputQueue, requestVars, permitVars, dataVars, workerPc>>

\* removeData, second step: packetsQueued -= removed, which may be nothing.
SubtractRemoved ==
    /\ aborter # "none"
    /\ removed > 0 \/ packetsQueued = 0 \/ outputQueue = 0 \/ aborter = "query"
    /\ packetsQueued' = packetsQueued - removed
    /\ removed' = 0
    /\ aborter' = "none"
    /\ IF aborter = "resend" THEN critOwner' = "none" /\ resendPc' = "wait"
                             ELSE UNCHANGED <<critOwner, resendPc>>
    /\ written' = {}
    /\ UNCHANGED <<outputQueue, requestVars, permitVars, dataVars, workerPc>>
-----------------------------------------------------------------------------
WorkerStep(w) == PushOwnWait(w) \/ CountPushed(w) \/ RequestToSendNew(w)

FlowStep ==
    \/ RequestAcknowledged
    \/ \E p \in PermitMsg : PermitReceived(p) \/ PermitIgnored(p)
    \/ NotePermitReceived

DataStep ==
    \/ IgnoreOldPermit
    \/ \E confirmed, resent \in 0 .. unacked : StartSending(confirmed, resent)
    \/ PopQueued
    \/ UncountPopped
    \/ WritePackets
    \/ SendDone

ResendStep == RequestExpired \/ ResendRequestToSend \/ AbortRequest

AbortStep == AbortAll \/ AbortData \/ RemoveQueued \/ SubtractRemoved

Next ==
    \/ \E w \in Workers : WorkerStep(w)
    \/ FlowStep
    \/ DataStep
    \/ ResendStep
    \/ AbortStep

Spec == Init /\ [][Next]_vars
-----------------------------------------------------------------------------
TypeOK ==
    /\ outputQueue \in 0 .. QueueSize
    /\ packetsQueued \in Int
    /\ unacked \in Nat
    /\ requestActive \in BOOLEAN
    /\ activeFlowSequence \in Sequence
    /\ activePermitSeq \in Sequence
    /\ timeouts \in Nat
    /\ sendQueue \in Seq(PermitMsg)
    /\ freeSpace \in 0 .. PermitQueueSize
    /\ noting \in Sequence
    /\ critOwner \in {"none", "resend"}
    /\ workerPc \in [Workers -> {"idle", "count", "request"}]
    /\ dataPc \in {"wait", "gather", "uncount", "done"}
    /\ permit \in [flowSeq : Sequence, max_data : Nat]
    /\ sending \in Nat
    /\ resendPc \in {"wait", "resend", "abort"}
    /\ aborter \in {"none", "query", "resend", "all"}
    /\ removed \in Nat

\* packetsQueued and the queue are updated at different moments by every
\* thread; the counter is always the length of the queue, less what has been
\* pushed and not counted, plus what has been taken and not uncounted.  So it
\* is right whenever the threads are at rest, and no packet is ever lost to it.
CounterExact ==
    packetsQueued = outputQueue
                    - Cardinality({w \in Workers : workerPc[w] = "count"})
                    + (IF dataPc = "uncount" THEN 1 ELSE 0)
                    + removed

\* The permits waiting and the tokens of free_space never exceed the size of
\* send_queue, and what a permit still allows fits in the resend list.
PermitsFit == freeSpace + Len(sendQueue) <= PermitQueueSize
WindowFits ==
    unacked + (IF dataPc \in {"gather", "uncount"} THEN permit.max_data ELSE 0) <= MaxUnacked

\* The invariant behind TypeOK and CounterExact: no step of a worker, of the
\* data, resend or flow thread, or of an abort, takes the sender out of it.
ConsistentSend == TypeOK /\ PermitsFit /\ WindowFits /\ CounterExact

\* No thread is between two updates that belong together.
AtRest ==
    /\ \A w \in Workers : workerPc[w] = "idle"
    /\ dataPc # "uncount"
    /\ noting = 0
    /\ aborter = "none"

\* A permit for the current request is waiting, or has been acted on.
PermitAtHand ==
    \/ dataPc # "wait"
    \/ \E i \in DOMAIN sendQueue : sendQueue[i].flowSeq = activeFlowSequence

\* "resend rts if count is non-zero and timed out": when the threads are at rest
\* and packets are queued, there is an active request, and either a permit for
\* it is at hand or send_resend_flow will repeat it.  Otherwise the packets wait
\* forever, since only a push that finds the counter at zero makes a new request.
NoStrandedPackets ==
    AtRest /\ packetsQueued > 0 =>
        /\ requestActive
        /\ PermitAtHand \/ activePermitSeq = 0 \/ activePermitSeq # activeFlowSequence
=============================================================================
