--------------------------- MODULE UdpReceiveFlow ---------------------------
(* The receiving side of the flow control (CReceiveManager, udptrr.cpp): the  *)
(* flow thread, which grants permits to the senders that ask for one, the     *)
(* data thread, which counts the packets that arrive against those permits,   *)
(* and the collator thread, which empties the input queue.                    *)
(*                                                                            *)
(* The flow thread owns the lists and the state of the senders; it shares     *)
(* numPackets and the length of the input queue with the data thread, so its  *)
(* loop is cut where it reads or writes those.  Time is abstracted: a permit  *)
(* may be found expired whenever the flow thread looks.  The senders are not  *)
(* modelled here: any flow message may arrive at any time, late, twice or     *)
(* from a process that has restarted since.                                   *)
EXTENDS SequenceNumbers, Sequences, FiniteSets

CONSTANTS
    Senders,                \* the nodes that send to this one
    SendSeqs,               \* the packet sequence numbers told apart
    MaxPermitsPerSender,    \* MaxPermitsPerSender
    MaxPendingPermits,      \* udpMaxPendingPermits
    MinSlotsPerSender,      \* udpMinSlotsPerSender
    MaxSlotsPerSender,      \* maxSlotsPerSender
    MaxStart,               \* the most packets a send_start announces, see FlowReceiver
    MaxPermitDeadTimeouts,  \* udpMaxPermitDeadTimeouts, 0 for no limit
    QueueLimit,             \* input_queue_size, also maxPermits
    ResendDelay,            \* udpResendDelay # 0
    MaxOverrun              \* bound: packets beyond a permit or the queue

ASSUME ReceiveFlowAssumption ==
    /\ SendSeqs \subseteq Sequence
    /\ {MaxPermitsPerSender, MinSlotsPerSender, MaxSlotsPerSender, QueueLimit}
          \subseteq Nat \ {0}
    /\ {MaxStart, MaxPendingPermits, MaxPermitDeadTimeouts, MaxOverrun} \subseteq Nat
    /\ ResendDelay \in BOOLEAN

PermitIds == 1 .. MaxPermitsPerSender
Permit    == Senders \X PermitIds

VARIABLES
    state,            \* ReceiveState of each sender
    flowSeq,          \* its most recent flow sequence number
    sendSeq,          \* its next packet, from its most recent request
    timeouts,         \* consecutive timeouts of its permits
    numPermits,       \* how many of its permits are active
    permits,          \* its SendPermits
    lastDataPermit,   \* the permit its last packet was counted against
    pendingRequests,  \* list of the senders waiting for a permit
    pendingPermits,   \* list of the active permits, oldest first
    flowPc,           \* where the flow thread is
    msg,              \* the message it is working on
    permitsIssued,    \* the slots reserved by active permits, as it sums them
    summed,           \* how many active permits it has summed
    slots,            \* the slots it has left to grant
    length,           \* length of input_queue when it read it
    dataPc,           \* where the data thread is
    counting,         \* the permit it is about to decrement
    queued,           \* length of input_queue
    reply             \* the flow message written by the last step

flowVars == <<state, flowSeq, sendSeq, timeouts, numPermits, pendingRequests, pendingPermits>>
scanVars == <<permitsIssued, summed, slots, length>>
dataVars == <<lastDataPermit, dataPc, counting, queued>>
vars == <<flowVars, permits, flowPc, msg, scanVars, dataVars, reply>>

\* The flow messages a sender writes, with the fields the receiver uses.
FlowMsg ==
    [cmd : {"request_to_send", "request_to_send_more"}, from : Senders,
     flowSeq : FlowSeq, sendSeq : SendSeqs]
    \cup [cmd : {"send_start"}, from : Senders, flowSeq : FlowSeq,
          packets : 0 .. MaxStart]
    \cup [cmd : {"send_completed"}, from : Senders, flowSeq : FlowSeq]

\* The flow messages the receiver writes.
Reply == [cmd : {"request_received", "ok_to_send"}, to : Senders,
          flowSeq : Sequence, max_data : Nat]

NoMsg == [cmd |-> "none"]

NoPermit == [flowSeq |-> 0, sendSeq |-> 0, numPackets |-> 0]

\* Faulty variant of IsActive: a permit ends when its packets have arrived.
IsUnused(p) == permits[p].numPackets > 0

IsActive(p)   == permits[p].flowSeq # 0
ActiveIds(s)  == {i \in PermitIds : IsActive(<<s, i>>)}

\* getNumReserved never returns a negative number.
NumReserved(p) == IF permits[p].numPackets > 0 THEN permits[p].numPackets ELSE 0

Least(S) == CHOOSE i \in S : \A j \in S : i <= j

\* The linked lists: position of an element, and the list without it.
Positions(list, x) == {i \in DOMAIN list : list[i] = x}
UnlinkAt(list, k) ==
    [i \in 1 .. Len(list) - 1 |-> IF i < k THEN list[i] ELSE list[i + 1]]

\* Faulty variant of Unlink: the first element is taken off, whatever it is.
UnlinkFirst(list, x) == Tail(list)

Unlink(list, x) == UnlinkAt(list, Least(Positions(list, x)))

Init ==
    /\ state = [s \in Senders |-> "idle"]
    /\ flowSeq = [s \in Senders |-> 0]
    /\ sendSeq = [s \in Senders |-> 0]
    /\ timeouts = [s \in Senders |-> 0]
    /\ numPermits = [s \in Senders |-> 0]
    /\ permits = [p \in Permit |-> NoPermit]
    /\ lastDataPermit = [s \in Senders |-> 1]
    /\ pendingRequests = <<>>
    /\ pendingPermits = <<>>
    /\ flowPc = "read"
    /\ msg = NoMsg
    /\ permitsIssued = 0
    /\ summed = 0
    /\ slots = 0
    /\ length = 0
    /\ dataPc = "read"
    /\ counting = <<>>
    /\ queued = 0
    /\ reply = {}
-----------------------------------------------------------------------------
\* The flow thread reads a message: the first part of doFlowRequest.
ReadFlowMsg(m) ==
    /\ flowPc = "read"
    /\ m.cmd # "send_start"
    /\ msg' = m
    /\ flowPc' = IF m.cmd = "request_to_send" THEN "request" ELSE "done"
    /\ reply' = {}
    /\ UNCHANGED <<flowVars, permits, scanVars, dataVars>>

\* send_start: the sender says how many packets it really sends
\* (updateNumReserved).
NoteStart(m) ==
    LET matching == {i \in PermitIds : permits[<<m.from, i>>].flowSeq = m.flowSeq}
    IN  /\ flowPc = "read"
        /\ m.cmd = "send_start"
        /\ permits' = IF matching = {} THEN permits
                      ELSE [permits EXCEPT ![<<m.from, Least(matching)>>].numPackets = m.packets]
        /\ flowPc' = "expire"
        /\ reply' = {}
        /\ UNCHANGED <<flowVars, msg, scanVars, dataVars>>

\* wait_read times out without a message.
WaitTimeout ==
    /\ flowPc = "read"
    /\ flowPc' = "expire"
    /\ reply' = {}
    /\ UNCHANGED <<flowVars, permits, msg, scanVars, dataVars>>

\* Faulty variant of CompletedIds: only the permit of that very flow sequence.
CompletedExactly(m) == {i \in ActiveIds(m.from) : permits[<<m.from, i>>].flowSeq = m.flowSeq}

\* noteDone revokes the permits up to the completed flow sequence, one by one.
CompletedIds(m) ==
    {i \in ActiveIds(m.from) :
        \/ permits[<<m.from, i>>].flowSeq = m.flowSeq
        \/ IsEarlier(permits[<<m.from, i>>].flowSeq, m.flowSeq)}

RevokeCompleted ==
    /\ flowPc = "done"
    /\ CompletedIds(msg) # {}
    /\ LET s == msg.from
           i == Least(CompletedIds(msg))
       IN  /\ pendingPermits' = Unlink(pendingPermits, <<s, i>>)
           /\ permits' = [permits EXCEPT ![<<s, i>>] = NoPermit]
           /\ numPermits' = [numPermits EXCEPT ![s] = @ - 1]
    /\ reply' = {}
    /\ UNCHANGED <<state, flowSeq, sendSeq, timeouts, pendingRequests,
                   flowPc, msg, scanVars, dataVars>>

\* The rest of noteDone: only a message for the current flow sequence changes
\* the state of the sender.  request_to_send_more goes on to noteRequest.
FinishDone ==
    /\ flowPc = "done"
    /\ CompletedIds(msg) = {}
    /\ LET s == msg.from
       IN  IF msg.flowSeq = flowSeq[s]
           THEN /\ pendingRequests' = IF state[s] = "requested"
                                      THEN Unlink(pendingRequests, s)
                                      ELSE pendingRequests
                /\ state' = [state EXCEPT ![s] = "idle"]
           ELSE UNCHANGED <<pendingRequests, state>>
    /\ IF msg.cmd = "request_to_send_more"
       THEN flowPc' = "request" /\ msg' = msg
       ELSE flowPc' = "expire"  /\ msg' = NoMsg
    /\ reply' = {}
    /\ UNCHANGED <<flowSeq, sendSeq, timeouts, numPermits, pendingPermits,
                   permits, scanVars, dataVars>>

RequestedFlow(m) == IF m.cmd = "request_to_send_more" THEN NextFlow(m.flowSeq) ELSE m.flowSeq

PermitsFor(s, f) == {i \in PermitIds : permits[<<s, i>>].flowSeq = f}

\* sendPermitToSend: the message carries the flow sequence of the sender entry.
OkToSend(s, slotsGranted) ==
    [cmd |-> "ok_to_send", to |-> s, flowSeq |-> flowSeq[s], max_data |-> slotsGranted]

\* noteRequest for a request that has an active permit: send the permit again.
ResendPermit ==
    /\ flowPc = "request"
    /\ LET s == msg.from
           P == PermitsFor(s, RequestedFlow(msg))
       IN  /\ P # {}
           /\ reply' = {OkToSend(s, NumReserved(<<s, Least(P)>>))}
    /\ flowPc' = "expire"
    /\ msg' = NoMsg
    /\ UNCHANGED <<flowVars, permits, scanVars, dataVars>>

\* Faulty variant of WithRequest: the state is not looked at.
WithRequestTwice(s) == Append(pendingRequests, s)

\* The request list once s is on it.
WithRequest(s) ==
    IF state[s] = "requested" THEN pendingRequests ELSE Append(pendingRequests, s)

\* acknowledgeRequest, which also makes f the current flow sequence.
RequestReceived(s, f) == [cmd |-> "request_received", to |-> s, flowSeq |-> f, max_data |-> 0]

\* noteRequest otherwise: put the sender on the list unless it is there, and
\* acknowledge the request.
NoteRequest ==
    /\ flowPc = "request"
    /\ LET s == msg.from
           f == RequestedFlow(msg)
       IN  /\ PermitsFor(s, f) = {}
           /\ pendingRequests' = WithRequest(s)
           /\ state' = [state EXCEPT ![s] = "requested"]
           /\ flowSeq' = [flowSeq EXCEPT ![s] = f]
           /\ sendSeq' = [sendSeq EXCEPT ![s] = msg.sendSeq]
           /\ timeouts' = [timeouts EXCEPT ![s] = 0]
           /\ reply' = {RequestReceived(s, f)}
    /\ flowPc' = "expire"
    /\ msg' = NoMsg
    /\ UNCHANGED <<numPermits, pendingPermits, permits, scanVars, dataVars>>

\* checkPendingRequests, first loop: the oldest permit has expired.  Its sender
\* goes back on the request list, unless it has timed out too often.  Timeouts
\* are not counted further once they are over the limit.
ExpirePermit ==
    /\ flowPc = "expire"
    /\ pendingPermits # <<>>
    /\ LET p == Head(pendingPermits)
           s == p[1]
           late == IF timeouts[s] <= MaxPermitDeadTimeouts THEN timeouts[s] + 1 ELSE timeouts[s]
           abandon == MaxPermitDeadTimeouts # 0 /\ late > MaxPermitDeadTimeouts
       IN  /\ pendingPermits' = Tail(pendingPermits)
           /\ permits' = [permits EXCEPT ![p] = NoPermit]
           /\ numPermits' = [numPermits EXCEPT ![s] = @ - 1]
           /\ timeouts' = [timeouts EXCEPT ![s] = late]
           /\ pendingRequests' = IF abandon THEN pendingRequests ELSE WithRequest(s)
           /\ state' = [state EXCEPT ![s] =
                          IF ~abandon \/ @ = "requested" THEN "requested"
                          ELSE IF numPermits[s] = 1 THEN "idle" ELSE @]
    /\ reply' = {}
    /\ UNCHANGED <<flowSeq, sendSeq, flowPc, msg, scanVars, dataVars>>

\* The remaining permits are still valid.
StopExpiring ==
    /\ flowPc = "expire"
    /\ flowPc' = "sum"
    /\ reply' = {}
    /\ UNCHANGED <<flowVars, permits, msg, scanVars, dataVars>>

\* Second loop: sum the reservations; the data thread may decrement them
\* meanwhile.
SumReserved ==
    /\ flowPc = "sum"
    /\ summed < Len(pendingPermits)
    /\ summed' = summed + 1
    /\ permitsIssued' = permitsIssued + NumReserved(pendingPermits[summed + 1])
    /\ reply' = {}
    /\ UNCHANGED <<flowVars, permits, flowPc, msg, slots, length, dataVars>>

Available == IF queued < QueueLimit THEN QueueLimit - queued ELSE 0

\* Faulty variant of FreeSlots: without the reservations.
FreeSlotsUnreserved == Available

FreeSlots == IF Available >= permitsIssued THEN Available - permitsIssued ELSE 0

\* After the loop: input_queue->available(), less what is reserved.
ReadAvailable ==
    /\ flowPc = "sum"
    /\ summed = Len(pendingPermits)
    /\ slots' = FreeSlots
    /\ length' = queued
    /\ flowPc' = "grant"
    /\ reply' = {}
    /\ UNCHANGED <<flowVars, permits, msg, permitsIssued, summed, dataVars>>

SmallerOf(a, b) == IF a <= b THEN a ELSE b

\* The third loop passes over senders that cannot send or have all their
\* permits active.
Grantable(can) ==
    {k \in DOMAIN pendingRequests :
        /\ pendingRequests[k] \in can
        /\ numPermits[pendingRequests[k]] # MaxPermitsPerSender}

\* canSendAny is always true without a resend delay; with one it depends on the
\* packets missing from the sender.
CanSendAny == IF ResendDelay THEN SUBSET Senders ELSE {Senders}

MayGrant ==
    /\ Len(pendingPermits) < MaxPendingPermits
    /\ slots >= MinSlotsPerSender

\* The locals of checkPendingRequests start from 0 in its next call.
StartNextRound ==
    /\ flowPc' = "read"
    /\ permitsIssued' = 0
    /\ summed' = 0
    /\ length' = 0

\* allocatePermit takes the first permit that is not active.
Unallocated(s) ==
    {i \in PermitIds : ~IsActive(<<s, i>>) /\ \A j \in 1 .. i - 1 : IsActive(<<s, j>>)}

\* Third loop: grant a permit (grantPermit).  grantPermit unlinks the sender, so
\* the loop's step to finger->next ends it: one call grants at most one permit.
GrantPermit(can) ==
    /\ flowPc = "grant"
    /\ MayGrant
    /\ Grantable(can) # {}
    /\ LET k == Least(Grantable(can))
           s == pendingRequests[k]
           requestSlots == SmallerOf(SmallerOf(slots, MaxSlotsPerSender),
                                     QueueLimit - permitsIssued)
       IN  \E i \in Unallocated(s) :
             /\ pendingRequests' = UnlinkAt(pendingRequests, k)
             /\ permits' = [permits EXCEPT ![<<s, i>>] =
                   [flowSeq |-> flowSeq[s], sendSeq |-> sendSeq[s], numPackets |-> requestSlots]]
             /\ numPermits' = [numPermits EXCEPT ![s] = @ + 1]
             /\ pendingPermits' = Append(pendingPermits, <<s, i>>)
             /\ state' = [state EXCEPT ![s] = "granted"]
             /\ slots' = slots - requestSlots
             /\ reply' = {OkToSend(s, requestSlots)}
    /\ StartNextRound
    /\ UNCHANGED <<flowSeq, sendSeq, timeouts, msg, dataVars>>

NoGrant(can) ==
    /\ flowPc = "grant"
    /\ ~MayGrant \/ Grantable(can) = {}
    /\ StartNextRound
    /\ reply' = {}
    /\ UNCHANGED <<flowVars, permits, msg, slots, dataVars>>
-----------------------------------------------------------------------------
\* The comparison (int)(msgSeq - sendSeq) >= 0 of decPermit.
NotBefore(seq, p) == ~IsEarlier(seq, permits[p].sendSeq)

\* The permit decPermit counts a packet against: the last one used, if it is
\* still active and not later than the packet, or else the closest such permit
\* (closer than INT_MAX, where bestDelta starts).
CountedAgainst(s, seq) ==
    LET last == <<s, lastDataPermit[s]>>
        Gap(i) == Delta(seq, permits[<<s, i>>].sendSeq)
        fit  == {i \in ActiveIds(s) : Gap(i) < SeqSpace \div 2 - 1}
    IN  CASE IsActive(last) /\ NotBefore(seq, last) -> {lastDataPermit[s]}
          [] OTHER -> {i \in fit : \A j \in fit : Gap(i) < Gap(j) \/ (Gap(i) = Gap(j) /\ i <= j)}

\* The data thread reads a packet.  A duplicate is queued without being counted.
ReadPacket(s, seq, duplicate) ==
    LET best == CountedAgainst(s, seq)
    IN  /\ dataPc = "read"
        /\ queued < QueueLimit + MaxOverrun
        /\ IF duplicate \/ best = {}
           THEN /\ dataPc' = "push"
                /\ UNCHANGED <<lastDataPermit, counting>>
           ELSE /\ dataPc' = "count"
                /\ \E i \in best : /\ counting' = <<s, i>>
                                   /\ lastDataPermit' = [lastDataPermit EXCEPT ![s] = i]
        /\ reply' = {}
        /\ UNCHANGED <<flowVars, permits, flowPc, msg, scanVars, queued>>

\* The atomic decrement, which may come after the permit was revoked.
CountPacket ==
    /\ dataPc = "count"
    /\ permits' = [permits EXCEPT ![counting].numPackets =
                      IF @ > -MaxOverrun THEN @ - 1 ELSE @]
    /\ dataPc' = "push"
    /\ counting' = <<>>
    /\ reply' = {}
    /\ UNCHANGED <<flowVars, flowPc, msg, scanVars, lastDataPermit, queued>>

\* input_queue->pushOwn never blocks.
PushPacket ==
    /\ dataPc = "push"
    /\ queued' = queued + 1
    /\ dataPc' = "read"
    /\ reply' = {}
    /\ UNCHANGED <<flowVars, permits, flowPc, msg, scanVars, lastDataPermit, counting>>

\* The collator thread takes a packet off the input queue.
CollatePacket ==
    /\ queued > 0
    /\ queued' = queued - 1
    /\ reply' = {}
    /\ UNCHANGED <<flowVars, permits, flowPc, msg, scanVars, lastDataPermit, dataPc, counting>>

\* The steps of the flow thread after it has read a message.
FlowStep ==
    \/ RevokeCompleted
    \/ FinishDone
    \/ ResendPermit
    \/ NoteRequest
    \/ ExpirePermit
    \/ StopExpiring
    \/ SumReserved
    \/ ReadAvailable
    \/ \E can \in CanSendAny : GrantPermit(can) \/ NoGrant(can)

Next ==
    \/ \E m \in FlowMsg : ReadFlowMsg(m) \/ NoteStart(m)
    \/ WaitTimeout
    \/ FlowStep
    \/ \E s \in Senders, seq \in SendSeqs, duplicate \in BOOLEAN : ReadPacket(s, seq, duplicate)
    \/ CountPacket
    \/ PushPacket
    \/ CollatePacket

Spec == Init /\ [][Next]_vars
-----------------------------------------------------------------------------
TypeOK ==
    /\ state \in [Senders -> {"idle", "requested", "granted"}]
    /\ flowSeq \in [Senders -> Sequence]
    /\ sendSeq \in [Senders -> Sequence]
    /\ timeouts \in [Senders -> Nat]
    /\ numPermits \in [Senders -> Nat]
    /\ permits \in [Permit -> [flowSeq : Sequence, sendSeq : Sequence, numPackets : Int]]
    /\ lastDataPermit \in [Senders -> PermitIds]
    /\ pendingRequests \in Seq(Senders)
    /\ pendingPermits \in Seq(Permit)
    /\ flowPc \in {"read", "done", "request", "expire", "sum", "grant"}
    /\ msg \in FlowMsg \cup {NoMsg}
    /\ permitsIssued \in Nat
    /\ summed \in Nat
    /\ slots \in Nat
    /\ length \in Nat
    /\ dataPc \in {"read", "count", "push"}
    /\ counting \in Permit \cup {<<>>}
    /\ queued \in Nat
    /\ reply \subseteq Reply

NoRepeats(list) == \A i, j \in DOMAIN list : list[i] = list[j] => i = j

Elements(list) == {list[i] : i \in DOMAIN list}

\* The list pendingRequests and the state of the senders agree: a sender is on
\* it exactly when its state is "requested", and only once.  The list has no
\* check that would notice a second append or a stray remove in time.
RequestListExact ==
    /\ NoRepeats(pendingRequests)
    /\ Elements(pendingRequests) = {s \in Senders : state[s] = "requested"}

\* The list pendingPermits holds exactly the permits whose flowSeq is not 0,
\* each once, however late or often completed messages and timeouts come.
PermitListExact ==
    /\ NoRepeats(pendingPermits)
    /\ Elements(pendingPermits) = {p \in Permit : IsActive(p)}

\* numPermits counts the active permits, so that hasUnusedPermit() promises
\* what allocatePermit() needs: its throwUnexpected() is never reached.
NumPermitsExact ==
    \A s \in Senders : numPermits[s] = Cardinality(ActiveIds(s))

\* Between two steps of a handler its message is one that it handles, the slots
\* left to grant exist beside those reserved, and the data thread is about to
\* count against a permit.
HandlersOK ==
    /\ flowPc = "done" => msg \in FlowMsg /\ msg.cmd \in {"send_completed", "request_to_send_more"}
    /\ flowPc = "request" => msg \in FlowMsg /\ msg.cmd \in {"request_to_send", "request_to_send_more"}
    /\ flowPc = "grant" /\ slots > 0 => slots + permitsIssued <= QueueLimit
    /\ dataPc = "count" => counting \in Permit

\* A sender that is not idle, or has a permit, has made a request: 0 is never
\* the flow sequence number of a permit that is granted.
FlowKnown ==
    \A s \in Senders : state[s] # "idle" \/ ActiveIds(s) # {} => flowSeq[s] # 0

\* The invariant behind the ones above: no step of any thread, whatever message
\* it handles, takes the flow control out of it.
ConsistentFlow ==
    /\ TypeOK
    /\ HandlersOK
    /\ FlowKnown
    /\ RequestListExact
    /\ PermitListExact
    /\ NumPermitsExact

\* The slots the permits in P reserve, each one told apart.
ReservedBy(P) == UNION {{p} \X (1 .. NumReserved(p)) : p \in P}

TotalReserved == Cardinality(ReservedBy({p \in Permit : IsActive(p)}))

\* "The code should aim to not allocate more permits than there are currently
\* slots available on the receive queue": when a permit has been granted, all
\* reservations fit in the queue beside the packets that were on it when the
\* flow thread looked, although the data thread goes on changing the
\* reservations while the flow thread adds them up.
GrantsFitQueue ==
    [][Len(pendingPermits') > Len(pendingPermits)
          => TotalReserved' + length <= QueueLimit]_vars
=============================================================================
