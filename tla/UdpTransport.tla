---------------------------- MODULE UdpTransport ----------------------------
(* One sender and the receiver it sends to, over sockets that lose messages:  *)
(* the requests, permits and completions of the flow control together with    *)
(* the data they are about.                                                   *)
(*                                                                            *)
(* The receiver's view of the sender is the entry of FlowReceiver, which      *)
(* UdpReceiveFlow is shown to implement; packets and copies are handled by    *)
(* PacketTracker and UdpResendList.  Handlers run to completion here: how the *)
(* threads of one side interleave is the subject of UdpSendFlow and           *)
(* UdpReceiveFlow.  Time is abstracted: a request may expire whenever it is   *)
(* active, and any timeout may be the one too many after which the sender     *)
(* gives up.  request_received, which restarts that timer, is left out.  So   *)
(* is how send_start and the packets that arrive (decPermit) change what a    *)
(* permit reserves: a permit that is sent again is for any number of packets. *)
EXTENDS FlowReceiver, UdpResendList

CONSTANTS
    AllowAsyncPermits,  \* udpAllowAsyncPermits
    Reorder,            \* may flow messages overtake each other?
    MaxSend,            \* bound: packets queued for sending
    MaxFlow,            \* bound: flow sequence number, SeqSpace - 1 for none
    MaxFlowMsgs,        \* bound: messages on a flow socket
    MaxWire,            \* bound: entries on the data socket
    MaxLosses,          \* bound: messages and packets lost
    MaxAborts           \* bound: requests given up and queries abandoned

ASSUME TransportAssumption ==
    /\ MaxStart \in 1 .. TrackerBits
    /\ MaxSlotsPerSender \in 1 .. MaxStart
    /\ MaxPermitsPerSender \in Nat \ {0}
    /\ {AllowAsyncPermits, Reorder} \subseteq BOOLEAN
    /\ {MaxSend, MaxFlow, MaxFlowMsgs, MaxWire, MaxLosses, MaxAborts} \subseteq Nat
    /\ 2 * MaxSend <= SeqSpace

VARIABLES
    pushed,              \* packets queued so far and not removed unsent
    nextSendSequence,    \* packets sent so far; the rest is in the output queue
    resendList,          \* the sender's UdpResendList
    requestActive,       \* its requestExpiryTime # 0
    givenUp,             \* history: has its latest request been given up?
    aborts,              \* requests given up and queries abandoned so far
    activeFlowSequence,  \* its flow sequence number
    flowSocket,          \* flow messages on their way to the receiver
    dataSocket,          \* packets, and flow messages that must not overtake them
    permitSocket,        \* ok_to_send messages on their way to the sender
    packetsSeen,         \* the receiver's PacketTracker
    delivered,           \* history: packets handed to the collators
    twice,               \* history: packets handed to the collators again
    losses               \* messages and packets lost so far

senderVars   == <<pushed, nextSendSequence, resendList, requestActive, givenUp,
                  aborts, activeFlowSequence>>
receiverVars == <<entry, packetsSeen, delivered, twice>>
netVars      == <<flowSocket, dataSocket, permitSocket, losses>>
vars         == <<senderVars, receiverVars, netVars>>

PacketsQueued == pushed - nextSendSequence

FlowMsg(cmd, f)       == [cmd |-> cmd, flowSeq |-> f]
DataPacket(n, resent) == [cmd |-> "data", n |-> n, resent |-> resent]

PacketOf(e) == nextSendSequence - Delta(nextSendSequence, e)

TransportInit ==
    /\ Init
    /\ pushed = 0
    /\ nextSendSequence = 0
    /\ resendList = EmptyResendList
    /\ requestActive = FALSE
    /\ givenUp = FALSE
    /\ aborts = 0
    /\ activeFlowSequence = 0
    /\ flowSocket = <<>>
    /\ dataSocket = <<>>
    /\ permitSocket = <<>>
    /\ packetsSeen = NewTracker
    /\ delivered = {}
    /\ twice = {}
    /\ losses = 0

\* Which messages of a flow socket can be read next.
Next1(socket) == {i \in DOMAIN socket : i = 1 \/ Reorder}

HasRoom(socket) == Len(socket) < MaxFlowMsgs
-----------------------------------------------------------------------------
\* A worker queues a packet; the first one makes a request to send.
PushData ==
    /\ pushed < MaxSend
    /\ pushed' = pushed + 1
    /\ IF PacketsQueued = 0 /\ ~requestActive
       THEN /\ HasRoom(flowSocket)
            /\ NextFlow(activeFlowSequence) <= MaxFlow
            /\ activeFlowSequence' = NextFlow(activeFlowSequence)
            /\ requestActive' = TRUE
            /\ givenUp' = FALSE
            /\ flowSocket' = Append(flowSocket, FlowMsg("request_to_send", activeFlowSequence'))
       ELSE UNCHANGED <<activeFlowSequence, requestActive, givenUp, flowSocket>>
    /\ UNCHANGED <<nextSendSequence, resendList, aborts, receiverVars, dataSocket, permitSocket,
                   losses>>

\* Faulty variant of ResendRequest: only the very first request is sent again.
ResendFirstRequest ==
    /\ requestActive
    /\ activeFlowSequence = 1
    /\ HasRoom(flowSocket)
    /\ flowSocket' = Append(flowSocket, FlowMsg("request_to_send", activeFlowSequence))
    /\ UNCHANGED <<senderVars, receiverVars, dataSocket, permitSocket, losses>>

\* The request times out and is sent again, unless that has happened too often.
ResendRequest ==
    /\ requestActive
    /\ HasRoom(flowSocket)
    /\ flowSocket' = Append(flowSocket, FlowMsg("request_to_send", activeFlowSequence))
    /\ UNCHANGED <<senderVars, receiverVars, dataSocket, permitSocket, losses>>

\* abort(), after too many timeouts or because the receiver is not there any
\* more: the request ends and the queues are emptied.  The copies of what has
\* been sent stay in the resend list.
GiveUp ==
    /\ requestActive
    /\ aborts < MaxAborts
    /\ aborts' = aborts + 1
    /\ requestActive' = FALSE
    /\ givenUp' = TRUE
    /\ pushed' = nextSendSequence
    /\ UNCHANGED <<nextSendSequence, resendList, activeFlowSequence, receiverVars, netVars>>

\* abortData: a query is abandoned, and its packets leave the queues.
RemoveData ==
    /\ aborts < MaxAborts
    /\ aborts' = aborts + 1
    /\ pushed' \in nextSendSequence .. pushed - 1
    /\ UNCHANGED <<nextSendSequence, resendList, requestActive, givenUp, activeFlowSequence,
                   receiverVars, netVars>>

\* Faulty variant of DataRemaining: packets still to be confirmed do not count.
QueuedRemaining(list, next) == pushed > next /\ CanRecordEntry(list, next % SeqSpace)

\* sendData's test for more to do, once the packets before next are sent:
\* packets are queued that the resend list has room for, or remain to be
\* confirmed.
DataRemaining(list, next) ==
    (pushed > next /\ CanRecordEntry(list, next % SeqSpace)) \/ list.entries # {}

\* sendData and sendDone for a permit that matches the current request, with an
\* abort() that comes "just before I got here" (sendDone) if aborted.
UsePermit(p, aborted) ==
    LET next   == nextSendSequence
        due    == resendList.entries
        list   == NoteRead(resendList, p.seen, p.max_data, due)
        old    == InOrder(resendList, ToResend(resendList, p.seen, p.max_data, due))
        limit  == NewPacketLimit(list, next, p.max_data, Len(old))
        k      == IF limit <= PacketsQueued THEN limit ELSE PacketsQueued
        kept   == AppendRange(list, next, k)
        packets == [i \in 1 .. Len(old) + k |->
                      IF i <= Len(old) THEN DataPacket(PacketOf(old[i]), TRUE)
                                       ELSE DataPacket(next + i - Len(old) - 1, FALSE)]
        more   == DataRemaining(kept, next + k) /\ requestActive /\ ~aborted
        f      == activeFlowSequence
    IN  /\ Len(dataSocket) + Len(packets) + 1 <= MaxWire
        /\ more => NextFlow(f) <= MaxFlow
        /\ nextSendSequence' = next + k
        /\ resendList' = kept
        /\ requestActive' = more
        /\ givenUp' = (givenUp \/ aborted)
        /\ aborts' = IF aborted THEN aborts + 1 ELSE aborts
        /\ pushed' = IF aborted THEN next + k ELSE pushed
        /\ activeFlowSequence' = IF more THEN NextFlow(f) ELSE f
        /\ dataSocket' = dataSocket \o packets \o
              <<FlowMsg(IF more /\ ~AllowAsyncPermits THEN "request_to_send_more"
                                                      ELSE "send_completed", f)>>
        /\ IF more /\ AllowAsyncPermits
           THEN /\ HasRoom(flowSocket)
                /\ flowSocket' = Append(flowSocket, FlowMsg("request_to_send", NextFlow(f)))
           ELSE UNCHANGED flowSocket
        /\ UNCHANGED <<receiverVars, losses>>

\* A permit arrives; one for another request is ignored.
PermitArrives ==
    \E i \in Next1(permitSocket) :
        /\ permitSocket' = RemoveAt(permitSocket, i)
        /\ IF permitSocket[i].flowSeq = activeFlowSequence
           THEN \E aborted \in BOOLEAN :
                    /\ aborted => requestActive /\ aborts < MaxAborts
                    /\ UsePermit(permitSocket[i], aborted)
           ELSE UNCHANGED <<senderVars, receiverVars, flowSocket, dataSocket, losses>>
-----------------------------------------------------------------------------
\* Faulty variant of SendPermitToSend: the tracker is not copied.
SendPermitUnseen(f, max) ==
    /\ HasRoom(permitSocket)
    /\ permitSocket' = Append(permitSocket,
                              [flowSeq |-> f, max_data |-> max, seen |-> NewTracker])

\* sendPermitToSend: the permit carries the flow sequence number of the entry
\* and a copy of the tracker.
SendPermitToSend(f, max) ==
    /\ HasRoom(permitSocket)
    /\ permitSocket' = Append(permitSocket,
                              [flowSeq |-> f, max_data |-> max, seen |-> packetsSeen])

\* noteRequest: a request that has a permit gets it again, for whatever that
\* reserves by now.
NoteRequest(e, f) ==
    /\ entry' = AfterRequest(e, f)
    /\ IF PermitsOf(e, f) # {}
       THEN \E max \in 0 .. MaxStart : SendPermitToSend(e.flowSeq, max)
       ELSE UNCHANGED permitSocket

\* The flow thread reads a message that the sender, or the data thread, wrote.
DoFlowRequest(m) ==
    CASE m.cmd = "request_to_send" -> NoteRequest(entry, m.flowSeq)
      [] m.cmd = "send_completed"  -> /\ entry' = AfterDone(entry, m.flowSeq)
                                      /\ UNCHANGED permitSocket
      [] m.cmd = "request_to_send_more" ->
            NoteRequest(AfterDone(entry, m.flowSeq), NextFlow(m.flowSeq))

FlowArrives ==
    \E i \in Next1(flowSocket) :
        /\ DoFlowRequest(flowSocket[i])
        /\ flowSocket' = RemoveAt(flowSocket, i)
        /\ UNCHANGED <<senderVars, packetsSeen, delivered, twice, dataSocket, losses>>

GrantPermit ==
    /\ MayGrantTo(entry)
    /\ \E n \in 1 .. MaxSlotsPerSender :
          /\ entry' = AfterGrant(entry, n)
          /\ SendPermitToSend(entry.flowSeq, n)
    /\ UNCHANGED <<senderVars, packetsSeen, delivered, twice, flowSocket, dataSocket, losses>>

ExpirePermit ==
    /\ entry.active # <<>>
    /\ \E abandon \in BOOLEAN : entry' = AfterExpiry(entry, abandon)
    /\ UNCHANGED <<senderVars, packetsSeen, delivered, twice, netVars>>

\* The data thread passes a flow message from the data socket to the flow thread.
RedirectFlowMsg ==
    /\ dataSocket # <<>>
    /\ Head(dataSocket).cmd # "data"
    /\ HasRoom(flowSocket)
    /\ flowSocket' = Append(flowSocket, Head(dataSocket))
    /\ dataSocket' = Tail(dataSocket)
    /\ UNCHANGED <<senderVars, receiverVars, permitSocket, losses>>

\* It notes a packet, and passes it to the collators unless it is a duplicate.
DataArrives ==
    /\ dataSocket # <<>>
    /\ Head(dataSocket).cmd = "data"
    /\ LET p   == Head(dataSocket)
           seq == p.n % SeqSpace
           new == IF IsDuplicate(packetsSeen, seq, p.resent) THEN {} ELSE {p.n}
       IN  /\ packetsSeen' = NoteSeen(packetsSeen, seq, p.resent)
           /\ delivered' = delivered \cup new
           /\ twice' = twice \cup (new \cap delivered)
    /\ dataSocket' = Tail(dataSocket)
    /\ UNCHANGED <<senderVars, entry, flowSocket, permitSocket, losses>>
-----------------------------------------------------------------------------
\* The network loses something.
LoseFrom(socket, changed) == \E i \in DOMAIN socket : changed = RemoveAt(socket, i)

Lose ==
    /\ losses < MaxLosses
    /\ losses' = losses + 1
    /\ \/ LoseFrom(flowSocket, flowSocket') /\ UNCHANGED <<dataSocket, permitSocket>>
       \/ LoseFrom(dataSocket, dataSocket') /\ UNCHANGED <<flowSocket, permitSocket>>
       \/ LoseFrom(permitSocket, permitSocket') /\ UNCHANGED <<flowSocket, dataSocket>>
    /\ UNCHANGED <<senderVars, receiverVars>>

TransportNext ==
    \/ PushData
    \/ ResendRequest
    \/ GiveUp
    \/ RemoveData
    \/ PermitArrives
    \/ FlowArrives
    \/ GrantPermit
    \/ ExpirePermit
    \/ RedirectFlowMsg
    \/ DataArrives
    \/ Lose

\* What the code's threads keep doing: reading their sockets, resending a
\* request that has expired, granting permits that can be granted and expiring
\* them.  Nothing says that packets are queued or lost, or that the sender gives
\* up; a request that it never gives up is resent.  A step that writes to
\* a socket is only ever disabled by the bound on that socket, which the code
\* does not have: strong fairness makes up for it.
Fairness ==
    /\ WF_vars(ResendRequest)
    /\ WF_vars(ExpirePermit)
    /\ WF_vars(DataArrives)
    /\ SF_vars(PermitArrives)
    /\ SF_vars(FlowArrives)
    /\ SF_vars(GrantPermit)
    /\ SF_vars(RedirectFlowMsg)

TransportSpec == TransportInit /\ [][TransportNext]_vars
FairSpec      == TransportSpec /\ Fairness
-----------------------------------------------------------------------------
\* The sender only forgets packets that have been handed to the collators, with
\* the permits the receiver really sends: they may be late, repeated, or
\* written for a request that has been overtaken.
NothingForgotten ==
    \A n \in 0 .. nextSendSequence - 1 :
        n \in delivered \/ \E e \in resendList.entries : PacketOf(e) = n

\* A sender that has packets to send keeps asking, and so does one that has
\* packets to have confirmed, unless it has given up since its last request:
\* sendDone never ends the last request too early, and an abort() that comes
\* before it leaves nothing in the queues that nobody asks for.
AsksUntilDone ==
    \/ requestActive
    \/ PacketsQueued = 0 /\ (givenUp \/ resendList.entries = {})

\* Every packet that is queued reaches the collators, however requests, permits
\* and data are lost on the way, as long as losses come to an end.  The excuses
\* are those of the code: the packet was removed from the queues before it was
\* sent, or the sender has given its request up with packets unconfirmed and
\* nothing has been queued since that would make it ask again.
AllDelivered ==
    \A n \in 0 .. MaxSend - 1 :
        (pushed > n) ~> \/ n \in delivered
                        \/ pushed <= n
                        \/ ~requestActive /\ resendList.entries # {}
=============================================================================
