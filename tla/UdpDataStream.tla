---------------------------- MODULE UdpDataStream ----------------------------
(* The data path from one sender to one receiver: UdpReceiverEntry::sendData  *)
(* with its resend list (udptrs.cpp) and the data thread of the receiver with *)
(* its packet tracker (udptrr.cpp), over a data socket that loses packets.    *)
(*                                                                            *)
(* The n-th packet ever sent carries the sequence number n % SeqSpace, and the  *)
(* code only sees that number.  The flow messages that lead to a permit are   *)
(* modelled elsewhere: here a permit is a copy of the tracker, taken at any   *)
(* time after the request for it, that the sender may get late, twice or      *)
(* never.  A permit for an earlier request is ignored by sendData, so the     *)
(* permits that still count are those for activeFlowSequence.                 *)
EXTENDS UdpResendList, Sequences

CONSTANTS
    MaxData,       \* the most packets one permit allows (max_data)
    ResendDelay,   \* udpResendDelay # 0: a missing packet may not be due yet
    MaxSend,       \* bound: packets ever sent
    MaxWire,       \* bound: packets in the network
    MaxPermits,    \* bound: permits in the network
    MaxFaults      \* bound: restarts of the sender, and packets that overtake
                   \* others or arrive twice

\* CReceiveManager's constructor limits the slots of one client, and so
\* max_data, to TRACKER_BITS.  A permit that still counts may be two windows
\* old, which is less than the range in which sequence numbers are compared.
ASSUME StreamAssumption ==
    /\ MaxData \in 0 .. TrackerBits
    /\ 4 * TrackerBits <= SeqSpace
    /\ ResendDelay \in BOOLEAN
    /\ {MaxSend, MaxWire, MaxPermits, MaxFaults} \subseteq Nat

VARIABLES
    nextSendSequence,  \* packets sent since the sender (re)started
    resendList,        \* the sender's UdpResendList
    requestActive,     \* its requestExpiryTime # 0
    wire,              \* data packets in the network
    permits,           \* trackers in the permits for activeFlowSequence in the network
    packetsSeen,       \* the receiver's PacketTracker for this sender
    restarts,          \* how often the sender has restarted
    disorder,          \* how often a packet overtook others or came twice
    delivered,         \* history: packets of this process handed to the collators
    twice,             \* history: packets handed to the collators again
    appendFailed       \* did append throw or meet an occupied slot?

vars == <<nextSendSequence, resendList, requestActive, wire, permits, packetsSeen, restarts,
          disorder, delivered, twice, appendFailed>>

\* A packet on the wire: n is its identity, only n % SeqSpace and the
\* UDP_PACKET_RESENT flag are in its header.
Packet == [n : 0 .. MaxSend - 1, resent : BOOLEAN]

\* Which packet an entry of the resend list is a copy of.
PacketOf(e) == nextSendSequence - Delta(nextSendSequence, e)

Init ==
    /\ nextSendSequence = 0
    /\ resendList = EmptyResendList
    /\ requestActive = FALSE
    /\ wire = <<>>
    /\ permits = {}
    /\ packetsSeen = NewTracker
    /\ restarts = 0
    /\ disorder = 0
    /\ delivered = {}
    /\ twice = {}
    /\ appendFailed = FALSE

\* The receiver copies its tracker into a permit (sendPermitToSend).
IssuePermit ==
    /\ Cardinality(permits) < MaxPermits
    /\ permits' = permits \cup {packetsSeen}
    /\ UNCHANGED <<nextSendSequence, resendList, requestActive, wire, packetsSeen, restarts,
                   disorder, delivered, twice, appendFailed>>

LosePermit ==
    /\ \E seen \in permits : permits' = permits \ {seen}
    /\ UNCHANGED <<nextSendSequence, resendList, requestActive, wire, packetsSeen, restarts,
                   disorder, delivered, twice, appendFailed>>

\* requestToSendNew: a new flow sequence number makes every permit on its way
\* out of date.
NewRequest ==
    /\ ~requestActive
    /\ requestActive' = TRUE
    /\ permits' = {}
    /\ UNCHANGED <<nextSendSequence, resendList, wire, packetsSeen, restarts, disorder,
                   delivered, twice, appendFailed>>

\* abort(): the sender gives its request up, and what it has not sent.  The
\* flow sequence number stays, so permits for it still count.
GiveUp ==
    /\ requestActive
    /\ requestActive' = FALSE
    /\ UNCHANGED <<nextSendSequence, resendList, wire, permits, packetsSeen, restarts, disorder,
                   delivered, twice, appendFailed>>

\* sendData: release what the permit confirms, resend what is missing, send k
\* packets from the queues, and keep copies of those.
SendData(seen, space, due, k) ==
    LET list   == NoteRead(resendList, seen, space, due)
        resend == ToResend(resendList, seen, space, due)
        old    == InOrder(resendList, resend)
        oldPkts == [i \in DOMAIN old |->
                      [n |-> PacketOf(old[i]), resent |-> TRUE]]
        newPkts == [i \in 1 .. k |->
                      [n |-> nextSendSequence + i - 1, resent |-> FALSE]]
    IN  /\ k <= NewPacketLimit(list, nextSendSequence, space, Cardinality(resend))
        /\ nextSendSequence + k <= MaxSend
        /\ Len(wire) + Len(old) + k <= MaxWire
        /\ wire' = wire \o oldPkts \o newPkts
        /\ resendList' = AppendRange(list, nextSendSequence, k)
        /\ appendFailed' = (appendFailed \/ AppendRangeFails(list, nextSendSequence, k))
        /\ nextSendSequence' = nextSendSequence + k
        /\ UNCHANGED <<packetsSeen, restarts, disorder, delivered, twice>>

\* The data thread acts on a permit; once the request has been given up there is
\* nothing in the queues.  If packets remain to be confirmed and no abort() has
\* come before it, sendDone asks for the next permit under a new flow sequence
\* number, which makes every other permit on its way out of date.  Otherwise the
\* request ends under the number it has.
UsePermit ==
    \E seen \in permits, space \in 0 .. MaxData, k \in 0 .. MaxData,
       due \in IF ResendDelay THEN SUBSET resendList.entries ELSE {resendList.entries} :
        /\ k > 0 => requestActive
        /\ SendData(seen, space, due, k)
        /\ requestActive' \in BOOLEAN
        /\ requestActive' => requestActive /\ permits' = {}
        /\ ~requestActive' => permits' \in {permits, permits \ {seen}}

\* The data thread of the receiver: note the packet, hand it to the collators
\* unless it is a duplicate.
Receive(p) ==
    LET seq == p.n % SeqSpace
    IN  /\ packetsSeen' = NoteSeen(packetsSeen, seq, p.resent)
        /\ IF IsDuplicate(packetsSeen, seq, p.resent)
           THEN UNCHANGED <<delivered, twice>>
           ELSE /\ delivered' = delivered \cup {p.n}
                /\ twice' = twice \cup ({p.n} \cap delivered)
        /\ UNCHANGED <<nextSendSequence, resendList, requestActive, permits, restarts,
                       appendFailed>>

\* The next packet arrives.
Arrive ==
    /\ wire # <<>>
    /\ wire' = Tail(wire)
    /\ Receive(Head(wire))
    /\ UNCHANGED disorder

\* A packet overtakes those before it, or arrives and stays to arrive again.
ArriveDisordered ==
    /\ disorder + restarts < MaxFaults
    /\ disorder' = disorder + 1
    /\ \E i \in DOMAIN wire :
          /\ wire' \in {wire} \cup (IF i = 1 THEN {} ELSE {RemoveAt(wire, i)})
          /\ Receive(wire[i])

LosePacket ==
    /\ \E i \in DOMAIN wire : wire' = RemoveAt(wire, i)
    /\ UNCHANGED <<nextSendSequence, resendList, requestActive, permits, packetsSeen, restarts,
                   disorder, delivered, twice, appendFailed>>

\* The agent process restarts: its counters and resend list are new, the
\* receiver keeps its tracker, and nothing of the old process is in flight.
RestartSender ==
    /\ disorder + restarts < MaxFaults
    /\ restarts' = restarts + 1
    /\ nextSendSequence' = 0
    /\ resendList' = EmptyResendList
    /\ requestActive' = FALSE
    /\ wire' = <<>>
    /\ permits' = {}
    /\ delivered' = {}
    /\ twice' = {}
    /\ UNCHANGED <<packetsSeen, disorder, appendFailed>>

Next ==
    \/ IssuePermit
    \/ LosePermit
    \/ NewRequest
    \/ GiveUp
    \/ UsePermit
    \/ Arrive
    \/ ArriveDisordered
    \/ LosePacket
    \/ RestartSender

Spec == Init /\ [][Next]_vars
-----------------------------------------------------------------------------
TypeOK ==
    /\ nextSendSequence \in 0 .. MaxSend
    /\ resendList \in ResendList
    /\ requestActive \in BOOLEAN
    /\ wire \in Seq(Packet)
    /\ permits \subseteq Tracker
    /\ packetsSeen \in Tracker
    /\ restarts \in 0 .. MaxFaults
    /\ disorder \in 0 .. MaxFaults
    /\ delivered \subseteq 0 .. MaxSend - 1
    /\ twice \subseteq delivered
    /\ appendFailed \in BOOLEAN

\* So far the data socket has kept the order, and the sender has not restarted.
Orderly == disorder = 0 /\ restarts = 0

\* noteRead "release[s] any packets that are confirmed delivered": a packet
\* this sender process has sent and no longer keeps a copy of has been handed
\* to the receiver's collators.  Otherwise the packet is lost for good.
ConfirmedAreDelivered ==
    \A n \in 0 .. nextSendSequence - 1 :
        \/ n \in delivered
        \/ \E e \in resendList.entries : PacketOf(e) = n

\* This holds, whatever is lost, as long as data packets stay in order.
ReleasedOnlyIfDelivered == Orderly => ConfirmedAreDelivered

\* noteSeen tells the receiver "whether we had already seen" a packet: no
\* packet is handed to the collators twice while data packets stay in order.
DeliveredOnce == Orderly => twice = {}

\* The receiver can still place every packet the sender may have to resend,
\* and the resend list never overwrites an entry: neither the throw and the
\* assert of append nor the assert(inflight <= TRACKER_BITS) of sendData fire.
WindowRespected ==
    /\ ~appendFailed
    /\ resendList.entries # {} =>
          /\ nextSendSequence - PacketOf(resendList.first) <= TrackerBits
          /\ resendList.first \in resendList.entries
=============================================================================
