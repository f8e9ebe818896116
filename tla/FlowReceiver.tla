---------------------------- MODULE FlowReceiver ----------------------------
(* What the receiving side of the flow control does for one sender, leaving   *)
(* out the other senders, the lists and the threads: it remembers the latest  *)
(* request, and the permits that are out with the packets they still allow.   *)
(* UdpReceiveFlow is shown to implement this, and UdpTransport is built on it. *)
EXTENDS SequenceNumbers, Subsequences

CONSTANTS
    MaxPermitsPerSender,    \* MaxPermitsPerSender
    MaxSlotsPerSender,      \* maxSlotsPerSender
    MaxStart                \* the most packets a send_start announces: TRACKER_BITS
                            \* if all missing packets are resent, whatever the
                            \* permit allows (udpResendAllMissingPackets)

VARIABLE entry    \* [state, flowSeq, active]: the active permits, oldest
                  \* first, each with its flowSeq and the slots it reserves

NewEntry == [state |-> "idle", flowSeq |-> 0, active |-> <<>>]

\* The test (int)(permit.flowSeq - flowSeq) <= 0 of noteDone.
CoveredBy(g, f) == g = f \/ IsEarlier(g, f)

PermitsOf(e, f) == {i \in DOMAIN e.active : e.active[i].flowSeq = f}

\* A completed message for f ends all permits up to f, and the request f.
AfterDone(e, f) ==
    [e EXCEPT !.active = KeepAt(e.active, {i \in DOMAIN e.active : ~CoveredBy(e.active[i].flowSeq, f)}),
              !.state  = IF f = e.flowSeq THEN "idle" ELSE e.state]

\* A request for a flow that has no permit becomes the current one.
AfterRequest(e, f) ==
    IF PermitsOf(e, f) # {} THEN e ELSE [e EXCEPT !.state = "requested", !.flowSeq = f]

MayGrantTo(e) == e.state = "requested" /\ Len(e.active) < MaxPermitsPerSender

AfterGrant(e, n) ==
    [e EXCEPT !.state = "granted", !.active = Append(@, [flowSeq |-> e.flowSeq, slots |-> n])]

\* The oldest permit expires: the request is pending again, unless the
\* receiver has lost patience with the sender.
AfterExpiry(e, abandon) ==
    [e EXCEPT !.active = Tail(@),
              !.state  = IF e.state = "requested" \/ ~abandon THEN "requested"
                         ELSE IF Len(e.active) = 1 THEN "idle" ELSE e.state]

\* The sender says how many packets it sends under permit i, or one of them
\* arrives.
AfterStart(e, i, n) == [e EXCEPT !.active[i].slots = n]
AfterPacket(e, i)   == [e EXCEPT !.active[i].slots = IF @ > 0 THEN @ - 1 ELSE 0]

Init == entry = NewEntry

Next ==
    \/ \E f \in FlowSeq : entry' = AfterDone(entry, f) \/ entry' = AfterRequest(entry, f)
    \/ \E n \in 1 .. MaxSlotsPerSender : MayGrantTo(entry) /\ entry' = AfterGrant(entry, n)
    \/ entry.active # <<>> /\ \E abandon \in BOOLEAN : entry' = AfterExpiry(entry, abandon)
    \/ \E i \in DOMAIN entry.active :
          \/ \E n \in 0 .. MaxStart : entry' = AfterStart(entry, i, n)
          \/ entry' = AfterPacket(entry, i)

Spec == Init /\ [][Next]_entry
=============================================================================
