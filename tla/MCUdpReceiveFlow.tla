-------------------------- MODULE MCUdpReceiveFlow --------------------------
(* UdpReceiveFlow for TLC, and its relation to FlowReceiver.                 *)
EXTENDS UdpReceiveFlow, Subsequences

\* One sender as FlowReceiver sees it.  noteDone counts as done when the flow
\* thread reads the message: what it still has to revoke is left out.
Ending(s) == flowPc = "done" /\ msg.from = s

OwnPermits(s) ==
    KeepAt(pendingPermits,
           {i \in DOMAIN pendingPermits :
               /\ pendingPermits[i][1] = s
               /\ ~(Ending(s) /\ pendingPermits[i][2] \in CompletedIds(msg))})

EntryOf(s) ==
    [state   |-> IF Ending(s) /\ msg.flowSeq = flowSeq[s] THEN "idle" ELSE state[s],
     flowSeq |-> flowSeq[s],
     active  |-> LET own == OwnPermits(s)
                 IN  [i \in DOMAIN own |->
                        [flowSeq |-> permits[own[i]].flowSeq, slots |-> NumReserved(own[i])]]]

\* The senders are treated alike, so one of them stands for all.
AnySender == CHOOSE s \in Senders : TRUE

Entry == INSTANCE FlowReceiver WITH entry <- EntryOf(AnySender)

\* With its lists, slots, partial revocations and concurrent data thread, the
\* receiver treats every sender as FlowReceiver says: it neither forgets an
\* acknowledged request nor a permit, and it does not invent any.
ImplementsFlowReceiver == Entry!Spec
=============================================================================
