------------------------- MODULE UdpSendFlow_proofs -------------------------
(* The counter of queued packets, the permit queue and the resend window of   *)
(* UdpSendFlow stay right for any number of workers, any queue sizes and any  *)
(* width of sequence numbers.                                                 *)
EXTENDS MCUdpSendFlow, FiniteSetTheorems, SequenceTheorems, TLAPS

\* The successor of a flow sequence number is a flow sequence number: the
\* value 0, which stands for "no permit", is skipped.
LEMMA NextFlowType ==
    ASSUME NEW f \in Sequence
    PROVE  NextFlow(f) \in FlowSeq
  BY SequenceAssumption DEF NextFlow, FlowSeq, Sequence

\* The workers that have pushed a packet and not yet counted it.
Uncounted == {w \in Workers : workerPc[w] = "count"}

\* Their number.
LEMMA UncountedFinite == IsFiniteSet(Uncounted) /\ Cardinality(Uncounted) \in Nat
  <1>1. IsFiniteSet(Workers) /\ Uncounted \subseteq Workers
    BY SendFlowAssumption DEF Uncounted
  <1>2. IsFiniteSet(Uncounted)
    BY <1>1, FS_Subset
  <1> QED  BY <1>2, FS_CardinalityType

\* The counter in terms of it.
LEMMA CounterByUncounted ==
    CounterExact <=> packetsQueued = outputQueue - Cardinality(Uncounted)
                                     + (IF dataPc = "uncount" THEN 1 ELSE 0) + removed
  BY DEF CounterExact, Uncounted

\* A step that leaves the counter, the queue and those who are about to change
\* the counter alone does not disturb it.
LEMMA CounterUndisturbed ==
    ASSUME CounterExact,
           UNCHANGED <<packetsQueued, outputQueue, removed>>,
           (dataPc = "uncount") <=> (dataPc' = "uncount"),
           Uncounted' = Uncounted
    PROVE  CounterExact'
  BY DEF CounterExact, Uncounted

\* The initial state.
LEMMA InitConsistent == Init => ConsistentSend
  <1> SUFFICES ASSUME Init PROVE ConsistentSend
    OBVIOUS
  <1>1. TypeOK
    <2>1. 0 \in Sequence /\ QueueSize \in Nat /\ PermitQueueSize \in Nat
      BY SequenceAssumption, SendFlowAssumption DEF Sequence
    <2>2. permit \in [flowSeq : Sequence, max_data : Nat]
      BY <2>1 DEF Init, NoPermit
    <2>3. requestActive \in BOOLEAN
      BY Zenon DEF Init
    <2>4. sendQueue \in Seq(PermitMsg) /\ workerPc \in [Workers -> {"idle", "count", "request"}]
      BY DEF Init
    <2> QED  BY <2>1, <2>2, <2>3, <2>4 DEF Init, TypeOK
  <1>2. PermitsFit /\ WindowFits
    BY SendFlowAssumption DEF Init, PermitsFit, WindowFits
  <1>3. Uncounted = {}
    BY DEF Uncounted, Init
  <1>4. CounterExact
    BY <1>3, CounterByUncounted, FS_EmptySet DEF Init
  <1> QED  BY <1>1, <1>2, <1>4 DEF ConsistentSend
-----------------------------------------------------------------------------
(* The workers.                                                               *)

\* pushData: the queue grows first, the counter follows.
LEMMA WorkerKeeps ==
    ASSUME ConsistentSend, NEW w \in Workers, WorkerStep(w)
    PROVE  ConsistentSend'
  <1> USE DEF queueVars, requestVars, permitVars, dataVars, abortVars
  <1>1. CASE PushOwnWait(w)
    <2>1. TypeOK' /\ PermitsFit' /\ WindowFits'
      BY <1>1, SendFlowAssumption DEF ConsistentSend, TypeOK, PermitsFit, WindowFits, PushOwnWait
    <2>2. Uncounted' = Uncounted \cup {w} /\ w \notin Uncounted
      BY <1>1 DEF ConsistentSend, TypeOK, PushOwnWait, Uncounted
    <2>3. Cardinality(Uncounted') = Cardinality(Uncounted) + 1
      BY <2>2, UncountedFinite, FS_AddElement
    <2>4. CounterExact'
      BY <1>1, <2>3, UncountedFinite, CounterByUncounted
         DEF ConsistentSend, TypeOK, CounterExact, Uncounted, PushOwnWait
    <2> QED  BY <2>1, <2>4 DEF ConsistentSend
  <1>2. CASE CountPushed(w)
    <2>1. TypeOK' /\ PermitsFit' /\ WindowFits'
      BY <1>2 DEF ConsistentSend, TypeOK, PermitsFit, WindowFits, CountPushed
    <2>2. Uncounted' = Uncounted \ {w} /\ w \in Uncounted
      BY <1>2 DEF ConsistentSend, TypeOK, CountPushed, Uncounted
    <2>3. Cardinality(Uncounted') = Cardinality(Uncounted) - 1
      BY <2>2, UncountedFinite, FS_RemoveElement
    <2>4. CounterExact'
      BY <1>2, <2>3, UncountedFinite, CounterByUncounted
         DEF ConsistentSend, TypeOK, CounterExact, Uncounted, CountPushed
    <2> QED  BY <2>1, <2>4 DEF ConsistentSend
  <1>3. CASE RequestToSendNew(w)
    <2>1. NextFlow(activeFlowSequence) \in Sequence
      BY NextFlowType DEF ConsistentSend, TypeOK, FlowSeq
    <2>2. TypeOK' /\ PermitsFit' /\ WindowFits'
      BY <1>3, <2>1 DEF ConsistentSend, TypeOK, PermitsFit, WindowFits, RequestToSendNew
    <2>3. Uncounted' = Uncounted
      BY <1>3 DEF ConsistentSend, TypeOK, RequestToSendNew, Uncounted
    <2>4. CounterExact'
      BY <1>3, <2>3, CounterUndisturbed DEF ConsistentSend, RequestToSendNew
    <2> QED  BY <2>2, <2>4 DEF ConsistentSend
  <1> QED  BY <1>1, <1>2, <1>3 DEF WorkerStep
-----------------------------------------------------------------------------
(* The flow thread.                                                           *)

\* A permit takes a token for each place it uses in send_queue.
LEMMA FlowKeeps ==
    ASSUME ConsistentSend, FlowStep
    PROVE  ConsistentSend'
  <1> USE DEF queueVars, requestVars, permitVars, dataVars, abortVars
  <1>1. CounterExact'
    <2>1. Uncounted' = Uncounted
      BY DEF FlowStep, RequestAcknowledged, PermitReceived, PermitIgnored, NotePermitReceived, Uncounted
    <2> QED  BY <2>1, CounterUndisturbed
             DEF ConsistentSend, FlowStep, RequestAcknowledged, PermitReceived, PermitIgnored,
                 NotePermitReceived
  <1>2. CASE RequestAcknowledged \/ \E p \in PermitMsg : PermitIgnored(p)
    <2>1. TypeOK' /\ PermitsFit' /\ WindowFits'
      BY <1>2 DEF ConsistentSend, TypeOK, PermitsFit, WindowFits, RequestAcknowledged, PermitIgnored
    <2> QED  BY <1>1, <2>1 DEF ConsistentSend
  <1>3. CASE \E p \in PermitMsg : PermitReceived(p)
    <2> PICK p \in PermitMsg : PermitReceived(p)
      BY <1>3
    <2>1. noting' \in Sequence
      BY DEF PermitMsg, FlowSeq, PermitReceived
    <2>2. sendQueue' \in Seq(PermitMsg) /\ Len(sendQueue') <= Len(sendQueue) + 1
      BY DEF ConsistentSend, TypeOK, PermitReceived
    <2>3. freeSpace \in 1 .. PermitQueueSize /\ freeSpace' = freeSpace - 1
          /\ PermitQueueSize \in Nat /\ Len(sendQueue) \in Nat /\ Len(sendQueue') \in Nat
      BY <2>2, SendFlowAssumption DEF ConsistentSend, TypeOK, PermitReceived
    <2>4. freeSpace' \in 0 .. PermitQueueSize /\ PermitsFit'
      BY <2>2, <2>3 DEF ConsistentSend, PermitsFit
    <2>5. TypeOK'
      BY <2>1, <2>2, <2>4 DEF ConsistentSend, TypeOK, PermitReceived
    <2>6. WindowFits'
      BY DEF ConsistentSend, WindowFits, PermitReceived
    <2> QED  BY <1>1, <2>4, <2>5, <2>6 DEF ConsistentSend
  <1>4. CASE NotePermitReceived
    <2>1. noting' \in Sequence /\ activePermitSeq' \in Sequence /\ timeouts' \in Nat
      BY <1>4, SequenceAssumption DEF ConsistentSend, TypeOK, NotePermitReceived, Sequence
    <2>2. TypeOK' /\ PermitsFit' /\ WindowFits'
      BY <1>4, <2>1 DEF ConsistentSend, TypeOK, PermitsFit, WindowFits, NotePermitReceived
    <2> QED  BY <1>1, <2>2 DEF ConsistentSend
  <1> QED  BY <1>2, <1>3, <1>4 DEF FlowStep
-----------------------------------------------------------------------------
(* The data thread.                                                           *)

\* A permit taken off send_queue gives its token back.
LEMMA TakePermitFits ==
    ASSUME ConsistentSend, sendQueue # <<>>,
           sendQueue' = Tail(sendQueue), freeSpace' = freeSpace + 1
    PROVE  /\ sendQueue' \in Seq(PermitMsg)
           /\ freeSpace' \in 0 .. PermitQueueSize
           /\ PermitsFit'
  <1>1. sendQueue \in Seq(PermitMsg) /\ freeSpace \in 0 .. PermitQueueSize
        /\ PermitQueueSize \in Nat /\ freeSpace + Len(sendQueue) <= PermitQueueSize
    BY SendFlowAssumption DEF ConsistentSend, TypeOK, PermitsFit
  <1>2. /\ Tail(sendQueue) \in Seq(PermitMsg) /\ Len(sendQueue) \in Nat \ {0}
        /\ Len(Tail(sendQueue)) = Len(sendQueue) - 1
    BY <1>1
  <1> QED  BY <1>1, <1>2 DEF PermitsFit

\* noteRead and the limit on new packets: what is allowed fits in the window.
LEMMA StartSendingKeeps ==
    ASSUME ConsistentSend, NEW confirmed \in 0 .. unacked, NEW resent \in 0 .. unacked,
           StartSending(confirmed, resent)
    PROVE  ConsistentSend'
  <1> USE DEF queueVars, requestVars, permitVars, dataVars, abortVars
  <1> DEFINE left == unacked - confirmed
             max  == Head(sendQueue).max_data
             room == IF resent <= max THEN max - resent ELSE 0
             most == IF room > MaxUnacked - left THEN MaxUnacked - left ELSE room
  <1>1. unacked \in Nat /\ confirmed \in Nat /\ resent \in Nat /\ MaxUnacked \in Nat /\ MaxData \in Nat
        /\ confirmed <= unacked
    BY SendFlowAssumption DEF ConsistentSend, TypeOK
  <1>2. unacked <= MaxUnacked
    <2>1. dataPc = "wait"
      BY DEF StartSending
    <2> QED  BY <1>1, <2>1 DEF ConsistentSend, WindowFits
  <1>3. sendQueue \in Seq(PermitMsg) /\ sendQueue # <<>>
    BY DEF ConsistentSend, TypeOK, StartSending
  <1>4. max \in Nat
    <2>1. Head(sendQueue) \in PermitMsg
      BY <1>3
    <2> QED  BY <1>1, <2>1 DEF PermitMsg
  <1>5. left \in Nat /\ most \in Nat /\ left + most <= MaxUnacked
    BY <1>1, <1>2, <1>4
  <1>6. /\ unacked' = left
        /\ permit' = [flowSeq |-> activeFlowSequence, max_data |-> most]
        /\ sending' = resent
        /\ dataPc = "wait" /\ dataPc' = "gather"
    BY DEF StartSending
  <1> HIDE DEF left, max, room, most
  <1>7. /\ sendQueue' \in Seq(PermitMsg)
        /\ freeSpace' \in 0 .. PermitQueueSize
        /\ PermitsFit'
    BY <1>3, TakePermitFits DEF StartSending
  <1>8. WindowFits'
    BY <1>5, <1>6 DEF WindowFits
  <1>9. permit' \in [flowSeq : Sequence, max_data : Nat]
    BY <1>5, <1>6 DEF ConsistentSend, TypeOK
  <1>10. TypeOK'
    BY <1>1, <1>5, <1>6, <1>7, <1>9 DEF ConsistentSend, TypeOK, StartSending
  <1>11. CounterExact'
    <2>1. Uncounted' = Uncounted
      BY DEF StartSending, Uncounted
    <2> QED  BY <1>6, <2>1, CounterUndisturbed DEF ConsistentSend, StartSending
  <1> QED  BY <1>7, <1>8, <1>10, <1>11 DEF ConsistentSend

\* The gather loop and sendDone.
LEMMA DataKeeps ==
    ASSUME ConsistentSend, DataStep
    PROVE  ConsistentSend'
  <1> USE DEF queueVars, requestVars, permitVars, dataVars, abortVars
  <1>1. CASE IgnoreOldPermit
    <2>1. /\ sendQueue' \in Seq(PermitMsg)
          /\ freeSpace' \in 0 .. PermitQueueSize
          /\ PermitsFit'
      BY <1>1, TakePermitFits DEF IgnoreOldPermit
    <2>2. TypeOK' /\ WindowFits'
      BY <1>1, <2>1 DEF ConsistentSend, TypeOK, WindowFits, IgnoreOldPermit
    <2>3. CounterExact'
      <3>1. Uncounted' = Uncounted
        BY <1>1 DEF IgnoreOldPermit, Uncounted
      <3> QED  BY <1>1, <3>1, CounterUndisturbed DEF ConsistentSend, IgnoreOldPermit
    <2> QED  BY <2>1, <2>2, <2>3 DEF ConsistentSend
  <1>2. CASE \E confirmed, resent \in 0 .. unacked : StartSending(confirmed, resent)
    BY <1>2, StartSendingKeeps
  <1>3. CASE PopQueued
    <2>1. /\ unacked \in Nat /\ outputQueue \in 1 .. QueueSize /\ sending \in Nat
          /\ permit \in [flowSeq : Sequence, max_data : Nat] /\ permit.max_data > 0
          /\ QueueSize \in Nat /\ MaxUnacked \in Nat
      BY <1>3, SendFlowAssumption DEF ConsistentSend, TypeOK, PopQueued
    <2>2. /\ permit' \in [flowSeq : Sequence, max_data : Nat]
          /\ permit'.max_data = permit.max_data - 1
      BY <1>3, <2>1 DEF PopQueued
    <2>3. WindowFits'
      BY <1>3, <2>1, <2>2 DEF ConsistentSend, WindowFits, PopQueued
    <2>4. TypeOK' /\ PermitsFit'
      <3>1. outputQueue' \in 0 .. QueueSize /\ sending' \in Nat /\ unacked' \in Nat
        BY <1>3, <2>1 DEF PopQueued
      <3> QED  BY <1>3, <2>2, <3>1 DEF ConsistentSend, TypeOK, PermitsFit, PopQueued
    <2>5. Uncounted' = Uncounted
      BY <1>3 DEF PopQueued, Uncounted
    <2>6. CounterExact'
      BY <1>3, <2>1, <2>5, UncountedFinite
         DEF ConsistentSend, TypeOK, CounterExact, Uncounted, PopQueued
    <2> QED  BY <2>3, <2>4, <2>6 DEF ConsistentSend
  <1>4. CASE UncountPopped
    <2>1. TypeOK' /\ PermitsFit' /\ WindowFits'
      BY <1>4 DEF ConsistentSend, TypeOK, PermitsFit, WindowFits, UncountPopped
    <2>2. Uncounted' = Uncounted
      BY <1>4 DEF UncountPopped, Uncounted
    <2>3. CounterExact'
      BY <1>4, <2>2, UncountedFinite
         DEF ConsistentSend, TypeOK, CounterExact, Uncounted, UncountPopped
    <2> QED  BY <2>1, <2>3 DEF ConsistentSend
  <1>5. CASE WritePackets
    <2>1. WindowFits'
      BY <1>5, SendFlowAssumption DEF ConsistentSend, TypeOK, WindowFits, WritePackets
    <2>2. TypeOK' /\ PermitsFit'
      BY <1>5, SequenceAssumption DEF ConsistentSend, TypeOK, PermitsFit, WritePackets, Sequence
    <2>3. Uncounted' = Uncounted
      BY <1>5 DEF WritePackets, Uncounted
    <2>4. CounterExact'
      BY <1>5, <2>3, CounterUndisturbed DEF ConsistentSend, WritePackets
    <2> QED  BY <2>1, <2>2, <2>4 DEF ConsistentSend
  <1>6. CASE SendDone
    <2>1. activeFlowSequence' \in Sequence /\ requestActive' \in BOOLEAN
      BY <1>6, NextFlowType DEF ConsistentSend, TypeOK, FlowSeq, SendDone
    <2>2. permit' \in [flowSeq : Sequence, max_data : Nat]
      BY <1>6, SequenceAssumption DEF SendDone, NoPermit, Sequence
    <2>3. TypeOK' /\ PermitsFit' /\ WindowFits'
      BY <1>6, <2>1, <2>2 DEF ConsistentSend, TypeOK, PermitsFit, WindowFits, SendDone
    <2>4. Uncounted' = Uncounted
      BY <1>6 DEF SendDone, Uncounted
    <2>5. CounterExact'
      BY <1>6, <2>4, CounterUndisturbed DEF ConsistentSend, SendDone
    <2> QED  BY <2>3, <2>5 DEF ConsistentSend
  <1> QED  BY <1>1, <1>2, <1>3, <1>4, <1>5, <1>6 DEF DataStep
-----------------------------------------------------------------------------
(* Resends and aborts.                                                        *)

\* Only removeData touches the queue and the counter, one after the other.
LEMMA AbortKeeps ==
    ASSUME ConsistentSend, ResendStep \/ AbortStep
    PROVE  ConsistentSend'
  <1> USE DEF queueVars, requestVars, permitVars, dataVars, abortVars
  <1>1. Uncounted' = Uncounted
    BY DEF ResendStep, AbortStep, RequestExpired, ResendRequestToSend, AbortRequest, AbortAll,
           AbortData, RemoveQueued, SubtractRemoved, Uncounted
  <1>2. PermitsFit' /\ WindowFits'
    BY DEF ResendStep, AbortStep, RequestExpired, ResendRequestToSend, AbortRequest, AbortAll,
           AbortData, RemoveQueued, SubtractRemoved, ConsistentSend, PermitsFit, WindowFits
  <1>3. CASE ResendStep
    <2>0. requestActive' \in BOOLEAN
      BY <1>3, Zenon DEF ResendStep, RequestExpired, ResendRequestToSend, AbortRequest,
                         ConsistentSend, TypeOK
    <2>1. TypeOK'
      BY <1>3, <2>0 DEF ResendStep, RequestExpired, ResendRequestToSend, AbortRequest,
                        ConsistentSend, TypeOK
    <2>2. CounterExact'
      BY <1>1, <1>3, CounterUndisturbed
         DEF ResendStep, RequestExpired, ResendRequestToSend, AbortRequest, ConsistentSend
    <2> QED  BY <1>2, <2>1, <2>2 DEF ConsistentSend
  <1>4. CASE AbortAll \/ AbortData
    <2>0. requestActive' \in BOOLEAN
      BY <1>4, Zenon DEF AbortAll, AbortData, ConsistentSend, TypeOK
    <2>1. TypeOK'
      BY <1>4, <2>0 DEF AbortAll, AbortData, ConsistentSend, TypeOK
    <2>2. CounterExact'
      BY <1>1, <1>4, CounterUndisturbed DEF AbortAll, AbortData, ConsistentSend
    <2> QED  BY <1>2, <2>1, <2>2 DEF ConsistentSend
  <1>5. CASE RemoveQueued
    <2>1. PICK n \in 1 .. outputQueue :
             removed = 0 /\ removed' = n /\ outputQueue' = outputQueue - n
      BY <1>5 DEF RemoveQueued
    <2>2. outputQueue \in 0 .. QueueSize /\ QueueSize \in Nat /\ packetsQueued \in Int
      BY SendFlowAssumption DEF ConsistentSend, TypeOK
    <2>3. TypeOK'
      BY <1>5, <2>1, <2>2 DEF RemoveQueued, ConsistentSend, TypeOK
    <2>4. CounterExact'
      BY <1>1, <1>5, <2>1, <2>2, UncountedFinite
         DEF RemoveQueued, ConsistentSend, CounterExact, Uncounted
    <2> QED  BY <1>2, <2>3, <2>4 DEF ConsistentSend
  <1>6. CASE SubtractRemoved
    <2>1. TypeOK'
      BY <1>6 DEF SubtractRemoved, ConsistentSend, TypeOK
    <2>2. CounterExact'
      BY <1>1, <1>6, UncountedFinite
         DEF SubtractRemoved, ConsistentSend, TypeOK, CounterExact, Uncounted
    <2> QED  BY <1>2, <2>1, <2>2 DEF ConsistentSend
  <1> QED  BY <1>3, <1>4, <1>5, <1>6 DEF AbortStep
-----------------------------------------------------------------------------
(* The theorems.                                                              *)

\* No step of any thread leaves the invariant.
LEMMA NextKeeps == ConsistentSend /\ [Next]_vars => ConsistentSend'
  <1> SUFFICES ASSUME ConsistentSend, [Next]_vars PROVE ConsistentSend'
    OBVIOUS
  <1>1. CASE \E w \in Workers : WorkerStep(w)
    BY <1>1, WorkerKeeps
  <1>2. CASE FlowStep
    BY <1>2, FlowKeeps
  <1>3. CASE DataStep
    BY <1>3, DataKeeps
  <1>4. CASE ResendStep \/ AbortStep
    BY <1>4, AbortKeeps
  <1>5. CASE UNCHANGED vars
    BY <1>5 DEF ConsistentSend, TypeOK, PermitsFit, WindowFits, CounterExact,
                vars, queueVars, requestVars, permitVars, dataVars, abortVars
  <1> QED  BY <1>1, <1>2, <1>3, <1>4, <1>5 DEF Next

\* The sender stays consistent, however its threads are interleaved.
THEOREM SendStaysConsistent == Spec => []ConsistentSend
  <1>1. Init => ConsistentSend
    BY InitConsistent
  <1>2. ConsistentSend /\ [Next]_vars => ConsistentSend'
    BY NextKeeps
  <1> QED  BY <1>1, <1>2, PTL DEF Spec

\* packetsQueued differs from the length of the queue only by what some thread
\* has pushed, popped or removed and is about to count, for any number of
\* workers and whatever is aborted.
THEOREM CounterStaysExact == Spec => []CounterExact
  <1>1. ConsistentSend => CounterExact
    BY DEF ConsistentSend
  <1> QED  BY <1>1, SendStaysConsistent, PTL

\* Every variable of the sender keeps its type: the output queue keeps its
\* limit, no permit allows a negative number of packets, and send_queue never
\* hands out more places than it has.
THEOREM SenderTypeCorrect == Spec => []TypeOK
  <1>1. ConsistentSend => TypeOK
    BY DEF ConsistentSend
  <1> QED  BY <1>1, SendStaysConsistent, PTL

-----------------------------------------------------------------------------
(* Nothing is stranded until a request is given up.                           *)

\* While packets are counted there is a request, or a worker about to make one: the
\* counter becomes positive only by a worker that found it at 0.  A permit is noted
\* only once there has been a request, and then the comparison of
\* notePermitReceived is never true.
Asked ==
    /\ ~gaveUp /\ packetsQueued > 0 => requestActive \/ \E w \in Workers : workerPc[w] = "request"
    /\ activePermitSeq = 0
    /\ noting # 0 => activeFlowSequence # 0

\* A new flow sequence number is never 0.
LEMMA NextFlowNonzero ==
    ASSUME NEW f \in Sequence
    PROVE  NextFlow(f) # 0
  <1>1. NextFlow(f) \in FlowSeq
    BY NextFlowType
  <1> QED  BY <1>1 DEF FlowSeq

\* A step that leaves the request, the workers and the history alone, and does not
\* raise the counter, keeps it.
LEMMA AskedUndisturbed ==
    ASSUME TypeOK, Asked, packetsQueued' \in Int, packetsQueued' <= packetsQueued,
           gaveUp => gaveUp', requestActive => requestActive',
           UNCHANGED <<workerPc, activePermitSeq, activeFlowSequence>>,
           noting' # 0 => noting # 0 \/ activeFlowSequence # 0
    PROVE  Asked'
  <1>1. packetsQueued \in Int
    BY DEF TypeOK
  <1>2. packetsQueued' > 0 => packetsQueued > 0
    BY <1>1
  <1>3. ~gaveUp' /\ packetsQueued' > 0 => requestActive' \/ \E w \in Workers : workerPc'[w] = "request"
    BY <1>2 DEF Asked
  <1> QED  BY <1>3 DEF Asked

\* No step of a worker, or of the data, flow or resend thread, strands a packet.
LEMMA AskedKeeps ==
    ASSUME ~StalePermits, ConsistentSend, ConsistentSend', Asked, [MCNext]_<<vars, gaveUp>>
    PROVE  Asked'
  <1> USE DEF queueVars, requestVars, permitVars, dataVars, abortVars
  <1>1. TypeOK /\ packetsQueued \in Int /\ packetsQueued' \in Int /\ removed \in Nat
        /\ activeFlowSequence \in Sequence
    BY DEF ConsistentSend, TypeOK
  <1>2. CASE UNCHANGED <<vars, gaveUp>>
    BY <1>1, <1>2, AskedUndisturbed DEF vars
  <1>3. CASE MCNext
    <2>1. gaveUp => gaveUp'
      BY <1>3 DEF MCNext
    <2>2. CASE \E w \in Workers : PushOwnWait(w) \/ CountPushed(w)
      <3>1. PICK w \in Workers : PushOwnWait(w) \/ CountPushed(w)
        BY <2>2
      <3>2. workerPc \in [Workers -> {"idle", "count", "request"}]
        BY DEF ConsistentSend, TypeOK
      <3>3. UNCHANGED <<requestActive, activePermitSeq, activeFlowSequence, noting>>
        BY <3>1 DEF PushOwnWait, CountPushed
      <3>4. \A v \in Workers : workerPc[v] = "request" => workerPc'[v] = "request"
        BY <3>1, <3>2 DEF PushOwnWait, CountPushed
      <3>5. packetsQueued' > 0 => packetsQueued > 0 \/ workerPc'[w] = "request"
        BY <1>1, <3>1, <3>2 DEF PushOwnWait, CountPushed
      <3>6. ~gaveUp' /\ packetsQueued' > 0
              => requestActive' \/ \E v \in Workers : workerPc'[v] = "request"
        <4> SUFFICES ASSUME ~gaveUp', packetsQueued' > 0, ~requestActive'
                     PROVE  \E v \in Workers : workerPc'[v] = "request"
          OBVIOUS
        <4>1. ~gaveUp /\ ~requestActive
          BY <2>1, <3>3
        <4>2. CASE packetsQueued > 0
          <5>1. PICK v \in Workers : workerPc[v] = "request"
            BY <4>1, <4>2 DEF Asked
          <5> QED  BY <3>4, <5>1
        <4>3. CASE workerPc'[w] = "request"
          BY <4>3
        <4> QED  BY <3>5, <4>2, <4>3
      <3> QED  BY <3>3, <3>6 DEF Asked
    <2>3. CASE \E w \in Workers : RequestToSendNew(w)
      <3>1. /\ requestActive' = TRUE /\ UNCHANGED <<activePermitSeq, noting>>
            /\ activeFlowSequence' = activeFlowSequence \/ activeFlowSequence' # 0
        BY <1>1, <2>3, NextFlowNonzero DEF RequestToSendNew, ConsistentSend, TypeOK
      <3> QED  BY <3>1 DEF Asked
    <2>4. CASE SendDone
      <3>1. UNCHANGED <<packetsQueued, workerPc, activePermitSeq, noting>>
        BY <2>4 DEF SendDone
      <3>2. packetsQueued > 0 /\ requestActive => requestActive'
        <4>1. packetsQueued > 0 => DataRemaining
          BY <1>1 DEF DataRemaining
        <4>2. DataRemaining /\ requestActive => requestActive' = requestActive
          BY <2>4, Zenon DEF SendDone
        <4> QED  BY <4>1, <4>2, Zenon
      <3>3. activeFlowSequence' = activeFlowSequence \/ activeFlowSequence' # 0
        BY <1>1, <2>4, NextFlowNonzero DEF SendDone
      <3> QED  BY <2>1, <3>1, <3>2, <3>3 DEF Asked
    <2>5. CASE NotePermitReceived
      <3>1. UNCHANGED <<packetsQueued, workerPc, activePermitSeq, requestActive>> /\ noting' = 0
        BY <2>5 DEF NotePermitReceived, Asked
      <3> QED  BY <2>1, <3>1 DEF Asked
    <2>6. CASE AbortRequest \/ AbortAll
      <3>1. gaveUp' /\ UNCHANGED <<activePermitSeq, activeFlowSequence, noting>>
        BY <1>3, <2>6 DEF MCNext, AbortRequest, AbortAll
      <3> QED  BY <3>1 DEF Asked
    <2>7. CASE WritePackets
      <3>1. UNCHANGED <<packetsQueued, workerPc, requestActive, activeFlowSequence, noting>>
            /\ activePermitSeq' = 0
        BY <2>7 DEF WritePackets
      <3> QED  BY <2>1, <3>1 DEF Asked
    <2>8. CASE RequestAcknowledged \/ \E p \in PermitMsg : PermitReceived(p) \/ PermitIgnored(p)
      <3>1. /\ UNCHANGED <<workerPc, activePermitSeq, activeFlowSequence, requestActive>>
            /\ noting' # 0 => noting # 0 \/ activeFlowSequence # 0
        BY <2>8 DEF RequestAcknowledged, PermitReceived, PermitIgnored
      <3>2. packetsQueued' <= packetsQueued
        BY <1>1, <2>8 DEF RequestAcknowledged, PermitReceived, PermitIgnored
      <3> QED  BY <1>1, <2>1, <3>1, <3>2, AskedUndisturbed
    <2>9. CASE \E confirmed, resent \in 0 .. unacked : StartSending(confirmed, resent)
      <3>1. /\ UNCHANGED <<workerPc, activePermitSeq, activeFlowSequence, requestActive>>
            /\ noting' # 0 => noting # 0 \/ activeFlowSequence # 0
        BY <2>9 DEF StartSending
      <3>2. packetsQueued' <= packetsQueued
        BY <1>1, <2>9 DEF StartSending
      <3> QED  BY <1>1, <2>1, <3>1, <3>2, AskedUndisturbed
    <2>10. CASE IgnoreOldPermit \/ PopQueued \/ UncountPopped
      <3>1. /\ UNCHANGED <<workerPc, activePermitSeq, activeFlowSequence, requestActive>>
            /\ noting' # 0 => noting # 0 \/ activeFlowSequence # 0
        BY <2>10 DEF IgnoreOldPermit, PopQueued, UncountPopped
      <3>2. packetsQueued' <= packetsQueued
        BY <1>1, <2>10 DEF IgnoreOldPermit, PopQueued, UncountPopped
      <3> QED  BY <1>1, <2>1, <3>1, <3>2, AskedUndisturbed
    <2>11. CASE RequestExpired \/ ResendRequestToSend
      <3>1. /\ UNCHANGED <<workerPc, activePermitSeq, activeFlowSequence, requestActive>>
            /\ noting' # 0 => noting # 0 \/ activeFlowSequence # 0
        BY <2>11 DEF RequestExpired, ResendRequestToSend
      <3>2. packetsQueued' <= packetsQueued
        BY <1>1, <2>11 DEF RequestExpired, ResendRequestToSend
      <3> QED  BY <1>1, <2>1, <3>1, <3>2, AskedUndisturbed
    <2>12. CASE AbortData \/ RemoveQueued \/ SubtractRemoved
      <3>1. /\ UNCHANGED <<workerPc, activePermitSeq, activeFlowSequence, requestActive>>
            /\ noting' # 0 => noting # 0 \/ activeFlowSequence # 0
        BY <2>12 DEF AbortData, RemoveQueued, SubtractRemoved
      <3>2. packetsQueued' <= packetsQueued
        BY <1>1, <2>12 DEF AbortData, RemoveQueued, SubtractRemoved
      <3> QED  BY <1>1, <2>1, <3>1, <3>2, AskedUndisturbed
    <2>13. Next
      BY <1>3 DEF MCNext
    <2>14. CASE \E w \in Workers : WorkerStep(w)
      BY <2>2, <2>3, <2>14 DEF WorkerStep
    <2>15. CASE FlowStep
      BY <2>5, <2>8, <2>15 DEF FlowStep
    <2>16. CASE DataStep
      BY <2>4, <2>7, <2>9, <2>10, <2>16 DEF DataStep
    <2>17. CASE ResendStep \/ AbortStep
      BY <2>6, <2>11, <2>12, <2>17 DEF ResendStep, AbortStep
    <2> QED  BY <2>13, <2>14, <2>15, <2>16, <2>17 DEF Next
  <1> QED  BY <1>2, <1>3

\* Unless permits for an earlier process come in, packets never wait without a request that
\* will be answered or repeated, until send_resend_flow or abortAll() gives one up.
THEOREM NothingStranded ==
    ASSUME ~StalePermits
    PROVE  MCSpec => []NoStrandedUntilGivenUp
  <1>1. MCInit => ConsistentSend /\ Asked
    <2> SUFFICES ASSUME MCInit PROVE ConsistentSend /\ Asked
      OBVIOUS
    <2>1. ConsistentSend
      BY InitConsistent DEF MCInit
    <2>2. packetsQueued = 0 /\ activePermitSeq = 0 /\ noting = 0
      BY DEF MCInit, Init
    <2> QED  BY <2>1, <2>2 DEF Asked
  <1>2. ConsistentSend /\ Asked /\ [MCNext]_<<vars, gaveUp>> => ConsistentSend' /\ Asked'
    <2> SUFFICES ASSUME ConsistentSend, Asked, [MCNext]_<<vars, gaveUp>>
                 PROVE  ConsistentSend' /\ Asked'
      OBVIOUS
    <2>1. [Next]_vars
      BY DEF MCNext
    <2>2. ConsistentSend'
      BY <2>1, NextKeeps
    <2> QED  BY <2>2, AskedKeeps
  <1>3. Asked => NoStrandedUntilGivenUp
    <2> SUFFICES ASSUME Asked, ~gaveUp, AtRest, packetsQueued > 0
                 PROVE  requestActive /\ activePermitSeq = 0
      BY DEF NoStrandedUntilGivenUp, NoStrandedPackets
    <2>1. \A w \in Workers : workerPc[w] # "request"
      BY DEF AtRest
    <2> QED  BY <2>1 DEF Asked
  <1> QED  BY <1>1, <1>2, <1>3, PTL DEF MCSpec
=============================================================================
