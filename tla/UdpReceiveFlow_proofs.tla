----------------------- MODULE UdpReceiveFlow_proofs -----------------------
(* The lists, states and counters of UdpReceiveFlow stay consistent for any   *)
(* number of senders and permits, and any range of sequence numbers; the      *)
(* slots granted fit in the queue; every sender is treated as FlowReceiver    *)
(* says.                                                                      *)
EXTENDS MCUdpReceiveFlow, FiniteSetTheorems, SequenceTheorems, TLAPS

-----------------------------------------------------------------------------
(* Operators the model is built from.                                         *)

\* The successor of a flow sequence number is a flow sequence number: the
\* value 0, which stands for "no permit", is skipped.
LEMMA NextFlowType ==
    ASSUME NEW f \in Sequence
    PROVE  NextFlow(f) \in FlowSeq
  BY SequenceAssumption DEF NextFlow, FlowSeq, Sequence

\* Least returns an element of any non-empty set of natural numbers.
LEMMA LeastInSet ==
    ASSUME NEW S \in SUBSET Nat, S # {}
    PROVE  Least(S) \in S /\ \A j \in S : Least(S) <= j
  <1>1. \E x \in S : \A y \in S : ~(<<y, x>> \in OpToRel(<, Nat))
    BY WFMin, NatLessThanWellFounded
  <1>2. PICK x \in S : \A y \in S : ~(<<y, x>> \in OpToRel(<, Nat))
    BY <1>1
  <1>3. \A y \in S : ~(y < x)
    BY <1>2 DEF OpToRel
  <1>4. \A y \in S : x <= y
    BY <1>3
  <1> QED  BY <1>4 DEF Least

\* Appending a new element to a list keeps the list free of repeats.
LEMMA AppendNew ==
    ASSUME NEW S, NEW list \in Seq(S), NEW x \in S,
           NoRepeats(list), x \notin Elements(list)
    PROVE  /\ Append(list, x) \in Seq(S)
           /\ NoRepeats(Append(list, x))
           /\ Elements(Append(list, x)) = Elements(list) \cup {x}
  <1> DEFINE new == Append(list, x)
             n   == Len(list)
  <1>1. /\ n \in Nat /\ DOMAIN list = 1 .. n
        /\ new \in Seq(S) /\ DOMAIN new = 1 .. n + 1 /\ new[n + 1] = x
        /\ \A i \in 1 .. n : new[i] = list[i]
    OBVIOUS
  <1>2. \A i \in 1 .. n : list[i] # x
    BY <1>1 DEF Elements
  <1> HIDE DEF new, n
  <1>3. NoRepeats(new)
    <2> SUFFICES ASSUME NEW i \in 1 .. n + 1, NEW j \in 1 .. n + 1, new[i] = new[j]
                 PROVE  i = j
      BY <1>1 DEF NoRepeats
    <2>1. CASE i \in 1 .. n /\ j \in 1 .. n
      BY <1>1, <2>1 DEF NoRepeats
    <2>2. CASE i = n + 1 \/ j = n + 1
      BY <1>1, <1>2, <2>2
    <2> QED  BY <1>1, <2>1, <2>2
  <1>4. Elements(new) \subseteq Elements(list) \cup {x}
    <2>1. ASSUME NEW i \in 1 .. n + 1 PROVE new[i] \in Elements(list) \cup {x}
      BY <1>1 DEF Elements
    <2> QED  BY <1>1, <2>1 DEF Elements
  <1>5. \A i \in 1 .. n : list[i] \in Elements(new)
    <2>1. \A i \in 1 .. n : i \in 1 .. n + 1 /\ new[i] = list[i]
      BY <1>1
    <2> QED  BY <1>1, <2>1 DEF Elements
  <1>6. Elements(list) \cup {x} \subseteq Elements(new)
    BY <1>1, <1>5 DEF Elements
  <1> QED  BY <1>1, <1>3, <1>4, <1>6 DEF new

\* Removing the element at one position keeps the others, each once.
LEMMA UnlinkAtRemoves ==
    ASSUME NEW S, NEW list \in Seq(S), NEW k \in DOMAIN list, NoRepeats(list)
    PROVE  /\ UnlinkAt(list, k) \in Seq(S)
           /\ NoRepeats(UnlinkAt(list, k))
           /\ Elements(UnlinkAt(list, k)) = Elements(list) \ {list[k]}
  <1> DEFINE new == UnlinkAt(list, k)
             n   == Len(list)
  <1>1. n \in Nat /\ DOMAIN list = 1 .. n /\ k \in 1 .. n
    OBVIOUS
  <1>2. /\ new \in Seq(S)
        /\ DOMAIN new = 1 .. n - 1
        /\ \A i \in 1 .. n - 1 : new[i] = IF i < k THEN list[i] ELSE list[i + 1]
    BY <1>1 DEF UnlinkAt
  <1>3. NoRepeats(new)
    BY <1>1, <1>2, SMTT(40) DEF NoRepeats
  <1>4. ASSUME NEW x \in Elements(new) PROVE x \in Elements(list) \ {list[k]}
    BY <1>1, <1>2 DEF Elements, NoRepeats
  <1>5. ASSUME NEW x \in Elements(list), x # list[k] PROVE x \in Elements(new)
    <2>1. PICK i \in 1 .. n : list[i] = x
      BY <1>1 DEF Elements
    <2>2. CASE i < k
      BY <1>1, <1>2, <2>1, <2>2 DEF Elements
    <2>3. CASE i > k
      <3>1. i - 1 \in 1 .. n - 1 /\ new[i - 1] = list[i]
        BY <1>1, <1>2, <2>1, <2>3
      <3> QED  BY <1>2, <2>1, <3>1 DEF Elements
    <2> QED  BY <1>1, <1>5, <2>1, <2>2, <2>3
  <1> QED  BY <1>2, <1>3, <1>4, <1>5

\* Removing an element that is on the list.
LEMMA UnlinkRemoves ==
    ASSUME NEW S, NEW list \in Seq(S), NoRepeats(list), NEW x \in Elements(list)
    PROVE  /\ Unlink(list, x) \in Seq(S)
           /\ NoRepeats(Unlink(list, x))
           /\ Elements(Unlink(list, x)) = Elements(list) \ {x}
  <1>1. PICK k \in DOMAIN list : list[k] = x
    BY DEF Elements
  <1>2. Positions(list, x) = {k}
    BY <1>1 DEF NoRepeats, Positions
  <1>3. Least(Positions(list, x)) = k
    BY <1>1, <1>2 DEF Least
  <1> QED  BY <1>1, <1>3, UnlinkAtRemoves DEF Unlink

\* Removing the first element of a list.
LEMMA TailRemoves ==
    ASSUME NEW S, NEW list \in Seq(S), list # <<>>, NoRepeats(list)
    PROVE  /\ Head(list) \in Elements(list)
           /\ Tail(list) \in Seq(S)
           /\ NoRepeats(Tail(list))
           /\ Elements(Tail(list)) = Elements(list) \ {Head(list)}
  <1>1. /\ Len(list) \in Nat \ {0} /\ DOMAIN list = 1 .. Len(list) /\ Head(list) = list[1]
        /\ Tail(list) \in Seq(S) /\ DOMAIN Tail(list) = 1 .. Len(list) - 1
        /\ \A i \in 1 .. Len(list) - 1 : Tail(list)[i] = list[i + 1]
    OBVIOUS
  <1>2. NoRepeats(Tail(list))
    BY <1>1 DEF NoRepeats
  <1>3. ASSUME NEW x \in Elements(Tail(list)) PROVE x \in Elements(list) \ {Head(list)}
    BY <1>1 DEF Elements, NoRepeats
  <1>4. ASSUME NEW x \in Elements(list), x # Head(list) PROVE x \in Elements(Tail(list))
    <2>1. PICK i \in 1 .. Len(list) : list[i] = x
      BY <1>1 DEF Elements
    <2>2. i - 1 \in 1 .. Len(list) - 1 /\ Tail(list)[i - 1] = x
      BY <1>1, <1>4, <2>1
    <2> QED  BY <1>1, <2>2 DEF Elements
  <1>5. Head(list) \in Elements(list)
    BY <1>1 DEF Elements
  <1> QED  BY <1>1, <1>2, <1>3, <1>4, <1>5
-----------------------------------------------------------------------------
(* The permits of a sender.                                                   *)

\* The active permits of a sender are a finite set.
LEMMA ActiveIdsFinite ==
    ASSUME NEW s
    PROVE  /\ ActiveIds(s) \in SUBSET PermitIds
           /\ IsFiniteSet(ActiveIds(s))
           /\ Cardinality(ActiveIds(s)) \in Nat
  <1>1. MaxPermitsPerSender \in Nat
    BY ReceiveFlowAssumption
  <1>2. IsFiniteSet(PermitIds)
    BY <1>1, FS_Interval DEF PermitIds
  <1>3. ActiveIds(s) \in SUBSET PermitIds
    BY DEF ActiveIds
  <1>4. IsFiniteSet(ActiveIds(s))
    BY <1>2, <1>3, FS_Subset
  <1> QED  BY <1>3, <1>4, FS_CardinalityType

\* The part of the invariant that is about the lists and the states.
ListsOK == FlowKnown /\ RequestListExact /\ PermitListExact /\ NumPermitsExact

\* A step that leaves the lists, the states and the flow sequence numbers of
\* the permits alone does not disturb them.
LEMMA ListsUndisturbed ==
    ASSUME ListsOK, UNCHANGED <<state, flowSeq, numPermits, pendingRequests, pendingPermits>>,
           \A p \in Permit : permits'[p].flowSeq = permits[p].flowSeq
    PROVE  ListsOK'
  <1>1. \A p \in Permit : IsActive(p)' <=> IsActive(p)
    BY DEF IsActive
  <1>2. \A s \in Senders : ActiveIds(s)' = ActiveIds(s)
    BY <1>1 DEF ActiveIds, Permit
  <1>3. FlowKnown' /\ NumPermitsExact'
    BY <1>2 DEF ListsOK, FlowKnown, NumPermitsExact
  <1>4. RequestListExact' /\ PermitListExact'
    BY <1>1 DEF ListsOK, RequestListExact, PermitListExact, NoRepeats, Elements
  <1> QED  BY <1>3, <1>4 DEF ListsOK

\* Revoking an active permit, on expiry or on completion: it leaves the list
\* and the counter together.
LEMMA RevokeKeepsPermits ==
    ASSUME TypeOK, PermitListExact, NumPermitsExact,
           NEW s \in Senders, NEW i \in PermitIds, IsActive(<<s, i>>),
           permits' = [permits EXCEPT ![<<s, i>>] = NoPermit],
           numPermits' = [numPermits EXCEPT ![s] = @ - 1],
           NoRepeats(pendingPermits'),
           Elements(pendingPermits') = Elements(pendingPermits) \ {<<s, i>>}
    PROVE  /\ PermitListExact' /\ NumPermitsExact'
           /\ numPermits' \in [Senders -> Nat]
           /\ permits' \in [Permit -> [flowSeq : Sequence, sendSeq : Sequence, numPackets : Int]]
           /\ \A r \in Senders : ActiveIds(r)' = IF r = s THEN ActiveIds(s) \ {i} ELSE ActiveIds(r)
  <1>1. <<s, i>> \in Permit
    BY DEF Permit
  <1>2. \A p \in Permit : IsActive(p)' <=> IsActive(p) /\ p # <<s, i>>
    BY <1>1 DEF IsActive, NoPermit, TypeOK
  <1>3. PermitListExact'
    BY <1>2 DEF PermitListExact
  <1>4. \A r \in Senders : ActiveIds(r)' = IF r = s THEN ActiveIds(s) \ {i} ELSE ActiveIds(r)
    BY <1>2 DEF ActiveIds, Permit
  <1>5. i \in ActiveIds(s)
    BY DEF ActiveIds
  <1>6. ASSUME NEW r \in Senders
        PROVE  numPermits'[r] = Cardinality(ActiveIds(r)') /\ numPermits'[r] \in Nat
    <2>1. CASE r = s
      <3>1. Cardinality(ActiveIds(s) \ {i}) = Cardinality(ActiveIds(s)) - 1
        BY <1>5, ActiveIdsFinite, FS_RemoveElement
      <3>2. Cardinality(ActiveIds(s) \ {i}) \in Nat
        BY ActiveIdsFinite, FS_RemoveElement, FS_CardinalityType
      <3> QED  BY <1>4, <2>1, <3>1, <3>2 DEF NumPermitsExact, TypeOK
    <2>2. CASE r # s
      BY <1>4, <2>2 DEF NumPermitsExact, TypeOK
    <2> QED  BY <2>1, <2>2
  <1>7. NumPermitsExact'
    BY <1>6 DEF NumPermitsExact
  <1>8. numPermits' \in [Senders -> Nat]
    BY <1>6 DEF TypeOK
  <1>9. NoPermit \in [flowSeq : Sequence, sendSeq : Sequence, numPackets : Int]
    BY SequenceAssumption DEF NoPermit, Sequence
  <1>10. permits' \in [Permit -> [flowSeq : Sequence, sendSeq : Sequence, numPackets : Int]]
    BY <1>1, <1>9 DEF TypeOK
  <1> QED  BY <1>3, <1>4, <1>7, <1>8, <1>10
-----------------------------------------------------------------------------
(* The initial state, and the steps that do not touch the lists.              *)

\* Nothing is requested or granted when the receiver starts.
LEMMA InitConsistent == Init => ConsistentFlow
  <1> SUFFICES ASSUME Init PROVE ConsistentFlow
    OBVIOUS
  <1>1. NoPermit \in [flowSeq : Sequence, sendSeq : Sequence, numPackets : Int]
    BY SequenceAssumption DEF NoPermit, Sequence
  <1>2. 0 \in Sequence /\ 1 \in PermitIds
    BY SequenceAssumption, ReceiveFlowAssumption DEF Sequence, PermitIds
  <1>3. TypeOK
    BY <1>1, <1>2 DEF Init, TypeOK
  <1>4. \A p \in Permit : ~IsActive(p)
    BY DEF Init, IsActive, NoPermit
  <1>5. \A s \in Senders : ActiveIds(s) = {}
    BY <1>4 DEF ActiveIds, Permit
  <1>6. FlowKnown /\ HandlersOK
    BY <1>5 DEF Init, FlowKnown, HandlersOK
  <1>7. RequestListExact
    BY DEF Init, RequestListExact, NoRepeats, Elements
  <1>8. PermitListExact
    BY <1>4 DEF Init, PermitListExact, NoRepeats, Elements
  <1>9. NumPermitsExact
    BY <1>5, FS_EmptySet DEF Init, NumPermitsExact
  <1> QED  BY <1>3, <1>6, <1>7, <1>8, <1>9 DEF ConsistentFlow

\* Reading a message, or waiting for one in vain.
LEMMA ReadKeeps ==
    ASSUME ConsistentFlow, (\E m \in FlowMsg : ReadFlowMsg(m)) \/ WaitTimeout \/ StopExpiring
    PROVE  ConsistentFlow'
  <1>1. ListsOK'
    BY ListsUndisturbed
       DEF ConsistentFlow, ListsOK, ReadFlowMsg, WaitTimeout, StopExpiring, flowVars
  <1>2. CASE \E m \in FlowMsg : ReadFlowMsg(m)
    <2> PICK m \in FlowMsg : ReadFlowMsg(m)
      BY <1>2
    <2>1. m.cmd \in {"request_to_send", "request_to_send_more", "send_start", "send_completed"}
      BY DEF FlowMsg
    <2>2. TypeOK' /\ HandlersOK'
      BY <2>1 DEF ConsistentFlow, TypeOK, HandlersOK, ReadFlowMsg, flowVars, scanVars, dataVars
    <2> QED  BY <1>1, <2>2 DEF ConsistentFlow, ListsOK
  <1>3. CASE WaitTimeout \/ StopExpiring
    <2>1. TypeOK' /\ HandlersOK'
      BY <1>3 DEF ConsistentFlow, TypeOK, HandlersOK, WaitTimeout, StopExpiring,
                  flowVars, scanVars, dataVars
    <2> QED  BY <1>1, <2>1 DEF ConsistentFlow, ListsOK
  <1> QED  BY <1>2, <1>3

\* send_start changes the size of a permit only.
LEMMA NoteStartKeeps ==
    ASSUME ConsistentFlow, NEW m \in FlowMsg, NoteStart(m)
    PROVE  ConsistentFlow'
  <1> DEFINE matching == {i \in PermitIds : permits[<<m.from, i>>].flowSeq = m.flowSeq}
             p == <<m.from, Least(matching)>>
  <1>1. m.from \in Senders /\ m.packets \in Int
    BY ReceiveFlowAssumption DEF FlowMsg, NoteStart
  <1>2. CASE matching = {}
    <2>1. permits' = permits
      BY <1>2 DEF NoteStart
    <2>2. ListsOK'
      BY <2>1, ListsUndisturbed DEF ConsistentFlow, ListsOK, NoteStart, flowVars
    <2>3. TypeOK' /\ HandlersOK'
      BY <2>1 DEF ConsistentFlow, TypeOK, HandlersOK, NoteStart, flowVars, scanVars, dataVars
    <2> QED  BY <2>2, <2>3 DEF ConsistentFlow, ListsOK
  <1>3. CASE matching # {}
    <2>1. matching \in SUBSET Nat
      BY ReceiveFlowAssumption DEF PermitIds
    <2>2. Least(matching) \in PermitIds
      BY <1>3, <2>1, LeastInSet
    <2> HIDE DEF matching
    <2>3. p \in Permit
      BY <1>1, <2>2 DEF Permit
    <2>4. permits' = [permits EXCEPT ![p].numPackets = m.packets]
      BY <1>3 DEF NoteStart, matching
    <2>5. \A q \in Permit : permits'[q].flowSeq = permits[q].flowSeq
      BY <2>4 DEF ConsistentFlow, TypeOK
    <2>6. ListsOK'
      BY <2>5, ListsUndisturbed DEF ConsistentFlow, ListsOK, NoteStart, flowVars
    <2>7. permits' \in [Permit -> [flowSeq : Sequence, sendSeq : Sequence, numPackets : Int]]
      BY <1>1, <2>3, <2>4 DEF ConsistentFlow, TypeOK
    <2>8. TypeOK' /\ HandlersOK'
      BY <2>7 DEF ConsistentFlow, TypeOK, HandlersOK, NoteStart, flowVars, scanVars, dataVars
    <2> QED  BY <2>6, <2>8 DEF ConsistentFlow, ListsOK
  <1> QED  BY <1>2, <1>3

\* Repeating a permit changes nothing on the receiver.
LEMMA ResendPermitKeeps ==
    ASSUME ConsistentFlow, ResendPermit
    PROVE  ConsistentFlow'
  <1> DEFINE s == msg.from
             P == PermitsFor(s, RequestedFlow(msg))
             p == <<s, Least(P)>>
  <1>1. ListsOK'
    BY ListsUndisturbed DEF ConsistentFlow, ListsOK, ResendPermit, flowVars
  <1>2. P # {} /\ reply' = {OkToSend(s, NumReserved(p))}
    BY DEF ResendPermit
  <1>3. s \in Senders
    BY DEF ConsistentFlow, HandlersOK, ResendPermit, FlowMsg
  <1>4. P \in SUBSET Nat /\ P \in SUBSET PermitIds
    BY ReceiveFlowAssumption DEF PermitsFor, PermitIds
  <1>5. p \in Permit
    BY <1>2, <1>3, <1>4, LeastInSet DEF Permit
  <1>6. NumReserved(p) \in Nat
    BY <1>5 DEF NumReserved, ConsistentFlow, TypeOK
  <1>7. flowSeq[s] \in Sequence
    BY <1>3 DEF ConsistentFlow, TypeOK
  <1>8. reply' \subseteq Reply
    BY <1>2, <1>3, <1>6, <1>7 DEF OkToSend, Reply
  <1>9. TypeOK' /\ HandlersOK'
    BY <1>8 DEF ConsistentFlow, TypeOK, HandlersOK, ResendPermit, flowVars, scanVars, dataVars
  <1> QED  BY <1>1, <1>9 DEF ConsistentFlow, ListsOK

\* Summing the reservations, working out the slots left, and a round that grants nothing.
LEMMA SumKeeps ==
    ASSUME ConsistentFlow, SumReserved \/ ReadAvailable \/ \E can \in CanSendAny : NoGrant(can)
    PROVE  ConsistentFlow'
  <1>1. ListsOK'
    BY ListsUndisturbed DEF ConsistentFlow, ListsOK, SumReserved, ReadAvailable, NoGrant, flowVars
  <1>2. CASE SumReserved
    <2>1. pendingPermits[summed + 1] \in Permit
      BY <1>2 DEF ConsistentFlow, TypeOK, SumReserved
    <2>2. NumReserved(pendingPermits[summed + 1]) \in Nat
      BY <2>1 DEF NumReserved, ConsistentFlow, TypeOK
    <2>3. TypeOK' /\ HandlersOK'
      BY <1>2, <2>2, SMTT(40) DEF ConsistentFlow, TypeOK, HandlersOK, SumReserved, flowVars, dataVars
    <2> QED  BY <1>1, <2>3 DEF ConsistentFlow, ListsOK
  <1>3. CASE ReadAvailable
    <2>1. permitsIssued \in Nat /\ queued \in Nat /\ QueueLimit \in Nat
      BY ReceiveFlowAssumption DEF ConsistentFlow, TypeOK
    <2>2. FreeSlots \in Nat /\ (FreeSlots > 0 => FreeSlots + permitsIssued <= QueueLimit)
      BY <2>1 DEF FreeSlots, Available
    <2>3. TypeOK' /\ HandlersOK'
      BY <1>3, <2>1, <2>2 DEF ConsistentFlow, TypeOK, HandlersOK, ReadAvailable, flowVars, dataVars
    <2> QED  BY <1>1, <2>3 DEF ConsistentFlow, ListsOK
  <1>4. CASE \E can \in CanSendAny : NoGrant(can)
    <2>1. TypeOK' /\ HandlersOK'
      BY <1>4 DEF ConsistentFlow, TypeOK, HandlersOK, NoGrant, StartNextRound, flowVars, dataVars
    <2> QED  BY <1>1, <2>1 DEF ConsistentFlow, ListsOK
  <1> QED  BY <1>2, <1>3, <1>4

\* The steps of the data thread and of the collator: they share numPackets and
\* the queue with the flow thread, and neither is part of its bookkeeping.
LEMMA DataKeeps ==
    ASSUME ConsistentFlow,
           \/ \E s \in Senders, seq \in SendSeqs, duplicate \in BOOLEAN : ReadPacket(s, seq, duplicate)
           \/ CountPacket
           \/ PushPacket
           \/ CollatePacket
    PROVE  ConsistentFlow'
  <1>1. CASE \E s \in Senders, seq \in SendSeqs, duplicate \in BOOLEAN : ReadPacket(s, seq, duplicate)
    <2> PICK s \in Senders, seq \in SendSeqs, duplicate \in BOOLEAN : ReadPacket(s, seq, duplicate)
      BY <1>1
    <2>1. ListsOK'
      BY ListsUndisturbed DEF ConsistentFlow, ListsOK, ReadPacket, flowVars
    <2>2. CountedAgainst(s, seq) \subseteq PermitIds
      BY DEF CountedAgainst, ActiveIds, ConsistentFlow, TypeOK
    <2>3. CASE dataPc' = "push" /\ UNCHANGED <<lastDataPermit, counting>>
      <3>1. TypeOK' /\ HandlersOK'
        BY <2>3 DEF ConsistentFlow, TypeOK, HandlersOK, ReadPacket, flowVars, scanVars
      <3> QED  BY <2>1, <3>1 DEF ConsistentFlow, ListsOK
    <2>4. ASSUME NEW i \in PermitIds, dataPc' = "count", counting' = <<s, i>>,
                 lastDataPermit' = [lastDataPermit EXCEPT ![s] = i]
          PROVE  ConsistentFlow'
      <3>1. counting' \in Permit /\ lastDataPermit' \in [Senders -> PermitIds]
        BY <2>4 DEF Permit, ConsistentFlow, TypeOK
      <3>2. TypeOK' /\ HandlersOK'
        BY <2>4, <3>1 DEF ConsistentFlow, TypeOK, HandlersOK, ReadPacket, flowVars, scanVars
      <3> QED  BY <2>1, <3>2 DEF ConsistentFlow, ListsOK
    <2> QED  BY <2>2, <2>3, <2>4 DEF ReadPacket
  <1>2. CASE CountPacket
    <2>1. counting \in Permit
      BY <1>2 DEF ConsistentFlow, HandlersOK, CountPacket
    <2> DEFINE n == IF permits[counting].numPackets > -MaxOverrun
                    THEN permits[counting].numPackets - 1 ELSE permits[counting].numPackets
    <2>2. n \in Int /\ permits' = [permits EXCEPT ![counting].numPackets = n]
      <3>1. permits[counting].numPackets \in Int /\ MaxOverrun \in Nat
        BY <2>1, ReceiveFlowAssumption DEF ConsistentFlow, TypeOK
      <3>2. n \in Int
        BY <3>1
      <3> QED  BY <1>2, <3>2 DEF CountPacket
    <2> HIDE DEF n
    <2>3. \A q \in Permit : permits'[q].flowSeq = permits[q].flowSeq
      BY <2>2 DEF ConsistentFlow, TypeOK
    <2>4. ListsOK'
      BY <1>2, <2>3, ListsUndisturbed DEF ConsistentFlow, ListsOK, CountPacket, flowVars
    <2>5. permits' \in [Permit -> [flowSeq : Sequence, sendSeq : Sequence, numPackets : Int]]
      BY <2>1, <2>2 DEF ConsistentFlow, TypeOK
    <2>6. TypeOK' /\ HandlersOK'
      BY <1>2, <2>5 DEF ConsistentFlow, TypeOK, HandlersOK, CountPacket, flowVars, scanVars
    <2> QED  BY <2>4, <2>6 DEF ConsistentFlow, ListsOK
  <1>3. CASE PushPacket \/ CollatePacket
    <2>1. ListsOK'
      BY <1>3, ListsUndisturbed DEF ConsistentFlow, ListsOK, PushPacket, CollatePacket, flowVars
    <2>2. TypeOK' /\ HandlersOK'
      BY <1>3, SMTT(40) DEF ConsistentFlow, TypeOK, HandlersOK, PushPacket, CollatePacket, flowVars, scanVars
    <2> QED  BY <2>1, <2>2 DEF ConsistentFlow, ListsOK
  <1> QED  BY <1>1, <1>2, <1>3
-----------------------------------------------------------------------------
(* The steps that change the lists.                                           *)

\* noteDone revokes one permit.
LEMMA RevokeCompletedKeeps ==
    ASSUME ConsistentFlow, RevokeCompleted
    PROVE  ConsistentFlow'
  <1> DEFINE s == msg.from
             i == Least(CompletedIds(msg))
  <1>1. s \in Senders
    BY DEF ConsistentFlow, HandlersOK, RevokeCompleted, FlowMsg
  <1>2. CompletedIds(msg) \subseteq ActiveIds(s) /\ CompletedIds(msg) # {}
    BY DEF CompletedIds, RevokeCompleted
  <1>3. ActiveIds(s) \subseteq PermitIds /\ PermitIds \subseteq Nat
    BY ReceiveFlowAssumption DEF ActiveIds, PermitIds
  <1>4. i \in ActiveIds(s)
    BY <1>2, <1>3, LeastInSet
  <1>5. i \in PermitIds /\ IsActive(<<s, i>>) /\ <<s, i>> \in Permit
    BY <1>1, <1>4 DEF ActiveIds, Permit
  <1>6. <<s, i>> \in Elements(pendingPermits)
    BY <1>5 DEF ConsistentFlow, PermitListExact
  <1>7. /\ permits' = [permits EXCEPT ![<<s, i>>] = NoPermit]
        /\ numPermits' = [numPermits EXCEPT ![s] = @ - 1]
        /\ pendingPermits' = Unlink(pendingPermits, <<s, i>>)
    BY DEF RevokeCompleted
  <1>8. /\ pendingPermits' \in Seq(Permit)
        /\ NoRepeats(pendingPermits')
        /\ Elements(pendingPermits') = Elements(pendingPermits) \ {<<s, i>>}
    <2>1. pendingPermits \in Seq(Permit) /\ NoRepeats(pendingPermits)
      BY DEF ConsistentFlow, TypeOK, PermitListExact
    <2> QED  BY <1>6, <1>7, <2>1, UnlinkRemoves
  <1> HIDE DEF s, i
  <1>9. /\ PermitListExact' /\ NumPermitsExact'
        /\ numPermits' \in [Senders -> Nat]
        /\ permits' \in [Permit -> [flowSeq : Sequence, sendSeq : Sequence, numPackets : Int]]
        /\ \A r \in Senders : ActiveIds(r)' = IF r = s THEN ActiveIds(s) \ {i} ELSE ActiveIds(r)
    BY <1>1, <1>5, <1>7, <1>8, RevokeKeepsPermits DEF ConsistentFlow
  <1>10. FlowKnown' /\ RequestListExact'
    BY <1>9 DEF ConsistentFlow, FlowKnown, RequestListExact, RevokeCompleted, NoRepeats, Elements
  <1>11. TypeOK' /\ HandlersOK'
    BY <1>8, <1>9 DEF ConsistentFlow, TypeOK, HandlersOK, RevokeCompleted, scanVars, dataVars
  <1> QED  BY <1>9, <1>10, <1>11 DEF ConsistentFlow

\* The rest of noteDone takes the sender off the request list when its state
\* says it is on it.
LEMMA FinishDoneKeeps ==
    ASSUME ConsistentFlow, FinishDone
    PROVE  ConsistentFlow'
  <1> DEFINE s == msg.from
  <1>1. s \in Senders /\ msg \in FlowMsg /\ msg.cmd \in {"send_completed", "request_to_send_more"}
    BY DEF ConsistentFlow, HandlersOK, FinishDone, FlowMsg
  <1>2. PermitListExact' /\ NumPermitsExact' /\ \A r \in Senders : ActiveIds(r)' = ActiveIds(r)
    BY DEF ConsistentFlow, FinishDone, PermitListExact, NumPermitsExact, ActiveIds, IsActive,
           NoRepeats, Elements
  <1>3. \/ UNCHANGED <<pendingRequests, state>>
        \/ /\ state' = [state EXCEPT ![s] = "idle"]
           /\ pendingRequests' = IF state[s] = "requested" THEN Unlink(pendingRequests, s)
                                                           ELSE pendingRequests
    BY DEF FinishDone
  <1>4. pendingRequests \in Seq(Senders) /\ NoRepeats(pendingRequests)
        /\ Elements(pendingRequests) = {r \in Senders : state[r] = "requested"}
    BY DEF ConsistentFlow, TypeOK, RequestListExact
  <1>5. RequestListExact' /\ pendingRequests' \in Seq(Senders) /\ FlowKnown'
        /\ state' \in [Senders -> {"idle", "requested", "granted"}]
    <2>1. CASE UNCHANGED <<pendingRequests, state>>
      BY <1>2, <2>1 DEF ConsistentFlow, RequestListExact, FlowKnown, TypeOK, FinishDone,
                        NoRepeats, Elements
    <2>2. CASE /\ state' = [state EXCEPT ![s] = "idle"]
               /\ pendingRequests' = IF state[s] = "requested" THEN Unlink(pendingRequests, s)
                                                               ELSE pendingRequests
      <3>1. /\ pendingRequests' \in Seq(Senders) /\ NoRepeats(pendingRequests')
            /\ Elements(pendingRequests') = Elements(pendingRequests) \ {s}
        <4>1. CASE state[s] = "requested"
          <5>1. s \in Elements(pendingRequests)
            BY <1>1, <1>4, <4>1
          <5> QED  BY <1>4, <2>2, <4>1, <5>1, UnlinkRemoves
        <4>2. CASE state[s] # "requested"
          BY <1>4, <2>2, <4>2
        <4> QED  BY <4>1, <4>2
      <3>2. state' \in [Senders -> {"idle", "requested", "granted"}]
        BY <2>2 DEF ConsistentFlow, TypeOK
      <3>3. {r \in Senders : state'[r] = "requested"} = {r \in Senders : state[r] = "requested"} \ {s}
        BY <1>1, <2>2 DEF ConsistentFlow, TypeOK
      <3>4. RequestListExact'
        BY <1>4, <3>1, <3>3 DEF RequestListExact
      <3>5. FlowKnown'
        BY <1>1, <1>2, <2>2 DEF ConsistentFlow, FlowKnown, TypeOK, FinishDone
      <3> QED  BY <3>1, <3>2, <3>4, <3>5
    <2> QED  BY <1>3, <2>1, <2>2
  <1>6. TypeOK' /\ HandlersOK'
    BY <1>1, <1>5 DEF ConsistentFlow, TypeOK, HandlersOK, FinishDone, scanVars, dataVars
  <1> QED  BY <1>2, <1>5, <1>6 DEF ConsistentFlow

\* noteRequest puts a sender on the list unless its state says it is there.
LEMMA NoteRequestKeeps ==
    ASSUME ConsistentFlow, NoteRequest
    PROVE  ConsistentFlow'
  <1> DEFINE s == msg.from
             f == RequestedFlow(msg)
  <1>1. /\ s \in Senders /\ msg.flowSeq \in FlowSeq /\ msg.sendSeq \in Sequence
    BY ReceiveFlowAssumption DEF ConsistentFlow, HandlersOK, NoteRequest, FlowMsg
  <1>2. f \in FlowSeq
    BY <1>1, NextFlowType DEF RequestedFlow, FlowSeq
  <1>3. f \in Sequence /\ f # 0
    BY <1>2 DEF FlowSeq
  <1>4. /\ state' = [state EXCEPT ![s] = "requested"]
        /\ flowSeq' = [flowSeq EXCEPT ![s] = f]
        /\ sendSeq' = [sendSeq EXCEPT ![s] = msg.sendSeq]
        /\ timeouts' = [timeouts EXCEPT ![s] = 0]
        /\ pendingRequests' = IF state[s] = "requested" THEN pendingRequests
                                                        ELSE Append(pendingRequests, s)
        /\ reply' = {[cmd |-> "request_received", to |-> s, flowSeq |-> f, max_data |-> 0]}
    BY DEF NoteRequest, WithRequest, RequestReceived
  <1> HIDE DEF s, f
  <1>5. PermitListExact' /\ NumPermitsExact' /\ \A r \in Senders : ActiveIds(r)' = ActiveIds(r)
    BY DEF ConsistentFlow, NoteRequest, PermitListExact, NumPermitsExact, ActiveIds, IsActive,
           NoRepeats, Elements
  <1>6. /\ pendingRequests \in Seq(Senders) /\ NoRepeats(pendingRequests)
        /\ Elements(pendingRequests) = {r \in Senders : state[r] = "requested"}
    BY DEF ConsistentFlow, TypeOK, RequestListExact
  <1>7. /\ pendingRequests' \in Seq(Senders) /\ NoRepeats(pendingRequests')
        /\ Elements(pendingRequests') = Elements(pendingRequests) \cup {s}
    <2>1. CASE state[s] = "requested"
      BY <1>1, <1>4, <1>6, <2>1
    <2>2. CASE state[s] # "requested"
      <3>1. s \notin Elements(pendingRequests)
        BY <1>6, <2>2
      <3> QED  BY <1>1, <1>4, <1>6, <2>2, <3>1, AppendNew
    <2> QED  BY <2>1, <2>2
  <1>8. {r \in Senders : state'[r] = "requested"} = {r \in Senders : state[r] = "requested"} \cup {s}
    BY <1>1, <1>4 DEF ConsistentFlow, TypeOK
  <1>9. RequestListExact'
    BY <1>6, <1>7, <1>8 DEF RequestListExact
  <1>10. FlowKnown'
    BY <1>1, <1>3, <1>4, <1>5 DEF ConsistentFlow, FlowKnown, TypeOK
  <1>11. reply' \subseteq Reply
    BY <1>1, <1>3, <1>4 DEF Reply
  <1>12. TypeOK' /\ HandlersOK'
    <2>1. /\ flowPc' = "expire" /\ msg' = NoMsg
          /\ UNCHANGED <<numPermits, pendingPermits, permits, scanVars, dataVars>>
      BY DEF NoteRequest
    <2> QED  BY <1>1, <1>3, <1>4, <1>7, <1>11, <2>1
             DEF ConsistentFlow, TypeOK, HandlersOK, scanVars, dataVars
  <1> QED  BY <1>5, <1>9, <1>10, <1>12 DEF ConsistentFlow

\* The oldest permit expires, and its sender may go back on the request list.
LEMMA ExpirePermitKeeps ==
    ASSUME ConsistentFlow, ExpirePermit
    PROVE  ConsistentFlow'
  <1> DEFINE p == Head(pendingPermits)
             s == p[1]
             i == p[2]
  <1>1. /\ pendingPermits \in Seq(Permit) /\ pendingPermits # <<>> /\ NoRepeats(pendingPermits)
        /\ Elements(pendingPermits) = {q \in Permit : IsActive(q)}
    BY DEF ConsistentFlow, TypeOK, PermitListExact, ExpirePermit
  <1>2. /\ p \in Elements(pendingPermits)
        /\ Tail(pendingPermits) \in Seq(Permit)
        /\ NoRepeats(Tail(pendingPermits))
        /\ Elements(Tail(pendingPermits)) = Elements(pendingPermits) \ {p}
    BY <1>1, TailRemoves
  <1>3. p \in Permit /\ IsActive(p)
    BY <1>1, <1>2
  <1>4. s \in Senders /\ i \in PermitIds /\ p = <<s, i>>
    BY <1>3 DEF Permit
  <1>5. /\ pendingPermits' = Tail(pendingPermits)
        /\ permits' = [permits EXCEPT ![<<s, i>>] = NoPermit]
        /\ numPermits' = [numPermits EXCEPT ![s] = @ - 1]
    BY <1>4 DEF ExpirePermit
  <1>6. PICK late \in Nat, abandon \in BOOLEAN, new \in {"idle", "requested", "granted"} :
           /\ timeouts' = [timeouts EXCEPT ![s] = late]
           /\ pendingRequests' = IF ~abandon /\ state[s] # "requested"
                                 THEN Append(pendingRequests, s) ELSE pendingRequests
           /\ state' = [state EXCEPT ![s] = new]
           /\ new = "requested" <=> state[s] = "requested" \/ ~abandon
    <2> DEFINE l == IF timeouts[s] <= MaxPermitDeadTimeouts THEN timeouts[s] + 1 ELSE timeouts[s]
               a == MaxPermitDeadTimeouts # 0 /\ l > MaxPermitDeadTimeouts
               n == IF ~a \/ state[s] = "requested" THEN "requested"
                    ELSE IF numPermits[s] = 1 THEN "idle" ELSE state[s]
    <2>1. l \in Nat /\ a \in BOOLEAN
      BY <1>4, ReceiveFlowAssumption, SMTT(40) DEF ConsistentFlow, TypeOK
    <2>2. /\ timeouts' = [timeouts EXCEPT ![s] = l]
          /\ pendingRequests' = IF ~a /\ state[s] # "requested"
                                THEN Append(pendingRequests, s) ELSE pendingRequests
          /\ state' = [state EXCEPT ![s] = n]
      BY DEF ExpirePermit, WithRequest
    <2> HIDE DEF l, a
    <2>3. n \in {"idle", "requested", "granted"} /\ (n = "requested" <=> state[s] = "requested" \/ ~a)
      BY <1>4 DEF ConsistentFlow, TypeOK
    <2> HIDE DEF n
    <2> QED  BY <2>1, <2>2, <2>3
  <1> HIDE DEF p, s, i
  <1>7. /\ PermitListExact' /\ NumPermitsExact'
        /\ numPermits' \in [Senders -> Nat]
        /\ permits' \in [Permit -> [flowSeq : Sequence, sendSeq : Sequence, numPackets : Int]]
        /\ \A r \in Senders : ActiveIds(r)' = IF r = s THEN ActiveIds(s) \ {i} ELSE ActiveIds(r)
    BY <1>2, <1>3, <1>4, <1>5, RevokeKeepsPermits DEF ConsistentFlow
  <1>8. /\ pendingRequests \in Seq(Senders) /\ NoRepeats(pendingRequests)
        /\ Elements(pendingRequests) = {r \in Senders : state[r] = "requested"}
    BY DEF ConsistentFlow, TypeOK, RequestListExact
  <1>9. /\ pendingRequests' \in Seq(Senders) /\ NoRepeats(pendingRequests')
        /\ Elements(pendingRequests') = {r \in Senders : state'[r] = "requested"}
    <2>1. CASE ~abandon /\ state[s] # "requested"
      <3>1. s \notin Elements(pendingRequests)
        BY <1>8, <2>1
      <3>2. /\ pendingRequests' \in Seq(Senders) /\ NoRepeats(pendingRequests')
            /\ Elements(pendingRequests') = Elements(pendingRequests) \cup {s}
        BY <1>4, <1>6, <1>8, <2>1, <3>1, AppendNew
      <3>3. state' = [state EXCEPT ![s] = "requested"]
        BY <1>6, <2>1
      <3>4. {r \in Senders : state'[r] = "requested"}
              = {r \in Senders : state[r] = "requested"} \cup {s}
        BY <1>4, <3>3 DEF ConsistentFlow, TypeOK
      <3> QED  BY <1>8, <3>2, <3>4
    <2>2. CASE ~(~abandon /\ state[s] # "requested")
      <3>1. pendingRequests' = pendingRequests
        BY <1>6, <2>2
      <3>2. \A r \in Senders : state'[r] = "requested" <=> state[r] = "requested"
        BY <1>4, <1>6, <2>2 DEF ConsistentFlow, TypeOK
      <3> QED  BY <1>8, <3>1, <3>2
    <2> QED  BY <2>1, <2>2
  <1>10. RequestListExact'
    BY <1>9 DEF RequestListExact
  <1>11. FlowKnown'
    <2>1. i \in ActiveIds(s)
      BY <1>3, <1>4 DEF ActiveIds
    <2>2. flowSeq[s] # 0 /\ flowSeq' = flowSeq
      BY <1>4, <2>1 DEF ConsistentFlow, FlowKnown, ExpirePermit
    <2> QED  BY <1>4, <1>6, <1>7, <2>2 DEF ConsistentFlow, FlowKnown, TypeOK
  <1>12. /\ timeouts' \in [Senders -> Nat]
         /\ state' \in [Senders -> {"idle", "requested", "granted"}]
    BY <1>4, <1>6 DEF ConsistentFlow, TypeOK
  <1>13. UNCHANGED <<flowSeq, sendSeq, flowPc, msg, scanVars, dataVars>> /\ reply' = {}
    BY DEF ExpirePermit
  <1>14. TypeOK' /\ HandlersOK'
    BY <1>2, <1>5, <1>7, <1>9, <1>12, <1>13
       DEF ConsistentFlow, TypeOK, HandlersOK, scanVars, dataVars
  <1> QED  BY <1>7, <1>10, <1>11, <1>14 DEF ConsistentFlow

\* A permit is granted: its sender leaves the request list, an unused permit of
\* it becomes active, and the slots it gets exist.
LEMMA GrantPermitKeeps ==
    ASSUME ConsistentFlow, NEW can, GrantPermit(can)
    PROVE  ConsistentFlow'
  <1> DEFINE k == Least(Grantable(can))
             s == pendingRequests[k]
             granted == SmallerOf(SmallerOf(slots, MaxSlotsPerSender),
                                  QueueLimit - permitsIssued)
  <1>1. /\ pendingRequests \in Seq(Senders) /\ NoRepeats(pendingRequests)
        /\ Elements(pendingRequests) = {r \in Senders : state[r] = "requested"}
    BY DEF ConsistentFlow, TypeOK, RequestListExact
  <1>2. k \in DOMAIN pendingRequests
    <2>1. Grantable(can) \subseteq DOMAIN pendingRequests /\ Grantable(can) # {}
      BY DEF Grantable, GrantPermit
    <2>2. DOMAIN pendingRequests \subseteq Nat
      BY <1>1
    <2> QED  BY <2>1, <2>2, LeastInSet
  <1>3. s \in Senders /\ state[s] = "requested"
    BY <1>1, <1>2 DEF Elements
  <1>4. flowSeq[s] \in Sequence /\ flowSeq[s] # 0 /\ sendSeq[s] \in Sequence
    BY <1>3 DEF ConsistentFlow, FlowKnown, TypeOK
  <1>5. granted \in Nat /\ slots - granted \in Nat
    <2>1. /\ permitsIssued \in Nat /\ slots \in Nat
          /\ QueueLimit \in Nat /\ MaxSlotsPerSender \in Nat /\ MinSlotsPerSender \in Nat \ {0}
      BY ReceiveFlowAssumption DEF ConsistentFlow, TypeOK
    <2>2. slots > 0
      BY <2>1 DEF GrantPermit, MayGrant
    <2>3. slots + permitsIssued <= QueueLimit
      BY <2>2 DEF ConsistentFlow, HandlersOK, GrantPermit
    <2> QED  BY <2>1, <2>3 DEF SmallerOf
  <1>6. PICK i \in PermitIds :
           /\ ~IsActive(<<s, i>>)
           /\ pendingRequests' = UnlinkAt(pendingRequests, k)
           /\ permits' = [permits EXCEPT ![<<s, i>>] =
                 [flowSeq |-> flowSeq[s], sendSeq |-> sendSeq[s], numPackets |-> granted]]
           /\ numPermits' = [numPermits EXCEPT ![s] = @ + 1]
           /\ pendingPermits' = Append(pendingPermits, <<s, i>>)
           /\ state' = [state EXCEPT ![s] = "granted"]
           /\ slots' = slots - granted
           /\ reply' = {OkToSend(s, granted)}
    BY DEF GrantPermit, Unallocated
  <1>7. /\ pendingRequests' \in Seq(Senders) /\ NoRepeats(pendingRequests')
        /\ Elements(pendingRequests') = Elements(pendingRequests) \ {s}
    BY <1>1, <1>2, <1>6, UnlinkAtRemoves
  <1> HIDE DEF k, s, granted
  <1>8. RequestListExact' /\ state' \in [Senders -> {"idle", "requested", "granted"}]
    <2>1. {r \in Senders : state'[r] = "requested"} = {r \in Senders : state[r] = "requested"} \ {s}
      BY <1>3, <1>6 DEF ConsistentFlow, TypeOK
    <2>2. RequestListExact'
      BY <1>1, <1>7, <2>1 DEF RequestListExact
    <2>3. state' \in [Senders -> {"idle", "requested", "granted"}]
      BY <1>6 DEF ConsistentFlow, TypeOK
    <2> QED  BY <2>2, <2>3
  <1>9. <<s, i>> \in Permit
    BY <1>3 DEF Permit
  <1>10. \A q \in Permit : IsActive(q)' <=> IsActive(q) \/ q = <<s, i>>
    BY <1>4, <1>6, <1>9 DEF IsActive, ConsistentFlow, TypeOK
  <1>11. PermitListExact' /\ pendingPermits' \in Seq(Permit)
    <2>1. /\ pendingPermits \in Seq(Permit) /\ NoRepeats(pendingPermits)
          /\ Elements(pendingPermits) = {q \in Permit : IsActive(q)}
      BY DEF ConsistentFlow, TypeOK, PermitListExact
    <2>2. <<s, i>> \notin Elements(pendingPermits)
      BY <1>6, <2>1
    <2>3. /\ pendingPermits' \in Seq(Permit) /\ NoRepeats(pendingPermits')
          /\ Elements(pendingPermits') = Elements(pendingPermits) \cup {<<s, i>>}
      BY <1>6, <1>9, <2>1, <2>2, AppendNew, ZenonT(60)
    <2>4. {q \in Permit : IsActive(q)'} = {q \in Permit : IsActive(q)} \cup {<<s, i>>}
      BY <1>9, <1>10
    <2> QED  BY <2>1, <2>3, <2>4 DEF PermitListExact
  <1>12. \A r \in Senders : ActiveIds(r)' = IF r = s THEN ActiveIds(s) \cup {i} ELSE ActiveIds(r)
    BY <1>10 DEF ActiveIds, Permit
  <1>13. ASSUME NEW r \in Senders
         PROVE  numPermits'[r] = Cardinality(ActiveIds(r)') /\ numPermits'[r] \in Nat
    <2>1. CASE r = s
      <3>1. i \notin ActiveIds(s)
        BY <1>6 DEF ActiveIds
      <3>2. Cardinality(ActiveIds(s) \cup {i}) = Cardinality(ActiveIds(s)) + 1
        BY <3>1, ActiveIdsFinite, FS_AddElement
      <3>3. Cardinality(ActiveIds(s)) \in Nat
        BY ActiveIdsFinite
      <3>4. numPermits'[s] = numPermits[s] + 1 /\ numPermits[s] = Cardinality(ActiveIds(s))
        BY <1>3, <1>6 DEF ConsistentFlow, NumPermitsExact, TypeOK
      <3>5. ActiveIds(r)' = ActiveIds(s) \cup {i}
        BY <1>12, <2>1
      <3> QED  BY <2>1, <3>2, <3>3, <3>4, <3>5
    <2>2. CASE r # s
      BY <1>6, <1>12, <2>2 DEF ConsistentFlow, NumPermitsExact, TypeOK
    <2> QED  BY <2>1, <2>2
  <1>14. NumPermitsExact' /\ numPermits' \in [Senders -> Nat]
    BY <1>6, <1>13 DEF NumPermitsExact, ConsistentFlow, TypeOK
  <1>15. FlowKnown'
    BY <1>4, <1>6, <1>12 DEF ConsistentFlow, FlowKnown, TypeOK, GrantPermit
  <1>16. /\ permits' \in [Permit -> [flowSeq : Sequence, sendSeq : Sequence, numPackets : Int]]
         /\ reply' \subseteq Reply
    <2>1. [flowSeq |-> flowSeq[s], sendSeq |-> sendSeq[s], numPackets |-> granted]
             \in [flowSeq : Sequence, sendSeq : Sequence, numPackets : Int]
      BY <1>4, <1>5
    <2>2. permits' \in [Permit -> [flowSeq : Sequence, sendSeq : Sequence, numPackets : Int]]
      BY <1>6, <1>9, <2>1 DEF ConsistentFlow, TypeOK
    <2>3. reply' \subseteq Reply
      BY <1>3, <1>4, <1>5, <1>6 DEF OkToSend, Reply
    <2> QED  BY <2>2, <2>3
  <1>17. TypeOK' /\ HandlersOK'
    BY <1>5, <1>6, <1>7, <1>8, <1>11, <1>14, <1>16
       DEF ConsistentFlow, TypeOK, HandlersOK, GrantPermit, StartNextRound, dataVars
  <1> QED  BY <1>8, <1>11, <1>14, <1>15, <1>17 DEF ConsistentFlow
-----------------------------------------------------------------------------
(* The theorems.                                                              *)

\* No step of the flow, data or collator thread leaves the invariant.
LEMMA NextKeeps == ConsistentFlow /\ [Next]_vars => ConsistentFlow'
  <1> SUFFICES ASSUME ConsistentFlow, [Next]_vars PROVE ConsistentFlow'
    OBVIOUS
  <1>1. CASE \E m \in FlowMsg : NoteStart(m)
    BY <1>1, NoteStartKeeps
  <1>2. CASE (\E m \in FlowMsg : ReadFlowMsg(m)) \/ WaitTimeout \/ StopExpiring
    BY <1>2, ReadKeeps
  <1>3. CASE RevokeCompleted
    BY <1>3, RevokeCompletedKeeps
  <1>4. CASE FinishDone
    BY <1>4, FinishDoneKeeps
  <1>5. CASE ResendPermit
    BY <1>5, ResendPermitKeeps
  <1>6. CASE NoteRequest
    BY <1>6, NoteRequestKeeps
  <1>7. CASE ExpirePermit
    BY <1>7, ExpirePermitKeeps
  <1>8. CASE \E can \in CanSendAny : GrantPermit(can)
    BY <1>8, GrantPermitKeeps
  <1>9. CASE SumReserved \/ ReadAvailable \/ \E can \in CanSendAny : NoGrant(can)
    BY <1>9, SumKeeps
  <1>10. CASE \/ \E s \in Senders, seq \in SendSeqs, duplicate \in BOOLEAN : ReadPacket(s, seq, duplicate)
              \/ CountPacket \/ PushPacket \/ CollatePacket
    BY <1>10, DataKeeps
  <1>11. CASE UNCHANGED vars
    <2>1. ListsOK'
      BY <1>11, ListsUndisturbed DEF ConsistentFlow, ListsOK, vars, flowVars
    <2>2. TypeOK' /\ HandlersOK'
      BY <1>11 DEF ConsistentFlow, TypeOK, HandlersOK, vars, flowVars, scanVars, dataVars
    <2> QED  BY <2>1, <2>2 DEF ConsistentFlow, ListsOK
  <1> QED
    BY <1>1, <1>2, <1>3, <1>4, <1>5, <1>6, <1>7, <1>8, <1>9, <1>10, <1>11 DEF Next, FlowStep

\* The flow control stays consistent, whatever flow messages and packets arrive
\* and however its three threads are interleaved.
THEOREM FlowStaysConsistent == Spec => []ConsistentFlow
  <1>1. Init => ConsistentFlow
    BY InitConsistent
  <1>2. ConsistentFlow /\ [Next]_vars => ConsistentFlow'
    BY NextKeeps
  <1> QED  BY <1>1, <1>2, PTL DEF Spec

\* Every variable of the receiver keeps its type: permits are given only slots
\* that exist, and no counter of permits becomes negative.
THEOREM ReceiverTypeCorrect == Spec => []TypeOK
  <1>1. ConsistentFlow => TypeOK
    BY DEF ConsistentFlow
  <1> QED  BY <1>1, FlowStaysConsistent, PTL

\* pendingRequests holds exactly the senders in state "requested", each once.
THEOREM RequestListStaysExact == Spec => []RequestListExact
  <1>1. ConsistentFlow => RequestListExact
    BY DEF ConsistentFlow
  <1> QED  BY <1>1, FlowStaysConsistent, PTL

\* pendingPermits holds exactly the active permits, each once.
THEOREM PermitListStaysExact == Spec => []PermitListExact
  <1>1. ConsistentFlow => PermitListExact
    BY DEF ConsistentFlow
  <1> QED  BY <1>1, FlowStaysConsistent, PTL

\* numPermits counts the active permits of each sender.
THEOREM NumPermitsStaysExact == Spec => []NumPermitsExact
  <1>1. ConsistentFlow => NumPermitsExact
    BY DEF ConsistentFlow
  <1> QED  BY <1>1, FlowStaysConsistent, PTL

-----------------------------------------------------------------------------
(* What the flow thread grants fits in the queue.                             *)

\* The slots reserved by the permits in P when f says how many each reserves.
Room(P, f) == UNION {{p} \X (1 .. f[p]) : p \in P}

\* How many slots each permit reserves.
Reservations == [p \in Permit |-> NumReserved(p)]

\* The permits the flow thread has added up.
SummedPermits == {pendingPermits[i] : i \in 1 .. summed}

\* One permit more reserves so many slots more.
LEMMA RoomAdd ==
    ASSUME NEW P, NEW f, NEW g, NEW p, p \notin P, IsFiniteSet(Room(P, f)), g[p] \in Nat,
           \A q \in P : g[q] = f[q]
    PROVE  /\ IsFiniteSet(Room(P \cup {p}, g))
           /\ Cardinality(Room(P \cup {p}, g)) = Cardinality(Room(P, f)) + g[p]
  <1> DEFINE U == {p} \X (1 .. g[p])
             R == Room(P, f)
  <1>1. IsFiniteSet({p}) /\ Cardinality({p}) = 1
    BY FS_Singleton
  <1>2. IsFiniteSet(1 .. g[p]) /\ Cardinality(1 .. g[p]) = g[p]
    BY FS_Interval, SMTT(40)
  <1>3. IsFiniteSet(U) /\ Cardinality(U) = Cardinality({p}) * Cardinality(1 .. g[p])
    BY <1>1, <1>2, FS_Product
  <1>4. 1 * g[p] = g[p]
    OBVIOUS
  <1>5. Cardinality(U) = g[p]
    BY <1>1, <1>2, <1>3, <1>4
  <1>6. Room(P \cup {p}, g) = R \cup U
    BY DEF Room
  <1>7. R \cap U = {}
    BY DEF Room
  <1> HIDE DEF U, R
  <1>8. /\ IsFiniteSet(R \cup U)
        /\ Cardinality(R \cup U) = Cardinality(R) + Cardinality(U) - Cardinality(R \cap U)
    BY <1>3, FS_Union DEF R
  <1>9. Cardinality(R \cap U) = 0 /\ Cardinality(R) \in Nat
    BY <1>7, FS_EmptySet, FS_CardinalityType DEF R
  <1>10. Cardinality(R \cup U) = Cardinality(R) + g[p]
    BY <1>5, <1>8, <1>9
  <1> QED  BY <1>6, <1>8, <1>10 DEF R

\* Smaller reservations of the same permits take no more room.
LEMMA RoomShrinks ==
    ASSUME NEW P, NEW f, NEW g, IsFiniteSet(Room(P, f)),
           \A p \in P : f[p] \in Nat /\ g[p] \in Nat /\ g[p] <= f[p]
    PROVE  /\ IsFiniteSet(Room(P, g)) /\ Cardinality(Room(P, g)) <= Cardinality(Room(P, f))
           /\ Cardinality(Room(P, f)) \in Nat /\ Cardinality(Room(P, g)) \in Nat
  <1>1. \A p \in P : 1 .. g[p] \subseteq 1 .. f[p]
    OBVIOUS
  <1>2. Room(P, g) \subseteq Room(P, f)
    BY <1>1 DEF Room
  <1> QED  BY <1>2, FS_Subset, FS_CardinalityType

\* No permit, no slot.
LEMMA RoomEmpty ==
    ASSUME NEW f
    PROVE  IsFiniteSet(Room({}, f)) /\ Cardinality(Room({}, f)) = 0
  <1>1. Room({}, f) = {}
    BY DEF Room
  <1> QED  BY <1>1, FS_EmptySet

\* The flow thread adds up at least what the permits it has passed still reserve, and
\* what it has left to grant fits in the queue beside that and the packets it saw there.
Scan ==
    /\ summed <= Len(pendingPermits)
    /\ flowPc \notin {"sum", "grant"} => summed = 0 /\ permitsIssued = 0
    /\ flowPc = "grant" => summed = Len(pendingPermits)
    /\ IsFiniteSet(Room(SummedPermits, Reservations))
    /\ Cardinality(Room(SummedPermits, Reservations)) <= permitsIssued
    /\ flowPc = "grant" /\ slots > 0 => slots + permitsIssued + length <= QueueLimit

\* What a permit reserves is a natural number.
LEMMA ReservationsType ==
    ASSUME TypeOK
    PROVE  /\ Reservations \in [Permit -> Nat]
           /\ \A p \in Permit : Reservations[p] = NumReserved(p)
  BY DEF TypeOK, Reservations, NumReserved

\* Before it begins to add up, nothing is summed.
LEMMA ScanFresh ==
    ASSUME TypeOK, summed = 0, permitsIssued = 0, flowPc # "grant"
    PROVE  Scan
  <1>1. SummedPermits = {}
    BY DEF SummedPermits
  <1>2. Len(pendingPermits) \in Nat
    BY DEF TypeOK
  <1> QED  BY <1>1, <1>2, RoomEmpty DEF Scan

\* A step of the data or the collator thread, or one that only reads, keeps the sum.
LEMMA ScanUndisturbed ==
    ASSUME TypeOK, TypeOK', Scan, UNCHANGED <<pendingPermits, flowPc, scanVars>>,
           \A p \in Permit : permits'[p].numPackets <= permits[p].numPackets
    PROVE  Scan'
  <1>1. UNCHANGED <<SummedPermits, pendingPermits, flowPc, summed, permitsIssued, slots, length>>
    BY DEF SummedPermits, scanVars
  <1>2. SummedPermits \subseteq Permit
    <2>1. pendingPermits \in Seq(Permit) /\ summed \in Nat /\ summed <= Len(pendingPermits)
      BY DEF TypeOK, Scan
    <2>2. \A i \in 1 .. summed : pendingPermits[i] \in Permit
      BY <2>1
    <2> QED  BY <2>2 DEF SummedPermits
  <1>3. \A p \in Permit : /\ Reservations[p] \in Nat /\ Reservations'[p] \in Nat
                          /\ Reservations'[p] <= Reservations[p]
    BY DEF TypeOK, Reservations, NumReserved
  <1>4. /\ IsFiniteSet(Room(SummedPermits, Reservations'))
        /\ Cardinality(Room(SummedPermits, Reservations'))
             <= Cardinality(Room(SummedPermits, Reservations))
        /\ Cardinality(Room(SummedPermits, Reservations)) \in Nat
        /\ Cardinality(Room(SummedPermits, Reservations')) \in Nat
    BY <1>2, <1>3, RoomShrinks DEF Scan
  <1>5. permitsIssued \in Nat /\ Cardinality(Room(SummedPermits, Reservations)) <= permitsIssued
    BY DEF Scan, TypeOK
  <1>6. Cardinality(Room(SummedPermits, Reservations')) <= permitsIssued
    BY <1>4, <1>5
  <1> QED  BY <1>1, <1>4, <1>6 DEF Scan

\* One more permit is added up.
LEMMA ScanSum ==
    ASSUME ConsistentFlow, TypeOK', Scan, SumReserved
    PROVE  Scan'
  <1> DEFINE p == pendingPermits[summed + 1]
             R == Room(SummedPermits, Reservations)
  <1>1. /\ pendingPermits \in Seq(Permit) /\ summed \in Nat /\ permitsIssued \in Nat
        /\ summed + 1 \in 1 .. Len(pendingPermits) /\ Len(pendingPermits) \in Nat
    <2>1. pendingPermits \in Seq(Permit) /\ summed \in Nat /\ permitsIssued \in Nat
      BY DEF ConsistentFlow, TypeOK
    <2>2. summed < Len(pendingPermits)
      BY DEF SumReserved
    <2>3. Len(pendingPermits) \in Nat
      BY <2>1
    <2> QED  BY <2>1, <2>2, <2>3
  <1>2. p \in Permit /\ Reservations[p] = NumReserved(p) /\ Reservations[p] \in Nat
    BY <1>1, ReservationsType DEF ConsistentFlow
  <1>3. p \notin SummedPermits
    BY <1>1 DEF SummedPermits, ConsistentFlow, PermitListExact, NoRepeats
  <1>4. SummedPermits' = SummedPermits \cup {p}
    <2>1. summed' = summed + 1 /\ pendingPermits' = pendingPermits
      BY DEF SumReserved, flowVars
    <2>2. 1 .. summed + 1 = (1 .. summed) \cup {summed + 1}
      BY <1>1
    <2> QED  BY <2>1, <2>2 DEF SummedPermits
  <1>5. Reservations' = Reservations
    BY DEF SumReserved, Reservations, NumReserved
  <1> HIDE DEF p
  <1>6. /\ IsFiniteSet(Room(SummedPermits \cup {p}, Reservations))
        /\ Cardinality(Room(SummedPermits \cup {p}, Reservations)) = Cardinality(R) + Reservations[p]
    <2>1. IsFiniteSet(R) /\ \A q \in SummedPermits : Reservations[q] = Reservations[q]
      BY DEF Scan
    <2> QED  BY <1>2, <1>3, <2>1, RoomAdd
  <1>7. Cardinality(R) \in Nat /\ Cardinality(R) <= permitsIssued
    BY FS_CardinalityType DEF Scan
  <1>8. permitsIssued' = permitsIssued + Reservations[p] /\ summed' = summed + 1 /\ flowPc' = "sum"
        /\ pendingPermits' = pendingPermits
    BY <1>2 DEF SumReserved, flowVars, p
  <1>9. Cardinality(R) + Reservations[p] <= permitsIssued'
    BY <1>1, <1>2, <1>7, <1>8
  <1>10. IsFiniteSet(Room(SummedPermits, Reservations)')
         /\ Cardinality(Room(SummedPermits, Reservations)') <= permitsIssued'
    BY <1>4, <1>5, <1>6, <1>9
  <1> QED  BY <1>1, <1>8, <1>10 DEF Scan

\* The sum is complete: what is left of the queue can be granted.
LEMMA ScanRead ==
    ASSUME ConsistentFlow, TypeOK', Scan, ReadAvailable
    PROVE  Scan'
  <1>1. /\ queued \in Nat /\ permitsIssued \in Nat /\ QueueLimit \in Nat
    BY ReceiveFlowAssumption DEF ConsistentFlow, TypeOK
  <1>2. /\ slots' = FreeSlots /\ length' = queued /\ flowPc' = "grant" /\ summed = Len(pendingPermits)
        /\ UNCHANGED <<pendingPermits, summed, permitsIssued, permits>>
    BY DEF ReadAvailable, flowVars
  <1>3. FreeSlots > 0 => FreeSlots + permitsIssued + queued <= QueueLimit
    BY <1>1 DEF FreeSlots, Available
  <1>4. Reservations' = Reservations /\ SummedPermits' = SummedPermits
    BY <1>2 DEF Reservations, NumReserved, SummedPermits
  <1> QED  BY <1>2, <1>3, <1>4 DEF Scan

\* No step of any thread takes the flow thread's sum out of its bounds.
LEMMA ScanKeeps == ConsistentFlow /\ Scan /\ [Next]_vars => Scan'
  <1> SUFFICES ASSUME ConsistentFlow, Scan, [Next]_vars PROVE Scan'
    OBVIOUS
  <1>1. TypeOK /\ TypeOK'
    BY NextKeeps DEF ConsistentFlow
  <1>2. CASE \/ \E m \in FlowMsg : ReadFlowMsg(m) \/ NoteStart(m)
             \/ WaitTimeout \/ RevokeCompleted \/ FinishDone \/ ResendPermit \/ NoteRequest
             \/ ExpirePermit \/ StopExpiring
    <2>1. flowPc \in {"read", "done", "request", "expire"} /\ UNCHANGED <<summed, permitsIssued>>
      BY <1>2 DEF ReadFlowMsg, NoteStart, WaitTimeout, RevokeCompleted, FinishDone, ResendPermit,
                  NoteRequest, ExpirePermit, StopExpiring, scanVars
    <2>2. flowPc' # "grant"
      BY <1>2, <2>1 DEF ReadFlowMsg, NoteStart, WaitTimeout, RevokeCompleted, FinishDone, ResendPermit,
                  NoteRequest, ExpirePermit, StopExpiring
    <2>3. summed' = 0 /\ permitsIssued' = 0
      BY <2>1 DEF Scan
    <2>4. (TypeOK /\ summed = 0 /\ permitsIssued = 0 /\ flowPc # "grant" => Scan)'
      BY ScanFresh, PTL
    <2> QED  BY <1>1, <2>2, <2>3, <2>4
  <1>3. CASE SumReserved
    BY <1>1, <1>3, ScanSum
  <1>4. CASE ReadAvailable
    BY <1>1, <1>4, ScanRead
  <1>5. CASE \E can \in CanSendAny : GrantPermit(can) \/ NoGrant(can)
    <2>1. summed' = 0 /\ permitsIssued' = 0 /\ flowPc' = "read"
      BY <1>5 DEF GrantPermit, NoGrant, StartNextRound
    <2>2. (TypeOK /\ summed = 0 /\ permitsIssued = 0 /\ flowPc # "grant" => Scan)'
      BY ScanFresh, PTL
    <2> QED  BY <1>1, <2>1, <2>2
  <1>6. CASE CountPacket
    <2>1. UNCHANGED <<pendingPermits, flowPc, scanVars>>
      BY <1>6 DEF CountPacket, flowVars
    <2>2. \A p \in Permit : permits'[p].numPackets <= permits[p].numPackets
      BY <1>1, <1>6, SMTT(40) DEF CountPacket, TypeOK
    <2> QED  BY <1>1, <2>1, <2>2, ScanUndisturbed
  <1>7. CASE \/ \E s \in Senders, seq \in SendSeqs, duplicate \in BOOLEAN : ReadPacket(s, seq, duplicate)
             \/ PushPacket \/ CollatePacket \/ UNCHANGED vars
    <2>1. UNCHANGED <<pendingPermits, flowPc, scanVars, permits>>
      BY <1>7 DEF ReadPacket, PushPacket, CollatePacket, vars, flowVars
    <2>2. \A p \in Permit : permits'[p].numPackets <= permits[p].numPackets
      BY <1>1, <2>1 DEF TypeOK
    <2> QED  BY <1>1, <2>1, <2>2, ScanUndisturbed
  <1> QED  BY <1>2, <1>3, <1>4, <1>5, <1>6, <1>7 DEF Next, FlowStep

\* What a grant reserves fits in the queue beside what is reserved and queued already.
LEMMA GrantFits ==
    ASSUME ConsistentFlow, Scan, NEW can, GrantPermit(can)
    PROVE  TotalReserved' + length <= QueueLimit
  <1> DEFINE s == pendingRequests[Least(Grantable(can))]
             granted == SmallerOf(SmallerOf(slots, MaxSlotsPerSender), QueueLimit - permitsIssued)
             R == Room(SummedPermits, Reservations)
  <1>1. /\ permitsIssued \in Nat /\ slots \in Nat /\ length \in Nat /\ QueueLimit \in Nat
        /\ MaxSlotsPerSender \in Nat /\ slots > 0 /\ flowPc = "grant"
    BY ReceiveFlowAssumption DEF ConsistentFlow, TypeOK, GrantPermit, MayGrant
  <1>2. slots + permitsIssued + length <= QueueLimit
    BY <1>1 DEF Scan
  <1>3. granted \in Nat /\ granted <= slots
    BY <1>1, <1>2 DEF SmallerOf
  <1>4. s \in Senders /\ flowSeq[s] # 0
    <2>1. Grantable(can) \subseteq DOMAIN pendingRequests /\ Grantable(can) # {}
      BY DEF Grantable, GrantPermit
    <2>2. pendingRequests \in Seq(Senders) /\ DOMAIN pendingRequests \subseteq Nat
      BY DEF ConsistentFlow, TypeOK
    <2>3. Least(Grantable(can)) \in DOMAIN pendingRequests
      BY <2>1, <2>2, LeastInSet
    <2>4. s \in Elements(pendingRequests)
      BY <2>3 DEF Elements
    <2>5. s \in Senders /\ state[s] = "requested"
      BY <2>4 DEF ConsistentFlow, RequestListExact
    <2> QED  BY <2>5 DEF ConsistentFlow, FlowKnown
  <1>5. \E i \in PermitIds :
           /\ ~IsActive(<<s, i>>)
           /\ permits' = [permits EXCEPT ![<<s, i>>] =
                 [flowSeq |-> flowSeq[s], sendSeq |-> sendSeq[s], numPackets |-> granted]]
    BY DEF GrantPermit, Unallocated
  <1> HIDE DEF s, granted
  <1>6. PICK new \in Permit :
           /\ ~IsActive(new)
           /\ permits' = [permits EXCEPT ![new] =
                 [flowSeq |-> flowSeq[s], sendSeq |-> sendSeq[s], numPackets |-> granted]]
    BY <1>4, <1>5 DEF Permit
  <1>7. SummedPermits = {p \in Permit : IsActive(p)}
    <2>1. summed = Len(pendingPermits) /\ DOMAIN pendingPermits = 1 .. Len(pendingPermits)
      BY <1>1 DEF Scan, ConsistentFlow, TypeOK
    <2>2. SummedPermits = Elements(pendingPermits)
      BY <2>1 DEF SummedPermits, Elements
    <2> QED  BY <2>2 DEF ConsistentFlow, PermitListExact
  <1>8. \A p \in Permit : /\ IsActive(p)' <=> IsActive(p) \/ p = new
                          /\ p # new => NumReserved(p)' = NumReserved(p)
    BY <1>4, <1>6 DEF IsActive, NumReserved, ConsistentFlow, TypeOK
  <1>9. NumReserved(new)' = granted
    <2>1. permits'[new] = [flowSeq |-> flowSeq[s], sendSeq |-> sendSeq[s], numPackets |-> granted]
      BY <1>6 DEF ConsistentFlow, TypeOK
    <2>2. permits'[new].numPackets = granted
      BY <2>1
    <2> QED  BY <1>3, <2>2 DEF NumReserved
  <1>10. {p \in Permit : IsActive(p)'} = SummedPermits \cup {new} /\ new \notin SummedPermits
    BY <1>6, <1>7, <1>8
  <1>11. /\ Reservations'[new] = granted
         /\ \A p \in SummedPermits : Reservations'[p] = Reservations[p]
    <2>1. \A p \in Permit : Reservations'[p] = NumReserved(p)' /\ Reservations[p] = NumReserved(p)
      BY DEF Reservations
    <2>2. \A p \in SummedPermits : p \in Permit /\ p # new
      BY <1>7, <1>10
    <2>3. Reservations'[new] = granted
      BY <1>6, <1>9, <2>1
    <2> QED  BY <1>8, <2>1, <2>2, <2>3
  <1>12. /\ IsFiniteSet(Room(SummedPermits \cup {new}, Reservations'))
         /\ Cardinality(Room(SummedPermits \cup {new}, Reservations'))
              = Cardinality(R) + Reservations'[new]
    <2>1. IsFiniteSet(R)
      BY DEF Scan
    <2>2. Reservations'[new] \in Nat
      BY <1>3, <1>11
    <2> QED  BY <1>10, <1>11, <2>1, <2>2, RoomAdd
  <1>13. TotalReserved' = Cardinality(Room(SummedPermits \cup {new}, Reservations'))
    <2>1. \A p \in Permit : Reservations'[p] = NumReserved(p)'
      BY DEF Reservations
    <2>2. Room({p \in Permit : IsActive(p)'}, Reservations') = ReservedBy({p \in Permit : IsActive(p)})'
      BY <2>1 DEF Room, ReservedBy
    <2> QED  BY <1>10, <2>2 DEF TotalReserved
  <1>14. Cardinality(R) \in Nat /\ Cardinality(R) <= permitsIssued
    BY FS_CardinalityType DEF Scan
  <1>15. TotalReserved' = Cardinality(R) + granted
    BY <1>11, <1>12, <1>13
  <1> HIDE DEF R
  <1> QED  BY <1>1, <1>2, <1>3, <1>14, <1>15

\* The sum of the flow thread is an upper bound of what is reserved, although the data
\* thread counts packets against the permits meanwhile.
THEOREM ScanStaysBounded == Spec => []Scan
  <1>1. Init => Scan
    <2> SUFFICES ASSUME Init PROVE Scan
      OBVIOUS
    <2>1. TypeOK
      BY InitConsistent DEF ConsistentFlow
    <2>2. summed = 0 /\ permitsIssued = 0 /\ flowPc # "grant"
      BY DEF Init
    <2> QED  BY <2>1, <2>2, ScanFresh
  <1>2. ConsistentFlow /\ Scan /\ [Next]_vars => Scan'
    BY ScanKeeps
  <1> QED  BY <1>1, <1>2, FlowStaysConsistent, PTL DEF Spec

\* When a permit has been granted, all reservations fit in the queue beside the packets
\* that were on it when checkPendingRequests looked.
THEOREM GrantsAlwaysFit == Spec => GrantsFitQueue
  <1>1. ASSUME ConsistentFlow, Scan, Next
        PROVE  Len(pendingPermits') > Len(pendingPermits) => TotalReserved' + length <= QueueLimit
    <2> SUFFICES ASSUME Len(pendingPermits') > Len(pendingPermits)
                 PROVE  TotalReserved' + length <= QueueLimit
      OBVIOUS
    <2>1. pendingPermits \in Seq(Permit) /\ Len(pendingPermits) \in Nat
      BY <1>1 DEF ConsistentFlow, TypeOK
    <2>2. ~RevokeCompleted
      <3> SUFFICES ASSUME RevokeCompleted PROVE FALSE
        OBVIOUS
      <3>1. PICK x : pendingPermits' = UnlinkAt(pendingPermits, x)
        BY DEF RevokeCompleted, Unlink
      <3>2. DOMAIN pendingPermits' = 1 .. Len(pendingPermits) - 1
        BY <3>1 DEF UnlinkAt
      <3>3. pendingPermits' \in Seq(Permit)
        BY <1>1, NextKeeps DEF ConsistentFlow, TypeOK
      <3>4. DOMAIN pendingPermits' = 1 .. Len(pendingPermits') /\ Len(pendingPermits') \in Nat
        BY <3>3
      <3>5. Len(pendingPermits') \in 1 .. Len(pendingPermits')
        BY <2>1, <3>4
      <3> QED  BY <2>1, <3>2, <3>4, <3>5
    <2>3. ~ExpirePermit
      <3> SUFFICES ASSUME ExpirePermit PROVE FALSE
        OBVIOUS
      <3>1. pendingPermits' = Tail(pendingPermits) /\ pendingPermits # <<>>
        BY DEF ExpirePermit
      <3>2. Len(Tail(pendingPermits)) = Len(pendingPermits) - 1
        BY <2>1, <3>1
      <3> QED  BY <2>1, <3>1, <3>2
    <2>4. pendingPermits' # pendingPermits
      BY <2>1
    <2>5. PICK can \in CanSendAny : GrantPermit(can)
      BY <1>1, <2>2, <2>3, <2>4
         DEF Next, FlowStep, ReadFlowMsg, NoteStart, WaitTimeout, FinishDone, ResendPermit, NoteRequest,
             StopExpiring, SumReserved, ReadAvailable, NoGrant, ReadPacket, CountPacket, PushPacket,
             CollatePacket, flowVars
    <2> QED  BY <1>1, <2>5, GrantFits
  <1>2. ConsistentFlow /\ Scan /\ [Next]_vars
          => [Len(pendingPermits') > Len(pendingPermits) => TotalReserved' + length <= QueueLimit]_vars
    BY <1>1
  <1> QED  BY <1>2, FlowStaysConsistent, ScanStaysBounded, PTL DEF Spec, GrantsFitQueue

-----------------------------------------------------------------------------
(* Parts of a sequence.                                                       *)

\* A set of numbers that is not empty has a least one.
LEMMA LeastNumber ==
    ASSUME NEW S, S \subseteq Nat, S # {}
    PROVE  \E n \in S : \A k \in S : n <= k
  <1>1. PICK x \in S : \A y \in S : ~(<<y, x>> \in OpToRel(<, Nat))
    BY WFMin, NatLessThanWellFounded
  <1>2. \A y \in S : ~(y < x)
    BY <1>1 DEF OpToRel
  <1> QED  BY <1>2

\* h lists the m numbers of I from the least to the greatest.
Enumerates(h, m, I) ==
    /\ m \in Nat
    /\ h \in [1 .. m -> I]
    /\ \A j, k \in 1 .. m : j < k => h[j] < h[k]
    /\ \A i \in I : \E j \in 1 .. m : h[j] = i

\* The position that KeepAt takes its j-th element from.
Nth(I, j) == CHOOSE i \in I : Cardinality({x \in I : x < i}) = j - 1

\* Those positions are all of them, in their order.
LEMMA NthEnumerates ==
    ASSUME NEW I \in SUBSET Int, IsFiniteSet(I)
    PROVE  Enumerates([j \in 1 .. Cardinality(I) |-> Nth(I, j)], Cardinality(I), I)
  <1> DEFINE Below(i) == {x \in I : x < i}
             c == Cardinality(I)
             rank == [i \in I |-> Cardinality(Below(i))]
  <1>1. IsFiniteSet(I) /\ c \in Nat
    BY FS_CardinalityType
  <1>2. ASSUME NEW i \in I PROVE IsFiniteSet(Below(i)) /\ Cardinality(Below(i)) \in 0 .. c - 1
    <2>1. Below(i) \in SUBSET I /\ i \notin Below(i)
      OBVIOUS
    <2>2. IsFiniteSet(Below(i)) /\ Cardinality(Below(i)) <= c /\ (c = Cardinality(Below(i)) => I = Below(i))
      BY <1>1, <2>1, FS_Subset
    <2>3. Cardinality(Below(i)) \in Nat
      BY <2>2, FS_CardinalityType
    <2> HIDE DEF Below
    <2> QED  BY <1>1, <2>1, <2>2, <2>3
  <1>3. ASSUME NEW x \in I, NEW y \in I, x < y
        PROVE  Cardinality(Below(x)) < Cardinality(Below(y))
    <2>1. Below(x) \in SUBSET Below(y) /\ x \in Below(y) /\ x \notin Below(x)
      <3>1. x \in Int /\ y \in Int /\ \A z \in I : z \in Int
        OBVIOUS
      <3>2. ~(x < x) /\ \A z \in I : z < x => z < y
        BY <1>3, <3>1
      <3> QED  BY <1>3, <3>2
    <2>2. IsFiniteSet(Below(y)) /\ Cardinality(Below(y)) \in Nat /\ Cardinality(Below(x)) \in Nat
      BY <1>2
    <2> HIDE DEF Below
    <2>3. Cardinality(Below(x)) <= Cardinality(Below(y))
          /\ (Cardinality(Below(y)) = Cardinality(Below(x)) => Below(y) = Below(x))
      BY <2>1, <2>2, FS_Subset
    <2> QED  BY <2>1, <2>2, <2>3
  <1>4. ASSUME NEW x \in I, NEW y \in I, x # y
        PROVE  Cardinality(Below(x)) # Cardinality(Below(y))
    <2>1. PICK p, q : p = Cardinality(Below(x)) /\ q = Cardinality(Below(y))
      OBVIOUS
    <2>2. p \in 0 .. c - 1 /\ q \in 0 .. c - 1
      BY <1>2, <2>1
    <2>3. x < y \/ y < x
      BY <1>4
    <2>4. p < q \/ q < p
      BY <1>3, <2>1, <2>3
    <2>5. p # q
      BY <1>1, <2>2, <2>4
    <2> QED  BY <2>1, <2>5
  <1>5. ASSUME NEW i \in 0 .. c - 1 PROVE \E e \in I : Cardinality(Below(e)) = i
    <2>1. SUFFICES ASSUME \A e \in I : Cardinality(Below(e)) # i PROVE FALSE
      OBVIOUS
    <2> DEFINE T == (0 .. c - 1) \ {i}
    <2>2. rank \in [I -> T]
      BY <1>2, <2>1
    <2>3. IsFiniteSet(T) /\ Cardinality(T) < c
      <3>1. IsFiniteSet(0 .. c - 1) /\ Cardinality(0 .. c - 1) = c
        BY <1>1, FS_Interval
      <3>2. IsFiniteSet(T) /\ Cardinality(T) = Cardinality(0 .. c - 1) - 1
        BY <3>1, FS_RemoveElement
      <3> QED  BY <1>1, <3>1, <3>2
    <2>4. \A x, y \in I : x # y => rank[x] # rank[y]
      BY <1>4
    <2> HIDE DEF T, rank
    <2>5. \E x, y \in I : x # y /\ rank[x] = rank[y]
      BY <1>1, <2>2, <2>3, FS_PigeonHole
    <2> QED  BY <2>4, <2>5
  <1> DEFINE h == [j \in 1 .. c |-> Nth(I, j)]
  <1>6. ASSUME NEW j \in 1 .. c PROVE h[j] \in I /\ Cardinality(Below(h[j])) = j - 1
    <2>1. j - 1 \in 0 .. c - 1
      BY <1>1
    <2>2. \E e \in I : Cardinality(Below(e)) = j - 1
      BY <1>5, <2>1
    <2>3. Nth(I, j) = CHOOSE e \in I : Cardinality(Below(e)) = j - 1
      BY DEF Nth
    <2>4. h[j] = Nth(I, j)
      OBVIOUS
    <2> HIDE DEF Below, h
    <2> QED  BY <2>2, <2>3, <2>4
  <1>7. h \in [1 .. c -> I]
    <2> HIDE DEF c
    <2> QED  BY <1>6
  <1>8. ASSUME NEW j \in 1 .. c, NEW k \in 1 .. c, j < k PROVE h[j] < h[k]
    <2>1. PICK x, y : x = h[j] /\ y = h[k]
      OBVIOUS
    <2>2. x \in I /\ y \in I /\ Cardinality(Below(x)) = j - 1 /\ Cardinality(Below(y)) = k - 1
      BY <1>6, <2>1
    <2>3. j \in Int /\ k \in Int /\ x \in Int /\ y \in Int
      BY <1>1, <2>2
    <2> HIDE DEF Below, h
    <2>4. x # y
      BY <1>8, <2>2, <2>3
    <2>5. ~(y < x)
      <3>1. ASSUME y < x PROVE FALSE
        <4>1. Cardinality(Below(y)) < Cardinality(Below(x))
          BY <1>3, <2>2, <3>1
        <4> QED  BY <1>8, <2>2, <2>3, <4>1
      <3> QED  BY <3>1
    <2> QED  BY <2>1, <2>3, <2>4, <2>5
  <1>9. ASSUME NEW i \in I PROVE \E j \in 1 .. c : h[j] = i
    <2>1. PICK r \in 0 .. c - 1 : Cardinality(Below(i)) = r
      BY <1>2
    <2>2. r + 1 \in 1 .. c /\ (r + 1) - 1 = r
      BY <1>1
    <2>3. PICK j : j = r + 1
      OBVIOUS
    <2>4. j \in 1 .. c /\ h[j] \in I /\ Cardinality(Below(h[j])) = r
      BY <1>6, <2>2, <2>3
    <2> HIDE DEF Below, h
    <2>5. h[j] = i
      BY <1>4, <2>1, <2>4
    <2> QED  BY <2>4, <2>5
  <1> HIDE DEF h, c
  <1>10. Enumerates(h, c, I)
    BY <1>1, <1>7, <1>8, <1>9 DEF Enumerates
  <1> QED  BY <1>10 DEF h, c

\* There is only one way to list them: two lists agree as far as both go,
LEMMA EnumerationsAgree ==
    ASSUME NEW I \in SUBSET Int, NEW h, NEW m, Enumerates(h, m, I),
           NEW g, NEW l, Enumerates(g, l, I), NEW i \in 1 .. m, i \in 1 .. l
    PROVE  h[i] = g[i]
  <1> DEFINE Bad == {j \in 1 .. m : j \in 1 .. l /\ h[j] # g[j]}
  <1>1. SUFFICES ASSUME Bad # {} PROVE FALSE
    BY <1>1
  <1>2. m \in Nat /\ l \in Nat /\ h \in [1 .. m -> I] /\ g \in [1 .. l -> I]
    BY DEF Enumerates
  <1>3. PICK j \in Bad : \A k \in Bad : j <= k
    <2>1. Bad \subseteq Nat
      BY <1>2
    <2> HIDE DEF Bad
    <2> QED  BY <1>1, <2>1, LeastNumber
  <1>4. j \in 1 .. m /\ j \in 1 .. l /\ h[j] # g[j] /\ h[j] \in Int /\ g[j] \in Int
        /\ h[j] \in I /\ g[j] \in I
    BY <1>2
  <1>5. \A k \in 1 .. j - 1 : k \in 1 .. m /\ k \in 1 .. l /\ h[k] = g[k]
    <2>1. SUFFICES ASSUME NEW k \in 1 .. j - 1 PROVE k \in 1 .. m /\ k \in 1 .. l /\ h[k] = g[k]
      OBVIOUS
    <2>2. k \in 1 .. m /\ k \in 1 .. l /\ k < j
      BY <1>2, <1>4
    <2>3. k \notin Bad
      BY <1>2, <1>3, <1>4, <2>2
    <2> QED  BY <2>2, <2>3
  <1> HIDE DEF Bad
  <1>6. ASSUME h[j] < g[j] PROVE FALSE
    <2>1. PICK k \in 1 .. l : g[k] = h[j]
      BY <1>4 DEF Enumerates
    <2>2. k < j
      <3>0. ASSUME j < k PROVE g[j] < g[k]
        BY <1>4, <3>0 DEF Enumerates
      <3>1. ~(j < k)
        BY <1>4, <1>6, <2>1, <3>0
      <3>2. k # j
        BY <1>4, <2>1
      <3> QED  BY <1>2, <1>4, <3>1, <3>2
    <2>3. k \in 1 .. j - 1
      BY <1>2, <1>4, <2>2
    <2>4. k \in 1 .. m /\ h[k] = h[j]
      BY <1>5, <2>1, <2>3
    <2>5. h[k] < h[j]
      BY <1>4, <2>2, <2>4 DEF Enumerates
    <2>6. PICK v : v = h[j]
      OBVIOUS
    <2>7. v \in Int /\ v < v
      BY <1>4, <2>4, <2>5, <2>6
    <2> QED  BY <2>7
  <1>7. ASSUME g[j] < h[j] PROVE FALSE
    <2>1. PICK k \in 1 .. m : h[k] = g[j]
      BY <1>4 DEF Enumerates
    <2>2. k < j
      <3>0. ASSUME j < k PROVE h[j] < h[k]
        BY <1>4, <3>0 DEF Enumerates
      <3>1. ~(j < k)
        BY <1>4, <1>7, <2>1, <3>0
      <3>2. k # j
        BY <1>4, <2>1
      <3> QED  BY <1>2, <1>4, <3>1, <3>2
    <2>3. k \in 1 .. j - 1
      BY <1>2, <1>4, <2>2
    <2>4. k \in 1 .. l /\ g[k] = g[j]
      BY <1>5, <2>1, <2>3
    <2>5. g[k] < g[j]
      BY <1>4, <2>2, <2>4 DEF Enumerates
    <2>6. PICK v : v = g[j]
      OBVIOUS
    <2>7. v \in Int /\ v < v
      BY <1>4, <2>4, <2>5, <2>6
    <2> QED  BY <2>7
  <1> QED  BY <1>4, <1>6, <1>7

\* and neither goes further than the other.
LEMMA EnumerationsEnd ==
    ASSUME NEW I \in SUBSET Int, NEW h, NEW m, Enumerates(h, m, I),
           NEW g, NEW l, Enumerates(g, l, I)
    PROVE  l <= m
  <1>1. m \in Nat /\ l \in Nat /\ h \in [1 .. m -> I] /\ g \in [1 .. l -> I]
    BY DEF Enumerates
  <1>2. SUFFICES ASSUME m < l PROVE FALSE
    BY <1>1
  <1>3. l \in 1 .. l /\ g[l] \in I
    BY <1>1, <1>2
  <1>4. PICK k \in 1 .. m : h[k] = g[l]
    BY <1>3 DEF Enumerates
  <1>5. k \in 1 .. l /\ k < l
    BY <1>1, <1>2
  <1>6. h[k] = g[k]
    BY <1>5, EnumerationsAgree
  <1>7. g[k] < g[l] /\ g[k] \in Int /\ g[l] \in Int
    BY <1>1, <1>3, <1>5 DEF Enumerates
  <1> QED  BY <1>4, <1>6, <1>7

\* The elements at the positions that h lists.
Through(s, h, m) == [j \in 1 .. m |-> s[h[j]]]

\* So any list of the positions tells what is kept.
LEMMA KeepAtIs ==
    ASSUME NEW I \in SUBSET Int, IsFiniteSet(I), NEW s, NEW h, NEW m, Enumerates(h, m, I)
    PROVE  KeepAt(s, I) = Through(s, h, m)
  <1> DEFINE c == Cardinality(I)
             g == [j \in 1 .. c |-> Nth(I, j)]
  <1>1. Enumerates(g, c, I)
    BY NthEnumerates
  <1>2. I \in SUBSET Int /\ m \in Nat /\ c \in Nat
    BY <1>1 DEF Enumerates
  <1>3. KeepAt(s, I) = [j \in 1 .. c |-> s[g[j]]]
    BY DEF KeepAt, Nth
  <1> HIDE DEF c, g
  <1>4. c <= m /\ m <= c
    BY <1>1, <1>2, EnumerationsEnd
  <1>5. c = m
    BY <1>2, <1>4
  <1>6. \A j \in 1 .. m : h[j] = g[j]
    BY <1>1, <1>2, <1>5, EnumerationsAgree
  <1> QED  BY <1>3, <1>5, <1>6 DEF Through

\* The positions in a sequence can be listed.
LEMMA PositionsFinite ==
    ASSUME NEW n \in Nat, NEW I \in SUBSET (1 .. n)
    PROVE  I \in SUBSET Int /\ IsFiniteSet(I) /\ Cardinality(I) <= n
  <1>1. IsFiniteSet(1 .. n) /\ Cardinality(1 .. n) = n
    BY FS_Interval
  <1>2. IsFiniteSet(I) /\ Cardinality(I) <= n
    BY <1>1, FS_Subset
  <1>3. I \in SUBSET Int
    OBVIOUS
  <1> QED  BY <1>2, <1>3

\* A finite set of positions can be listed in order.
LEMMA Listed ==
    ASSUME NEW I \in SUBSET Int, IsFiniteSet(I)
    PROVE  \E h : Enumerates(h, Cardinality(I), I)
  BY NthEnumerates

\* What is found at listed positions is a sequence.
LEMMA ThroughIs ==
    ASSUME NEW S, NEW s \in Seq(S), NEW I \in SUBSET (1 .. Len(s)), NEW h, NEW m,
           Enumerates(h, m, I)
    PROVE  /\ Through(s, h, m) \in Seq(S)
           /\ Len(Through(s, h, m)) = m
           /\ m \in Nat
           /\ \A j \in 1 .. m : h[j] \in I /\ h[j] \in 1 .. Len(s) /\ Through(s, h, m)[j] = s[h[j]]
  <1> DEFINE r == Through(s, h, m)
  <1>1. m \in Nat /\ h \in [1 .. m -> I]
    BY DEF Enumerates
  <1>2. \A j \in 1 .. m : h[j] \in I /\ h[j] \in 1 .. Len(s)
    BY <1>1
  <1>3. \A i \in 1 .. Len(s) : s[i] \in S
    OBVIOUS
  <1>4. r = [j \in 1 .. m |-> s[h[j]]]
    BY DEF Through
  <1> HIDE DEF r
  <1>5. r \in [1 .. m -> S] /\ \A j \in 1 .. m : r[j] = s[h[j]]
    BY <1>2, <1>3, <1>4
  <1>6. r \in Seq(S) /\ Len(r) = m
    BY <1>1, <1>5
  <1> QED  BY <1>1, <1>2, <1>5, <1>6 DEF r

\* The positions of the elements that are in P, and those elements in order.
At(list, P)   == {i \in DOMAIN list : list[i] \in P}
Kept(list, P) == KeepAt(list, At(list, P))

\* The positions can be listed, and any list of them tells what is kept.
LEMMA KeptIs ==
    ASSUME NEW S, NEW list \in Seq(S), NEW P, NEW h, NEW m, Enumerates(h, m, At(list, P))
    PROVE  /\ m \in Nat /\ Len(list) \in Nat
           /\ \A j \in 1 .. m : h[j] \in 1 .. Len(list) /\ list[h[j]] \in P
           /\ \A j, k \in 1 .. m : j < k => h[j] < h[k]
           /\ Kept(list, P) = Through(list, h, m)
           /\ Kept(list, P) \in Seq(S) /\ Len(Kept(list, P)) = m
           /\ \A j \in 1 .. m : Kept(list, P)[j] = list[h[j]]
  <1>1. PICK I : I = At(list, P)
    OBVIOUS
  <1>2. DOMAIN list = 1 .. Len(list) /\ Len(list) \in Nat
    OBVIOUS
  <1>3. I \in SUBSET (1 .. Len(list)) /\ \A i \in I : list[i] \in P
    BY <1>1, <1>2 DEF At
  <1>4. I \in SUBSET Int /\ IsFiniteSet(I)
    BY <1>2, <1>3, PositionsFinite
  <1>5. KeepAt(list, I) = Through(list, h, m)
    BY <1>1, <1>4, KeepAtIs
  <1>6. /\ Through(list, h, m) \in Seq(S)
        /\ Len(Through(list, h, m)) = m
        /\ m \in Nat
        /\ \A j \in 1 .. m : h[j] \in I /\ h[j] \in 1 .. Len(list) /\ Through(list, h, m)[j] = list[h[j]]
    BY <1>1, <1>3, ThroughIs
  <1>7. \A j, k \in 1 .. m : j < k => h[j] < h[k]
    BY DEF Enumerates
  <1> QED  BY <1>1, <1>2, <1>3, <1>5, <1>6, <1>7 DEF Kept

\* There is such a list.
LEMMA AtListed ==
    ASSUME NEW S, NEW list \in Seq(S), NEW P
    PROVE  \E h : Enumerates(h, Cardinality(At(list, P)), At(list, P))
  <1>1. PICK I : I = At(list, P)
    OBVIOUS
  <1>2. I \in SUBSET (1 .. Len(list)) /\ Len(list) \in Nat
    BY <1>1 DEF At
  <1>3. I \in SUBSET Int /\ IsFiniteSet(I)
    BY <1>2, PositionsFinite
  <1> QED  BY <1>1, <1>3, Listed

\* What is kept are elements of the list that are in P, each as often as there,
\* and all of them.
LEMMA KeptElements ==
    ASSUME NEW S, NEW list \in Seq(S), NEW P, NEW q, q = Kept(list, P)
    PROVE  /\ q \in Seq(S) /\ DOMAIN q = 1 .. Len(q) /\ Len(q) \in Nat
           /\ Len(q) = Cardinality(At(list, P))
           /\ \A j \in DOMAIN q : q[j] \in P /\ q[j] \in Elements(list)
           /\ \A x \in P : x \in Elements(list) => \E j \in DOMAIN q : q[j] = x
           /\ NoRepeats(list) => NoRepeats(q)
  <1>1. PICK m : m = Cardinality(At(list, P))
    OBVIOUS
  <1>2. PICK h : Enumerates(h, m, At(list, P))
    BY <1>1, AtListed
  <1>3. /\ m \in Nat /\ Len(list) \in Nat
        /\ \A j \in 1 .. m : h[j] \in 1 .. Len(list) /\ list[h[j]] \in P
        /\ \A j, k \in 1 .. m : j < k => h[j] < h[k]
        /\ q \in Seq(S) /\ Len(q) = m
        /\ \A j \in 1 .. m : q[j] = list[h[j]]
    BY <1>2, KeptIs
  <1>4. DOMAIN q = 1 .. m /\ DOMAIN list = 1 .. Len(list)
    BY <1>3
  <1>5. \A j \in 1 .. m : q[j] \in P /\ q[j] \in Elements(list)
    BY <1>3, <1>4 DEF Elements
  <1>6. ASSUME NEW x \in P, x \in Elements(list) PROVE \E j \in 1 .. m : q[j] = x
    <2>1. PICK i \in DOMAIN list : list[i] = x
      BY <1>6 DEF Elements
    <2>2. i \in At(list, P)
      BY <2>1 DEF At
    <2>3. PICK j \in 1 .. m : h[j] = i
      BY <1>2, <2>2 DEF Enumerates
    <2> QED  BY <1>3, <2>1, <2>3
  <1>7. ASSUME NoRepeats(list), NEW j \in 1 .. m, NEW k \in 1 .. m, q[j] = q[k] PROVE j = k
    <2>1. h[j] \in DOMAIN list /\ h[k] \in DOMAIN list /\ list[h[j]] = list[h[k]]
      BY <1>3, <1>4, <1>7
    <2>2. h[j] = h[k]
      BY <1>7, <2>1 DEF NoRepeats
    <2>3. h[j] \in Int /\ j \in Int /\ k \in Int
      BY <1>3
    <2>4. ~(j < k) /\ ~(k < j)
      BY <1>3, <2>2, <2>3
    <2> QED  BY <2>3, <2>4
  <1>8. NoRepeats(list) => NoRepeats(q)
    BY <1>4, <1>7 DEF NoRepeats
  <1> QED  BY <1>1, <1>3, <1>4, <1>5, <1>6, <1>8

\* Taking a list through the same elements.
LEMMA KeptAgree ==
    ASSUME NEW list, NEW P, NEW Q, \A x \in Elements(list) : x \in P <=> x \in Q
    PROVE  Kept(list, P) = Kept(list, Q)
  <1>1. \A i \in DOMAIN list : list[i] \in Elements(list)
    BY DEF Elements
  <1>2. At(list, P) = At(list, Q)
    BY <1>1 DEF At
  <1> QED  BY <1>2 DEF Kept


\* g lists the m positions of what is kept, which is q.
Locates(g, m, list, P, q) ==
    /\ m \in Nat /\ Len(q) = m
    /\ g = [j \in 1 .. m |-> g[j]]
    /\ \A j \in 1 .. m : g[j] \in 1 .. Len(list) /\ list[g[j]] \in P /\ q[j] = list[g[j]]
    /\ \A j, k \in 1 .. m : j < k => g[j] < g[k]
    /\ \A i \in 1 .. Len(list) : list[i] \in P => \E j \in 1 .. m : g[j] = i

\* Then q is what is kept.
LEMMA KeptBy ==
    ASSUME NEW S, NEW list \in Seq(S), NEW P, NEW g, NEW m, NEW q \in Seq(S), Locates(g, m, list, P, q)
    PROVE  Kept(list, P) = q
  <1> USE DEF Locates
  <1>1. DOMAIN list = 1 .. Len(list) /\ At(list, P) = {i \in 1 .. Len(list) : list[i] \in P}
    BY DEF At
  <1>2. \A j \in 1 .. m : g[j] \in At(list, P)
    BY <1>1
  <1>3. g \in [1 .. m -> At(list, P)]
    BY <1>2
  <1>4. \A i \in At(list, P) : \E j \in 1 .. m : g[j] = i
    BY <1>1
  <1>5. Enumerates(g, m, At(list, P))
    BY <1>3, <1>4 DEF Enumerates
  <1>6. PICK p : p = Kept(list, P)
    OBVIOUS
  <1>7. p \in Seq(S) /\ Len(p) = m /\ \A j \in 1 .. m : p[j] = list[g[j]]
    BY <1>5, <1>6, KeptIs
  <1>8. p = [j \in 1 .. m |-> p[j]] /\ q = [j \in 1 .. m |-> q[j]]
    BY <1>7
  <1>9. \A j \in 1 .. m : p[j] = q[j]
    BY <1>7
  <1> QED  BY <1>6, <1>8, <1>9

\* An element that is not kept can be taken off the list.
LEMMA KeptUnlink ==
    ASSUME NEW S, NEW list \in Seq(S), NEW k \in 1 .. Len(list), NEW P, list[k] \notin P
    PROVE  Kept(UnlinkAt(list, k), P) = Kept(list, P)
  <1>1. PICK r, n, q : r = UnlinkAt(list, k) /\ n = Len(list) /\ q = Kept(list, P)
    OBVIOUS
  <1>2. n \in Nat /\ k \in 1 .. n /\ DOMAIN list = 1 .. n /\ \A i \in 1 .. n : list[i] \in S
    BY <1>1
  <1>3. r = [i \in 1 .. n - 1 |-> IF i < k THEN list[i] ELSE list[i + 1]]
    BY <1>1 DEF UnlinkAt
  <1>4. PICK c \in Nat : c = n - 1
    BY <1>2
  <1>5. \A i \in 1 .. c : r[i] = (IF i < k THEN list[i] ELSE list[i + 1]) /\ r[i] \in S
    BY <1>2, <1>3, <1>4
  <1>6. r \in [1 .. c -> S]
    BY <1>3, <1>4, <1>5
  <1>7. r \in Seq(S) /\ Len(r) = c
    BY <1>6
  <1>8. PICK h, m : Enumerates(h, m, At(list, P))
    BY AtListed
  <1>9. /\ m \in Nat
        /\ \A j \in 1 .. m : h[j] \in 1 .. n /\ list[h[j]] \in P
        /\ \A j, l \in 1 .. m : j < l => h[j] < h[l]
        /\ q \in Seq(S) /\ Len(q) = m
        /\ \A j \in 1 .. m : q[j] = list[h[j]]
    BY <1>1, <1>8, KeptIs
  <1>10. PICK g : g = [j \in 1 .. m |-> IF h[j] < k THEN h[j] ELSE h[j] - 1]
    OBVIOUS
  <1>11. \A j \in 1 .. m : h[j] # k
    BY <1>9
  <1>12. ASSUME NEW j \in 1 .. m
         PROVE  g[j] \in 1 .. c /\ r[g[j]] = list[h[j]]
    <2>1. PICK i \in 1 .. n : i = h[j]
      BY <1>9
    <2>2. i # k /\ i \in Int /\ k \in Int
      BY <1>2, <1>11, <2>1
    <2>3. CASE i < k
      <3>1. g[j] = i /\ i \in 1 .. c
        BY <1>2, <1>4, <1>10, <2>1, <2>3
      <3> QED  BY <1>5, <2>1, <2>3, <3>1
    <2>4. CASE i > k
      <3>1. PICK x : x = i - 1
        OBVIOUS
      <3>2. g[j] = x /\ x \in 1 .. c /\ ~(x < k) /\ x + 1 = i
        BY <1>2, <1>4, <1>10, <2>1, <2>4, <3>1
      <3> QED  BY <1>5, <2>1, <3>2
    <2> QED  BY <2>2, <2>3, <2>4
  <1>13. ASSUME NEW j \in 1 .. m, NEW l \in 1 .. m, j < l PROVE g[j] < g[l]
    <2>1. h[j] < h[l] /\ h[j] \in Int /\ h[l] \in Int /\ h[j] # k /\ h[l] # k /\ k \in Int
      BY <1>2, <1>9, <1>11, <1>13
    <2>2. g[j] = (IF h[j] < k THEN h[j] ELSE h[j] - 1) /\ g[l] = (IF h[l] < k THEN h[l] ELSE h[l] - 1)
      BY <1>10
    <2> QED  BY <2>1, <2>2
  <1>14. ASSUME NEW i \in 1 .. c, r[i] \in P PROVE \E j \in 1 .. m : g[j] = i
    <2>1. PICK x : x = IF i < k THEN i ELSE i + 1
      OBVIOUS
    <2>2. x \in 1 .. n /\ (x < k => x = i) /\ (~(x < k) => x - 1 = i)
      BY <1>2, <1>4, <2>1
    <2>3. list[x] = r[i]
      BY <1>5, <2>1
    <2>4. x \in At(list, P)
      BY <1>2, <1>14, <2>2, <2>3 DEF At
    <2>5. PICK j \in 1 .. m : h[j] = x
      BY <1>8, <2>4 DEF Enumerates
    <2>6. g[j] = IF x < k THEN x ELSE x - 1
      BY <1>10, <2>5
    <2>7. g[j] = i
      BY <2>2, <2>6
    <2> QED  BY <2>7
  <1>15. \A j \in 1 .. m : g[j] \in 1 .. Len(r) /\ r[g[j]] \in P /\ q[j] = r[g[j]]
    BY <1>7, <1>9, <1>12
  <1>16. Kept(r, P) = q
    <2>1. \A i \in 1 .. Len(r) : r[i] \in P => \E j \in 1 .. m : g[j] = i
      BY <1>7, <1>14
    <2>2. g = [j \in 1 .. m |-> g[j]]
      BY <1>10
    <2>3. \A j, l \in 1 .. m : j < l => g[j] < g[l]
      BY <1>13
    <2>4. Locates(g, m, r, P, q)
      BY <1>9, <1>15, <2>1, <2>2, <2>3 DEF Locates
    <2>5. r \in Seq(S) /\ q \in Seq(S)
      BY <1>7, <1>9
    <2> QED  BY <2>4, <2>5, KeptBy
  <1> QED  BY <1>1, <1>16

\* An element that is on the list only once is found and taken off.
LEMMA KeptWithout ==
    ASSUME NEW S, NEW list \in Seq(S), NoRepeats(list), NEW x \in Elements(list), NEW P, x \notin P
    PROVE  Kept(Unlink(list, x), P) = Kept(list, P)
  <1>1. PICK k \in DOMAIN list : list[k] = x
    BY DEF Elements
  <1>2. Positions(list, x) = {k}
    BY <1>1 DEF NoRepeats, Positions
  <1>3. Least(Positions(list, x)) = k
    BY <1>1, <1>2 DEF Least
  <1>4. k \in 1 .. Len(list) /\ list[k] \notin P
    BY <1>1
  <1> QED  BY <1>3, <1>4, KeptUnlink DEF Unlink

\* The first element is taken off.
LEMMA KeptTail ==
    ASSUME NEW S, NEW list \in Seq(S), list # <<>>, NEW P
    PROVE  /\ Head(list) \notin P => Kept(Tail(list), P) = Kept(list, P)
           /\ Head(list) \in P =>
                 /\ Kept(list, P) # <<>> /\ Head(Kept(list, P)) = Head(list)
                 /\ Kept(Tail(list), P) = Tail(Kept(list, P))
  <1>1. PICK r, n, q : r = Tail(list) /\ n = Len(list) /\ q = Kept(list, P)
    OBVIOUS
  <1>2. n \in Nat \ {0} /\ r \in Seq(S) /\ Len(r) = n - 1 /\ DOMAIN list = 1 .. n /\ Head(list) = list[1]
        /\ \A i \in 1 .. n - 1 : r[i] = list[i + 1]
    BY <1>1
  <1>3. CASE Head(list) \notin P
    <2>1. PICK u : u = UnlinkAt(list, 1)
      OBVIOUS
    <2>2. u = [i \in 1 .. n - 1 |-> IF i < 1 THEN list[i] ELSE list[i + 1]]
      BY <1>1, <2>1 DEF UnlinkAt
    <2>3. r = [i \in 1 .. n - 1 |-> r[i]]
      BY <1>2
    <2>4. \A i \in 1 .. n - 1 : u[i] = r[i]
      BY <1>2, <2>2
    <2>5. u = r
      BY <2>2, <2>3, <2>4
    <2>6. 1 \in 1 .. Len(list) /\ list[1] \notin P
      BY <1>1, <1>2, <1>3
    <2>7. Kept(u, P) = q
      BY <1>1, <2>1, <2>6, KeptUnlink
    <2> QED  BY <1>1, <1>3, <2>5, <2>7
  <1>4. CASE Head(list) \in P
    <2>1. PICK h, m : Enumerates(h, m, At(list, P))
      BY AtListed
    <2>2. /\ m \in Nat
          /\ \A j \in 1 .. m : h[j] \in 1 .. n /\ list[h[j]] \in P
          /\ \A j, l \in 1 .. m : j < l => h[j] < h[l]
          /\ q \in Seq(S) /\ Len(q) = m
          /\ \A j \in 1 .. m : q[j] = list[h[j]]
      BY <1>1, <2>1, KeptIs
    <2>3. PICK f \in 1 .. m : h[f] = 1
      <3>1. 1 \in At(list, P)
        BY <1>2, <1>4 DEF At
      <3> QED  BY <2>1, <3>1 DEF Enumerates
    <2>4. f = 1 /\ 1 \in 1 .. m
      <3>1. 1 \in 1 .. m
        BY <2>2, <2>3
      <3>2. ASSUME 1 < f PROVE FALSE
        <4>1. h[1] < h[f] /\ h[1] \in 1 .. n
          BY <2>2, <3>1, <3>2
        <4> QED  BY <1>2, <2>3, <4>1
      <3> QED  BY <2>2, <3>1, <3>2
    <2>5. PICK c \in Nat : c = m - 1
      BY <2>2, <2>4
    <2>6. PICK g : g = [j \in 1 .. c |-> h[j + 1] - 1]
      OBVIOUS
    <2>7. PICK t : t = Tail(q)
      OBVIOUS
    <2>8. q # <<>> /\ t \in Seq(S) /\ Len(t) = c /\ \A j \in 1 .. c : t[j] = q[j + 1]
      BY <2>2, <2>4, <2>5, <2>7
    <2>9. Head(q) = Head(list)
      BY <1>2, <2>2, <2>3, <2>4, <2>8
    <2>10. ASSUME NEW j \in 1 .. c
           PROVE  g[j] \in 1 .. Len(r) /\ r[g[j]] \in P /\ t[j] = r[g[j]]
      <3>1. PICK l : l = j + 1
        OBVIOUS
      <3>2. l \in 1 .. m /\ 1 < l
        BY <2>2, <2>5, <3>1
      <3>3. h[1] < h[l] /\ h[l] \in 1 .. n /\ list[h[l]] \in P
        BY <2>2, <2>4, <3>2
      <3>4. PICK i : i = h[l] - 1
        OBVIOUS
      <3>5. i \in 1 .. n - 1 /\ i + 1 = h[l] /\ g[j] = i
        <4>1. h[1] = 1 /\ h[l] \in Int /\ n \in Int /\ h[l] <= n /\ 1 < h[l]
          BY <1>2, <2>3, <2>4, <3>3
        <4>2. g[j] = h[l] - 1
          BY <2>6, <3>1
        <4>3. PICK y : y = h[l]
          OBVIOUS
        <4> QED  BY <3>4, <4>1, <4>2, <4>3
      <3>6. r[i] = list[h[l]]
        BY <1>2, <3>5
      <3>7. t[j] = list[h[l]]
        BY <2>2, <2>8, <3>1, <3>2
      <3> QED  BY <1>2, <3>3, <3>5, <3>6, <3>7
    <2>11. ASSUME NEW j \in 1 .. c, NEW l \in 1 .. c, j < l PROVE g[j] < g[l]
      <3>1. PICK x, y : x = j + 1 /\ y = l + 1
        OBVIOUS
      <3>2. x \in 1 .. m /\ y \in 1 .. m /\ x < y
        BY <2>2, <2>5, <2>11, <3>1
      <3>3. h[x] < h[y] /\ h[x] \in Int /\ h[y] \in Int
        BY <2>2, <3>2
      <3>4. g[j] = h[x] - 1 /\ g[l] = h[y] - 1
        BY <2>6, <3>1
      <3> QED  BY <3>3, <3>4
    <2>12. ASSUME NEW i \in 1 .. Len(r), r[i] \in P PROVE \E j \in 1 .. c : g[j] = i
      <3>1. PICK x : x = i + 1
        OBVIOUS
      <3>2. x \in 1 .. n /\ x > 1 /\ list[x] = r[i]
        BY <1>2, <3>1
      <3>3. x \in At(list, P)
        BY <1>2, <2>12, <3>2 DEF At
      <3>4. PICK l \in 1 .. m : h[l] = x
        BY <2>1, <3>3 DEF Enumerates
      <3>5. l # 1
        BY <2>3, <2>4, <3>2, <3>4
      <3>6. PICK j : j = l - 1
        OBVIOUS
      <3>7. j \in 1 .. c /\ j + 1 = l
        BY <2>2, <2>5, <3>5, <3>6
      <3>8. g[j] = h[l] - 1
        BY <2>6, <3>7
      <3>9. g[j] = i
        BY <1>2, <3>1, <3>4, <3>8
      <3> QED  BY <3>7, <3>9
    <2>13. Kept(r, P) = t
      <3>1. g = [j \in 1 .. c |-> g[j]]
        BY <2>6
      <3>2. \A j, l \in 1 .. c : j < l => g[j] < g[l]
        BY <2>11
      <3>3. \A i \in 1 .. Len(r) : r[i] \in P => \E j \in 1 .. c : g[j] = i
        BY <2>12
      <3>4. \A j \in 1 .. c : g[j] \in 1 .. Len(r) /\ r[g[j]] \in P /\ t[j] = r[g[j]]
        BY <2>10
      <3>5. Locates(g, c, r, P, t)
        BY <2>8, <3>1, <3>2, <3>3, <3>4 DEF Locates
      <3>6. r \in Seq(S) /\ t \in Seq(S)
        BY <1>2, <2>8
      <3> QED  BY <3>5, <3>6, KeptBy
    <2> QED  BY <1>1, <1>4, <2>7, <2>8, <2>9, <2>13
  <1> QED  BY <1>3, <1>4


\* A new element is put at the end.
LEMMA KeptAppend ==
    ASSUME NEW S, NEW list \in Seq(S), NEW x \in S, NEW P
    PROVE  Kept(Append(list, x), P) = IF x \in P THEN Append(Kept(list, P), x) ELSE Kept(list, P)
  <1>1. PICK r, n, q : r = Append(list, x) /\ n = Len(list) /\ q = Kept(list, P)
    OBVIOUS
  <1>2. n \in Nat /\ DOMAIN list = 1 .. n /\ r \in Seq(S) /\ Len(r) = n + 1 /\ r[n + 1] = x
        /\ \A i \in 1 .. n : r[i] = list[i]
    BY <1>1
  <1>3. PICK h, m : Enumerates(h, m, At(list, P))
    BY AtListed
  <1>4. /\ m \in Nat
        /\ \A j \in 1 .. m : h[j] \in 1 .. n /\ list[h[j]] \in P
        /\ \A j, l \in 1 .. m : j < l => h[j] < h[l]
        /\ q \in Seq(S) /\ Len(q) = m
        /\ \A j \in 1 .. m : q[j] = list[h[j]]
    BY <1>1, <1>3, KeptIs
  <1>5. \A i \in 1 .. n : i \in 1 .. Len(r)
    BY <1>2
  <1>6. \A j \in 1 .. m : h[j] \in 1 .. Len(r) /\ r[h[j]] \in P /\ q[j] = r[h[j]]
    BY <1>2, <1>4, <1>5
  <1>7. ASSUME NEW i \in 1 .. n, r[i] \in P PROVE \E j \in 1 .. m : h[j] = i
    <2>1. i \in At(list, P)
      BY <1>2, <1>7 DEF At
    <2> QED  BY <1>3, <2>1 DEF Enumerates
  <1>8. h = [j \in 1 .. m |-> h[j]]
    BY <1>3 DEF Enumerates
  <1>9. CASE x \notin P
    <2>1. \A i \in 1 .. Len(r) : r[i] \in P => i \in 1 .. n
      BY <1>2, <1>9
    <2>2. \A i \in 1 .. Len(r) : r[i] \in P => \E j \in 1 .. m : h[j] = i
      BY <1>7, <2>1
    <2>3. Locates(h, m, r, P, q)
      BY <1>4, <1>6, <1>8, <2>2 DEF Locates
    <2>4. Kept(r, P) = q
      BY <1>2, <1>4, <2>3, KeptBy
    <2> QED  BY <1>1, <1>9, <2>4
  <1>10. CASE x \in P
    <2>1. PICK c \in Nat : c = m + 1
      BY <1>4
    <2>2. PICK t, g : t = Append(q, x) /\ g = [j \in 1 .. c |-> IF j = c THEN n + 1 ELSE h[j]]
      OBVIOUS
    <2>3. t \in Seq(S) /\ Len(t) = c /\ t[c] = x /\ \A j \in 1 .. m : t[j] = q[j]
      BY <1>4, <2>1, <2>2
    <2>4. g = [j \in 1 .. c |-> g[j]] /\ g[c] = n + 1 /\ \A j \in 1 .. m : g[j] = h[j]
      BY <1>4, <2>1, <2>2
    <2>5. \A j \in 1 .. c : j = c \/ j \in 1 .. m
      BY <1>4, <2>1
    <2>6. \A j \in 1 .. c : g[j] \in 1 .. Len(r) /\ r[g[j]] \in P /\ t[j] = r[g[j]]
      <3>1. n + 1 \in 1 .. Len(r)
        BY <1>2
      <3> QED  BY <1>2, <1>6, <1>10, <2>3, <2>4, <2>5, <3>1, ZenonT(60)
    <2>7. ASSUME NEW j \in 1 .. c, NEW l \in 1 .. c, j < l PROVE g[j] < g[l]
      <3>1. j \in 1 .. m /\ g[j] = h[j] /\ h[j] \in 1 .. n
        <4>1. j \in 1 .. m
          <5>1. j \in Int /\ l \in Int /\ 1 <= j /\ j < l /\ l <= c /\ c = m + 1 /\ m \in Nat
            BY <1>4, <2>1, <2>7
          <5> QED  BY <5>1
        <4> QED  BY <1>4, <2>4, <4>1
      <3>2. CASE l = c
        BY <1>2, <2>4, <3>1, <3>2
      <3>3. CASE l \in 1 .. m
        BY <1>4, <2>4, <2>7, <3>1, <3>3
      <3> QED  BY <2>5, <3>2, <3>3
    <2>8. ASSUME NEW i \in 1 .. Len(r), r[i] \in P PROVE \E j \in 1 .. c : g[j] = i
      <3>1. CASE i = n + 1
        <4>1. c \in 1 .. c
          BY <1>4, <2>1
        <4> QED  BY <2>4, <3>1, <4>1
      <3>2. CASE i \in 1 .. n
        <4>1. PICK j \in 1 .. m : h[j] = i
          BY <1>7, <2>8, <3>2
        <4>2. j \in 1 .. c
          BY <1>4, <2>1
        <4> QED  BY <2>4, <4>1, <4>2
      <3> QED  BY <1>2, <3>1, <3>2
    <2>9. Locates(g, c, r, P, t)
      <3>1. \A j, l \in 1 .. c : j < l => g[j] < g[l]
        BY <2>7
      <3>2. \A i \in 1 .. Len(r) : r[i] \in P => \E j \in 1 .. c : g[j] = i
        BY <2>8
      <3> QED  BY <2>3, <2>4, <2>6, <3>1, <3>2 DEF Locates
    <2>10. Kept(r, P) = t
      BY <1>2, <2>3, <2>9, KeptBy
    <2> QED  BY <1>1, <1>10, <2>2, <2>10
  <1> QED  BY <1>9, <1>10

\* Keeping fewer can be done in two steps.
LEMMA KeptTwice ==
    ASSUME NEW S, NEW list \in Seq(S), NEW P, NEW Q, Q \subseteq P
    PROVE  Kept(list, Q) = Kept(Kept(list, P), Q)
  <1>1. PICK q, n : q = Kept(list, P) /\ n = Len(list)
    OBVIOUS
  <1>2. PICK h, m : Enumerates(h, m, At(list, P))
    BY AtListed
  <1>3. /\ m \in Nat /\ n \in Nat
        /\ \A j \in 1 .. m : h[j] \in 1 .. n /\ list[h[j]] \in P
        /\ \A j, l \in 1 .. m : j < l => h[j] < h[l]
        /\ q \in Seq(S) /\ Len(q) = m
        /\ \A j \in 1 .. m : q[j] = list[h[j]]
    BY <1>1, <1>2, KeptIs
  <1>4. PICK f, c : Enumerates(f, c, At(q, Q))
    BY <1>3, AtListed
  <1>5. PICK t : t = Kept(q, Q)
    OBVIOUS
  <1>6. /\ c \in Nat
        /\ \A j \in 1 .. c : f[j] \in 1 .. m /\ q[f[j]] \in Q
        /\ \A j, l \in 1 .. c : j < l => f[j] < f[l]
        /\ t \in Seq(S) /\ Len(t) = c
        /\ \A j \in 1 .. c : t[j] = q[f[j]]
    <2>1. q \in Seq(S) /\ Len(q) = m
      BY <1>3
    <2> QED  BY <1>4, <1>5, <2>1, KeptIs
  <1>7. PICK g : g = [j \in 1 .. c |-> h[f[j]]]
    OBVIOUS
  <1>8. g = [j \in 1 .. c |-> g[j]] /\ \A j \in 1 .. c : g[j] = h[f[j]]
    BY <1>7
  <1>9. \A j \in 1 .. c : g[j] \in 1 .. Len(list) /\ list[g[j]] \in Q /\ t[j] = list[g[j]]
    BY <1>1, <1>3, <1>6, <1>8
  <1>10. ASSUME NEW j \in 1 .. c, NEW l \in 1 .. c, j < l PROVE g[j] < g[l]
    BY <1>3, <1>6, <1>8, <1>10, ZenonT(60)
  <1>11. ASSUME NEW i \in 1 .. Len(list), list[i] \in Q PROVE \E j \in 1 .. c : g[j] = i
    <2>1. i \in At(list, P)
      BY <1>11 DEF At
    <2>2. PICK l \in 1 .. m : h[l] = i
      BY <1>2, <2>1 DEF Enumerates
    <2>3. l \in At(q, Q)
      BY <1>3, <1>11, <2>2 DEF At
    <2>4. PICK j \in 1 .. c : f[j] = l
      BY <1>4, <2>3 DEF Enumerates
    <2> QED  BY <1>8, <2>2, <2>4
  <1>12. Locates(g, c, list, Q, t)
    <2>1. \A j, l \in 1 .. c : j < l => g[j] < g[l]
      BY <1>10
    <2>2. \A i \in 1 .. Len(list) : list[i] \in Q => \E j \in 1 .. c : g[j] = i
      BY <1>11
    <2> QED  BY <1>6, <1>8, <1>9, <2>1, <2>2 DEF Locates
  <1>13. Kept(list, Q) = t
    BY <1>6, <1>12, KeptBy
  <1> QED  BY <1>1, <1>5, <1>13

-----------------------------------------------------------------------------
(* A sender as FlowReceiver sees it.                                          *)

\* A permit as FlowReceiver knows it, and a list of permits.
Shown(P, p)      == [flowSeq |-> P[p].flowSeq,
                     slots   |-> IF P[p].numPackets > 0 THEN P[p].numPackets ELSE 0]
ShownList(P, q) == [j \in DOMAIN q |-> Shown(P, q[j])]

\* It does not matter whether the elements are kept before or after.
LEMMA ShownKept ==
    ASSUME NEW S, NEW q \in Seq(S), NEW J \in SUBSET (1 .. Len(q)), NEW P
    PROVE  KeepAt(ShownList(P, q), J) = ShownList(P, KeepAt(q, J))
  <1>1. DOMAIN q = 1 .. Len(q) /\ Len(q) \in Nat
    OBVIOUS
  <1>2. J \in SUBSET Int /\ IsFiniteSet(J)
    BY <1>1, PositionsFinite
  <1>3. PICK h, m : Enumerates(h, m, J)
    BY <1>2, Listed
  <1>4. m \in Nat /\ \A j \in 1 .. m : h[j] \in 1 .. Len(q)
    BY <1>3 DEF Enumerates
  <1>5. PICK v : v = ShownList(P, q)
    OBVIOUS
  <1>6. \A i \in 1 .. Len(q) : v[i] = Shown(P, q[i])
    BY <1>1, <1>5 DEF ShownList
  <1>7. KeepAt(v, J) = Through(v, h, m) /\ KeepAt(q, J) = Through(q, h, m)
    BY <1>2, <1>3, KeepAtIs
  <1>8. PICK u : u = Through(q, h, m)
    OBVIOUS
  <1>9. u = [j \in 1 .. m |-> q[h[j]]]
    BY <1>8 DEF Through
  <1>10. ShownList(P, u) = [j \in 1 .. m |-> Shown(P, q[h[j]])]
    BY <1>9 DEF ShownList
  <1>11. Through(v, h, m) = [j \in 1 .. m |-> Shown(P, q[h[j]])]
    BY <1>4, <1>6 DEF Through
  <1> QED  BY <1>5, <1>7, <1>8, <1>10, <1>11

\* Two tables show a list of permits alike if they agree on those.
LEMMA ShownSame ==
    ASSUME NEW q, NEW P, NEW R, \A j \in DOMAIN q : R[q[j]] = P[q[j]]
    PROVE  ShownList(R, q) = ShownList(P, q)
  BY DEF ShownList, Shown

\* The list is as long as before.
LEMMA ShownLength ==
    ASSUME NEW S, NEW q \in Seq(S), NEW P
    PROVE  Len(ShownList(P, q)) = Len(q) /\ DOMAIN ShownList(P, q) = 1 .. Len(q)
  <1>1. PICK n, v : n = Len(q) /\ v = ShownList(P, q)
    OBVIOUS
  <1>2. n \in Nat /\ v = [j \in 1 .. n |-> Shown(P, q[j])]
    BY <1>1 DEF ShownList
  <1>3. PICK T : T = {Shown(P, q[j]) : j \in 1 .. n}
    OBVIOUS
  <1>4. v \in [1 .. n -> T]
    BY <1>2, <1>3
  <1>5. Len(v) = n /\ DOMAIN v = 1 .. n
    BY <1>2, <1>4
  <1> QED  BY <1>1, <1>5

\* A list with another element at place i.
Replace(v, i, z) == [v EXCEPT ![i] = z]

\* If they differ on one of them, it is shown anew.
LEMMA ShownChange ==
    ASSUME NEW S, NEW q \in Seq(S), NoRepeats(q), NEW P, NEW R, NEW i \in DOMAIN q,
           \A x \in S : x # q[i] => R[x] = P[x]
    PROVE  ShownList(R, q) = Replace(ShownList(P, q), i, Shown(R, q[i]))
  <1>1. \A j \in DOMAIN q : q[j] \in S /\ (j # i => q[j] # q[i])
    BY DEF NoRepeats
  <1>2. \A j \in DOMAIN q : Shown(R, q[j]) = IF j = i THEN Shown(R, q[i]) ELSE Shown(P, q[j])
    BY <1>1 DEF Shown
  <1> QED  BY <1>2 DEF ShownList, Replace

\* Adding a permit.
LEMMA ShownAppend ==
    ASSUME NEW S, NEW q \in Seq(S), NEW x \in S, NEW P
    PROVE  ShownList(P, Append(q, x)) = Append(ShownList(P, q), Shown(P, x))
  <1>1. PICK n, r, v : n = Len(q) /\ r = Append(q, x) /\ v = ShownList(P, q)
    OBVIOUS
  <1>2. n \in Nat /\ DOMAIN q = 1 .. n /\ DOMAIN r = 1 .. n + 1 /\ r[n + 1] = x
        /\ \A j \in 1 .. n : r[j] = q[j]
    BY <1>1
  <1>3. v = [j \in 1 .. n |-> Shown(P, q[j])]
    BY <1>1, <1>2 DEF ShownList
  <1>4. PICK T : T = {Shown(P, q[j]) : j \in 1 .. n} \cup {Shown(P, x)}
    OBVIOUS
  <1>5. v \in [1 .. n -> T] /\ Shown(P, x) \in T
    BY <1>3, <1>4
  <1>6. v \in Seq(T) /\ Len(v) = n
    BY <1>2, <1>5
  <1>7. PICK u, w : u = Append(v, w) /\ w = Shown(P, x)
    OBVIOUS
  <1>8. DOMAIN u = 1 .. n + 1 /\ u = [j \in 1 .. n + 1 |-> u[j]] /\ u[n + 1] = w
        /\ \A j \in 1 .. n : u[j] = v[j]
    <2>1. w \in T
      BY <1>5, <1>7
    <2>2. u \in Seq(T) /\ Len(u) = n + 1 /\ u[n + 1] = w /\ \A j \in 1 .. n : u[j] = v[j]
      BY <1>6, <1>7, <2>1, AppendProperties
    <2> QED  BY <1>2, <2>2
  <1>9. \A j \in 1 .. n + 1 : u[j] = Shown(P, r[j])
    <2>1. \A j \in 1 .. n + 1 : j = n + 1 \/ j \in 1 .. n
      BY <1>2
    <2>2. \A j \in 1 .. n : v[j] = Shown(P, r[j])
      BY <1>2, <1>3
    <2> QED  BY <1>2, <1>7, <1>8, <2>1, <2>2
  <1>10. ShownList(P, r) = [j \in 1 .. n + 1 |-> Shown(P, r[j])]
    BY <1>2 DEF ShownList
  <1>11. ShownList(P, r) = u
    BY <1>8, <1>9, <1>10
  <1> QED  BY <1>1, <1>7, <1>11

\* Taking the first permit off.
LEMMA ShownTail ==
    ASSUME NEW S, NEW q \in Seq(S), q # <<>>, NEW P
    PROVE  ShownList(P, Tail(q)) = Tail(ShownList(P, q)) /\ ShownList(P, q) # <<>>
  <1>1. PICK n, r, v : n = Len(q) /\ r = Tail(q) /\ v = ShownList(P, q)
    OBVIOUS
  <1>2. n \in Nat \ {0} /\ DOMAIN q = 1 .. n /\ DOMAIN r = 1 .. n - 1
        /\ \A j \in 1 .. n - 1 : r[j] = q[j + 1]
    BY <1>1
  <1>3. v = [j \in 1 .. n |-> Shown(P, q[j])]
    BY <1>1, <1>2 DEF ShownList
  <1>4. PICK T : T = {Shown(P, q[j]) : j \in 1 .. n}
    OBVIOUS
  <1>5. v \in [1 .. n -> T]
    BY <1>3, <1>4
  <1>6. v \in Seq(T) /\ Len(v) = n
    BY <1>2, <1>5
  <1>7. PICK u : u = Tail(v)
    OBVIOUS
  <1>8. v # <<>> /\ u = [j \in 1 .. n - 1 |-> u[j]] /\ \A j \in 1 .. n - 1 : u[j] = v[j + 1]
    <2>1. v # <<>>
      BY <1>2, <1>6
    <2>2. u \in Seq(T) /\ Len(u) = n - 1 /\ \A j \in 1 .. n - 1 : u[j] = v[j + 1]
      BY <1>6, <1>7, <2>1, HeadTailProperties
    <2> QED  BY <1>2, <2>1, <2>2
  <1>9. \A j \in 1 .. n - 1 : j + 1 \in 1 .. n
    BY <1>2
  <1>10. \A j \in 1 .. n - 1 : u[j] = Shown(P, r[j])
    BY <1>2, <1>3, <1>8, <1>9
  <1>11. ShownList(P, r) = [j \in 1 .. n - 1 |-> Shown(P, r[j])]
    BY <1>2 DEF ShownList
  <1>12. ShownList(P, r) = u
    BY <1>8, <1>10, <1>11
  <1> QED  BY <1>1, <1>7, <1>8, <1>12


\* The permits of a sender, and those of them that are not about to be revoked.
Mine(s)   == {p \in Permit : p[1] = s}
OwnSet(s) == {p \in Mine(s) : ~(Ending(s) /\ p[2] \in CompletedIds(msg))}

\* The state of a sender as FlowReceiver sees it.
StateOf(s) == IF Ending(s) /\ msg.flowSeq = flowSeq[s] THEN "idle" ELSE state[s]

EntryWith(st, f, v)    == [state |-> st, flowSeq |-> f, active |-> v]
EntryFrom(st, f, q, P) == EntryWith(st, f, ShownList(P, q))

\* So EntryOf is told by the list of permits, now and after a step.
LEMMA EntryIs ==
    ASSUME TypeOK, TypeOK', NEW s
    PROVE  /\ EntryOf(s) = EntryFrom(StateOf(s), flowSeq[s], Kept(pendingPermits, OwnSet(s)), permits)
           /\ EntryOf(s)' = EntryFrom(StateOf(s)', flowSeq'[s], Kept(pendingPermits', OwnSet(s)'), permits')
  <1>1. /\ \A i \in DOMAIN pendingPermits : pendingPermits[i] \in Permit
        /\ \A i \in DOMAIN pendingPermits' : pendingPermits'[i] \in Permit
    BY SMTT(40) DEF TypeOK
  <1>2. At(pendingPermits, OwnSet(s))
          = {i \in DOMAIN pendingPermits :
               /\ pendingPermits[i][1] = s
               /\ ~(Ending(s) /\ pendingPermits[i][2] \in CompletedIds(msg))}
    BY <1>1 DEF At, OwnSet, Mine
  <1>3. At(pendingPermits', OwnSet(s)')
          = {i \in DOMAIN pendingPermits' :
               /\ pendingPermits'[i][1] = s
               /\ ~(Ending(s)' /\ pendingPermits'[i][2] \in CompletedIds(msg)')}
    BY <1>1 DEF At, OwnSet, Mine
  <1>4. PICK q, r : q = OwnPermits(s) /\ r = OwnPermits(s)'
    OBVIOUS
  <1>5. q = Kept(pendingPermits, OwnSet(s))
    BY <1>2, <1>4 DEF Kept, OwnPermits
  <1>6. r = Kept(pendingPermits', OwnSet(s)')
    BY <1>3, <1>4 DEF Kept, OwnPermits
  <1>7. EntryOf(s) = EntryFrom(StateOf(s), flowSeq[s], q, permits)
    BY <1>4 DEF EntryOf, EntryFrom, EntryWith, StateOf, ShownList, Shown, NumReserved
  <1>8. EntryOf(s)' = EntryFrom(StateOf(s)', flowSeq'[s], r, permits')
    BY <1>4 DEF EntryOf, EntryFrom, EntryWith, StateOf, ShownList, Shown, NumReserved
  <1> QED  BY <1>5, <1>6, <1>7, <1>8

\* Unless a completed message of the sender is being handled, all its permits count.
LEMMA NotEnding ==
    ASSUME NEW s
    PROVE  /\ ~Ending(s) => OwnSet(s) = Mine(s) /\ StateOf(s) = state[s]
           /\ ~Ending(s)' => OwnSet(s)' = Mine(s) /\ StateOf(s)' = state'[s]
  <1>1. ~Ending(s) => OwnSet(s) = Mine(s) /\ StateOf(s) = state[s]
    BY DEF OwnSet, Mine, StateOf
  <1>2. ~Ending(s)' => OwnSet(s)' = Mine(s) /\ StateOf(s)' = state'[s]
    BY DEF OwnSet, Mine, StateOf
  <1> QED  BY <1>1, <1>2

\* The permits on the list of a sender.
LEMMA MineIs ==
    ASSUME ConsistentFlow, NEW s, NEW q, q = Kept(pendingPermits, Mine(s))
    PROVE  /\ pendingPermits \in Seq(Permit) /\ q \in Seq(Permit)
           /\ DOMAIN q = 1 .. Len(q) /\ Len(q) \in Nat /\ NoRepeats(q)
           /\ \A j \in DOMAIN q : /\ q[j] \in Permit /\ q[j] = <<s, q[j][2]>> /\ q[j][2] \in PermitIds
                                  /\ permits[q[j]].flowSeq # 0
           /\ \A i \in PermitIds : s \in Senders /\ permits[<<s, i>>].flowSeq # 0
                                     => \E j \in DOMAIN q : q[j] = <<s, i>>
  <1>1. pendingPermits \in Seq(Permit) /\ NoRepeats(pendingPermits)
        /\ Elements(pendingPermits) = {p \in Permit : IsActive(p)}
    BY DEF ConsistentFlow, TypeOK, PermitListExact
  <1>2. /\ q \in Seq(Permit) /\ DOMAIN q = 1 .. Len(q) /\ Len(q) \in Nat
        /\ \A j \in DOMAIN q : q[j] \in Mine(s) /\ q[j] \in Elements(pendingPermits)
        /\ \A x \in Mine(s) : x \in Elements(pendingPermits) => \E j \in DOMAIN q : q[j] = x
        /\ NoRepeats(q)
    BY <1>1, KeptElements
  <1>3. ASSUME NEW j \in DOMAIN q
        PROVE  /\ q[j] \in Permit /\ q[j] = <<s, q[j][2]>> /\ q[j][2] \in PermitIds
               /\ permits[q[j]].flowSeq # 0
    <2>1. q[j] \in Permit /\ q[j][1] = s /\ IsActive(q[j])
      BY <1>1, <1>2 DEF Mine
    <2> QED  BY <2>1 DEF Permit, IsActive
  <1>4. ASSUME NEW i \in PermitIds, s \in Senders, permits[<<s, i>>].flowSeq # 0
        PROVE  \E j \in DOMAIN q : q[j] = <<s, i>>
    <2>1. <<s, i>> \in Permit
      BY <1>4 DEF Permit
    <2>2. <<s, i>> \in Mine(s) /\ <<s, i>> \in Elements(pendingPermits)
      BY <1>1, <1>4, <2>1 DEF Mine, IsActive
    <2> QED  BY <1>2, <2>2
  <1> QED  BY <1>1, <1>2, <1>3, <1>4

\* A function that is one to one.
LEMMA OneToOne ==
    ASSUME NEW D, NEW A, NEW f \in [D -> A], \A j, k \in D : f[j] = f[k] => j = k,
           \A i \in A : \E j \in D : f[j] = i
    PROVE  f \in Bijection(D, A)
  <1>1. f \in Injection(D, A)
    BY DEF Injection, IsInjective
  <1>2. f \in Surjection(D, A)
    BY DEF Surjection
  <1> QED  BY <1>1, <1>2 DEF Bijection

\* numPermits is the length of that list.
LEMMA MineCount ==
    ASSUME ConsistentFlow, NEW s \in Senders, NEW q, q = Kept(pendingPermits, Mine(s))
    PROVE  numPermits[s] = Len(q)
  <1>1. /\ DOMAIN q = 1 .. Len(q) /\ Len(q) \in Nat /\ NoRepeats(q)
        /\ \A j \in DOMAIN q : /\ q[j] \in Permit /\ q[j] = <<s, q[j][2]>> /\ q[j][2] \in PermitIds
                               /\ permits[q[j]].flowSeq # 0
        /\ \A i \in PermitIds : permits[<<s, i>>].flowSeq # 0 => \E j \in DOMAIN q : q[j] = <<s, i>>
    BY MineIs
  <1>2. PICK n : n = Len(q)
    OBVIOUS
  <1>3. PICK A : A = ActiveIds(s)
    OBVIOUS
  <1>4. \A i : i \in A <=> i \in PermitIds /\ permits[<<s, i>>].flowSeq # 0
    BY <1>3 DEF ActiveIds, IsActive
  <1>5. PICK f : f = [j \in 1 .. n |-> q[j][2]]
    OBVIOUS
  <1>6. ASSUME NEW j \in 1 .. n PROVE f[j] = q[j][2] /\ f[j] \in A /\ q[j] = <<s, f[j]>>
    <2>1. q[j] = <<s, q[j][2]>> /\ q[j][2] \in PermitIds /\ permits[q[j]].flowSeq # 0
      BY <1>1, <1>2
    <2>2. f[j] = q[j][2]
      BY <1>5
    <2>3. permits[<<s, f[j]>>].flowSeq # 0
      BY <2>1, <2>2
    <2> QED  BY <1>4, <2>1, <2>2, <2>3
  <1>7. f \in [1 .. n -> A]
    BY <1>5, <1>6
  <1>8. ASSUME NEW j \in 1 .. n, NEW k \in 1 .. n, f[j] = f[k] PROVE j = k
    <2>1. q[j] = q[k]
      BY <1>6, <1>8
    <2> QED  BY <1>1, <1>2, <2>1 DEF NoRepeats
  <1>9. ASSUME NEW i \in A PROVE \E j \in 1 .. n : f[j] = i
    <2>1. PICK j \in 1 .. n : q[j] = <<s, i>>
      BY <1>1, <1>2, <1>4
    <2>2. q[j][2] = i
      BY <2>1
    <2> QED  BY <1>6, <2>2
  <1>10. f \in Bijection(1 .. n, A)
    <2>1. \A j, k \in 1 .. n : f[j] = f[k] => j = k
      BY <1>8
    <2>2. \A i \in A : \E j \in 1 .. n : f[j] = i
      BY <1>9
    <2>3. PICK D : D = 1 .. n
      OBVIOUS
    <2>4. f \in Bijection(D, A)
      BY <1>7, <2>1, <2>2, <2>3, OneToOne
    <2> QED  BY <2>3, <2>4
  <1>11. ExistsBijection(1 .. n, A)
    BY <1>10 DEF ExistsBijection
  <1>12. Cardinality(A) = n
    BY <1>1, <1>2, <1>11, FS_CountingElements
  <1> QED  BY <1>2, <1>3, <1>12 DEF ConsistentFlow, NumPermitsExact

-----------------------------------------------------------------------------
(* Every step is a step of FlowReceiver for every sender.                     *)

\* What FlowReceiver allows.
EntryStep(e, n) ==
    \/ n = e
    \/ \E f \in FlowSeq : n = Entry!AfterDone(e, f) \/ n = Entry!AfterRequest(e, f)
    \/ \E k \in 1 .. MaxSlotsPerSender : Entry!MayGrantTo(e) /\ n = Entry!AfterGrant(e, k)
    \/ e.active # <<>> /\ \E abandon \in BOOLEAN : n = Entry!AfterExpiry(e, abandon)
    \/ \E i \in DOMAIN e.active :
          \/ \E k \in 0 .. MaxStart : n = Entry!AfterStart(e, i, k)
          \/ n = Entry!AfterPacket(e, i)

\* Its operators on an entry that is given by its parts.
LEMMA Parts ==
    ASSUME NEW a, NEW b, NEW v
    PROVE  EntryWith(a, b, v).active = v /\ EntryWith(a, b, v).state = a /\ EntryWith(a, b, v).flowSeq = b
  BY DEF EntryWith

\* Changing one part of it.
WithState(e, z)     == [e EXCEPT !.state = z]
WithActive(e, w)    == [e EXCEPT !.active = w]
WithFlow(e, f)      == [e EXCEPT !.flowSeq = f]

\* An entry that differs in one part.
LEMMA ChangeParts ==
    ASSUME NEW a, NEW b, NEW v, NEW z, NEW f, NEW w
    PROVE  /\ WithState(EntryWith(a, b, v), z) = EntryWith(z, b, v)
           /\ WithActive(EntryWith(a, b, v), w) = EntryWith(a, b, w)
           /\ WithFlow(EntryWith(a, b, v), f) = EntryWith(a, f, v)
  <1>1. PICK e : e = [state |-> a, flowSeq |-> b, active |-> v]
    OBVIOUS
  <1>2. [e EXCEPT !.active = w] = [state |-> a, flowSeq |-> b, active |-> w]
    BY <1>1
  <1>3. [e EXCEPT !.state = z] = [state |-> z, flowSeq |-> b, active |-> v]
    BY <1>1
  <1>4. [e EXCEPT !.flowSeq = f] = [state |-> a, flowSeq |-> f, active |-> v]
    BY <1>1
  <1> QED  BY <1>1, <1>2, <1>3, <1>4 DEF EntryWith, WithState, WithActive, WithFlow

\* noteDone.
LEMMA DoneForm ==
    ASSUME NEW a, NEW b, NEW v, NEW f, NEW J,
           J = {i \in DOMAIN v : ~(v[i].flowSeq = f \/ IsEarlier(v[i].flowSeq, f))}
    PROVE  Entry!AfterDone(EntryWith(a, b, v), f)
             = EntryWith(IF f = b THEN "idle" ELSE a, b, KeepAt(v, J))
  <1>1. PICK e : e = EntryWith(a, b, v)
    OBVIOUS
  <1>2. e.active = v /\ e.state = a /\ e.flowSeq = b
    BY <1>1, Parts
  <1>3. \A x, y : Entry!IsEarlier(x, y) <=> IsEarlier(x, y)
    BY DEF Entry!IsEarlier, IsEarlier, Entry!Delta, Delta
  <1>4. \A x, I : Entry!KeepAt(x, I) = KeepAt(x, I)
    BY DEF Entry!KeepAt, KeepAt, Entry!Cardinality, Cardinality
  <1>5. J = {i \in DOMAIN v : ~Entry!CoveredBy(v[i].flowSeq, f)}
    BY <1>3 DEF Entry!CoveredBy
  <1>6. PICK w, z : w = KeepAt(v, J) /\ z = IF f = b THEN "idle" ELSE a
    OBVIOUS
  <1>7. Entry!AfterDone(e, f) = [e EXCEPT !.active = Entry!KeepAt(v, J), !.state = IF f = b THEN "idle" ELSE a]
    BY <1>2, <1>5 DEF Entry!AfterDone
  <1>8. Entry!AfterDone(e, f) = [e EXCEPT !.active = w, !.state = z]
    BY <1>4, <1>6, <1>7
  <1>9. [e EXCEPT !.active = w, !.state = z] = EntryWith(z, b, w)
    <2>1. WithState(WithActive(e, w), z) = EntryWith(z, b, w)
      BY <1>1, ChangeParts
    <2>2. [e EXCEPT !.active = w, !.state = z] = WithState(WithActive(e, w), z)
      BY DEF WithState, WithActive, WithFlow
    <2> QED  BY <2>1, <2>2
  <1> QED  BY <1>1, <1>6, <1>8, <1>9

\* noteRequest.
LEMMA RequestForm ==
    ASSUME NEW a, NEW b, NEW v, NEW f, \A i \in DOMAIN v : v[i].flowSeq # f
    PROVE  Entry!AfterRequest(EntryWith(a, b, v), f) = EntryWith("requested", f, v)
  <1>1. PICK e : e = EntryWith(a, b, v)
    OBVIOUS
  <1>2. e.active = v
    BY <1>1, Parts
  <1>3. Entry!PermitsOf(e, f) = {}
    BY <1>2 DEF Entry!PermitsOf
  <1>4. [e EXCEPT !.state = "requested", !.flowSeq = f] = EntryWith("requested", f, v)
    <2>1. WithFlow(WithState(e, "requested"), f) = EntryWith("requested", f, v)
      BY <1>1, ChangeParts
    <2>2. [e EXCEPT !.state = "requested", !.flowSeq = f] = WithFlow(WithState(e, "requested"), f)
      BY DEF WithState, WithActive, WithFlow
    <2> QED  BY <2>1, <2>2
  <1> QED  BY <1>1, <1>3, <1>4 DEF Entry!AfterRequest

\* grantPermit.
LEMMA GrantForm ==
    ASSUME NEW a, NEW b, NEW v, NEW k, a = "requested", Len(v) < MaxPermitsPerSender
    PROVE  /\ Entry!MayGrantTo(EntryWith(a, b, v))
           /\ Entry!AfterGrant(EntryWith(a, b, v), k)
                = EntryWith("granted", b, Append(v, [flowSeq |-> b, slots |-> k]))
  <1>1. PICK e : e = EntryWith(a, b, v)
    OBVIOUS
  <1>2. e.active = v /\ e.state = a /\ e.flowSeq = b
    BY <1>1, Parts
  <1>3. Entry!MayGrantTo(e)
    BY <1>2 DEF Entry!MayGrantTo, Entry!Len
  <1>4. PICK w : w = Append(v, [flowSeq |-> b, slots |-> k])
    OBVIOUS
  <1>5. Entry!AfterGrant(e, k)
          = [e EXCEPT !.state = "granted", !.active = Append(e.active, [flowSeq |-> e.flowSeq, slots |-> k])]
    BY DEF Entry!AfterGrant, Entry!Append
  <1>6. Entry!AfterGrant(e, k) = [e EXCEPT !.state = "granted", !.active = w]
    BY <1>2, <1>4, <1>5
  <1>7. [e EXCEPT !.state = "granted", !.active = w] = EntryWith("granted", b, w)
    <2>1. WithActive(WithState(e, "granted"), w) = EntryWith("granted", b, w)
      BY <1>1, ChangeParts
    <2>2. [e EXCEPT !.state = "granted", !.active = w] = WithActive(WithState(e, "granted"), w)
      BY DEF WithState, WithActive, WithFlow
    <2> QED  BY <2>1, <2>2
  <1> QED  BY <1>1, <1>3, <1>4, <1>6, <1>7

\* The oldest permit expires.
LEMMA ExpiryForm ==
    ASSUME NEW a, NEW b, NEW v, NEW abandon \in BOOLEAN
    PROVE  Entry!AfterExpiry(EntryWith(a, b, v), abandon)
             = EntryWith(IF a = "requested" \/ ~abandon THEN "requested"
                         ELSE IF Len(v) = 1 THEN "idle" ELSE a, b, Tail(v))
  <1>1. PICK e : e = EntryWith(a, b, v)
    OBVIOUS
  <1>2. e.active = v /\ e.state = a /\ e.flowSeq = b
    BY <1>1, Parts
  <1>3. PICK w, z : w = Tail(v) /\ z = IF a = "requested" \/ ~abandon THEN "requested"
                                       ELSE IF Len(v) = 1 THEN "idle" ELSE a
    OBVIOUS
  <1>4. Entry!AfterExpiry(e, abandon)
          = [e EXCEPT !.active = Tail(e.active),
                      !.state  = IF e.state = "requested" \/ ~abandon THEN "requested"
                                 ELSE IF Len(e.active) = 1 THEN "idle" ELSE e.state]
    BY DEF Entry!AfterExpiry, Entry!Len, Entry!Tail
  <1>6. Entry!AfterExpiry(e, abandon) = [e EXCEPT !.active = w, !.state = z]
    BY <1>2, <1>3, <1>4
  <1>7. [e EXCEPT !.active = w, !.state = z] = EntryWith(z, b, w)
    <2>1. WithState(WithActive(e, w), z) = EntryWith(z, b, w)
      BY <1>1, ChangeParts
    <2>2. [e EXCEPT !.active = w, !.state = z] = WithState(WithActive(e, w), z)
      BY DEF WithState, WithActive, WithFlow
    <2> QED  BY <2>1, <2>2
  <1> QED  BY <1>1, <1>3, <1>6, <1>7

\* A permit that allows k packets, or one less.
WithSlots(v, i, k) == [v EXCEPT ![i].slots = k]
OneLess(v, i)      == [v EXCEPT ![i].slots = IF @ > 0 THEN @ - 1 ELSE 0]

\* updateNumReserved and decPermit.
LEMMA SlotsForm ==
    ASSUME NEW a, NEW b, NEW v, NEW i, NEW k
    PROVE  /\ Entry!AfterStart(EntryWith(a, b, v), i, k) = EntryWith(a, b, WithSlots(v, i, k))
           /\ Entry!AfterPacket(EntryWith(a, b, v), i) = EntryWith(a, b, OneLess(v, i))
  <1>1. PICK e : e = EntryWith(a, b, v)
    OBVIOUS
  <1>2. e.active = v /\ e = [state |-> a, flowSeq |-> b, active |-> v]
    BY <1>1, Parts DEF EntryWith
  <1>3. Entry!AfterStart(e, i, k) = EntryWith(a, b, [v EXCEPT ![i].slots = k])
    BY <1>2 DEF Entry!AfterStart, EntryWith
  <1>4. Entry!AfterPacket(e, i) = EntryWith(a, b, [v EXCEPT ![i].slots = IF @ > 0 THEN @ - 1 ELSE 0])
    BY <1>2 DEF Entry!AfterPacket, EntryWith
  <1> QED  BY <1>1, <1>3, <1>4 DEF WithSlots, OneLess

\* An entry that a step does not change.
LEMMA SameEntry ==
    ASSUME TypeOK, TypeOK', NEW s, StateOf(s)' = StateOf(s), flowSeq'[s] = flowSeq[s],
           NEW q, Kept(pendingPermits, OwnSet(s)) = q, Kept(pendingPermits', OwnSet(s)') = q,
           \A j \in DOMAIN q : permits'[q[j]] = permits[q[j]]
    PROVE  EntryStep(EntryOf(s), EntryOf(s)')
  <1>1. EntryOf(s) = EntryFrom(StateOf(s), flowSeq[s], q, permits)
        /\ EntryOf(s)' = EntryFrom(StateOf(s)', flowSeq'[s], q, permits')
    BY EntryIs
  <1>2. ShownList(permits', q) = ShownList(permits, q)
    BY ShownSame
  <1>3. EntryOf(s)' = EntryOf(s)
    BY <1>1, <1>2 DEF EntryFrom
  <1> QED  BY <1>3 DEF EntryStep

\* Steps that change neither the sender nor its permits.
LEMMA QuietStep ==
    ASSUME TypeOK, TypeOK', NEW s, UNCHANGED <<state, flowSeq, pendingPermits, permits>>,
           (~Ending(s) /\ ~Ending(s)') \/ UNCHANGED <<flowPc, msg>>
    PROVE  EntryStep(EntryOf(s), EntryOf(s)')
  <1>1. StateOf(s)' = StateOf(s) /\ OwnSet(s)' = OwnSet(s)
    <2>1. CASE ~Ending(s) /\ ~Ending(s)'
      BY <2>1, NotEnding
    <2>2. CASE UNCHANGED <<flowPc, msg>>
      <3>1. Ending(s)' <=> Ending(s)
        BY <2>2 DEF Ending
      <3>2. CompletedIds(msg)' = CompletedIds(msg)
        BY <2>2 DEF CompletedIds, ActiveIds, IsActive
      <3>3. StateOf(s)' = StateOf(s)
        BY <2>2, <3>1 DEF StateOf
      <3>4. OwnSet(s)' = OwnSet(s)
        BY <3>1, <3>2 DEF OwnSet, Mine
      <3> QED  BY <3>3, <3>4
    <2> QED  BY <2>1, <2>2
  <1>2. PICK q : q = Kept(pendingPermits, OwnSet(s))
    OBVIOUS
  <1>3. Kept(pendingPermits', OwnSet(s)') = q /\ (\A j \in DOMAIN q : permits'[q[j]] = permits[q[j]])
        /\ flowSeq'[s] = flowSeq[s]
    BY <1>1, <1>2
  <1> QED  BY <1>1, <1>2, <1>3, SameEntry

\* Waiting, adding up, granting nothing, repeating a permit, and what the other
\* threads do besides counting packets.
LEMMA QuietSteps ==
    ASSUME TypeOK, TypeOK', NEW s,
           \/ WaitTimeout \/ StopExpiring \/ SumReserved \/ ReadAvailable \/ ResendPermit
           \/ \E can \in CanSendAny : NoGrant(can)
           \/ \E r \in Senders, seq \in SendSeqs, duplicate \in BOOLEAN : ReadPacket(r, seq, duplicate)
           \/ PushPacket \/ CollatePacket \/ UNCHANGED vars
    PROVE  EntryStep(EntryOf(s), EntryOf(s)')
  <1>1. UNCHANGED <<state, flowSeq, pendingPermits, permits>>
    BY DEF WaitTimeout, StopExpiring, SumReserved, ReadAvailable, ResendPermit, NoGrant, ReadPacket,
           PushPacket, CollatePacket, vars, flowVars
  <1>2. UNCHANGED <<flowPc, msg>> \/ (flowPc # "done" /\ flowPc' # "done")
    BY DEF WaitTimeout, StopExpiring, SumReserved, ReadAvailable, ResendPermit, NoGrant, ReadPacket,
           PushPacket, CollatePacket, vars, flowVars, StartNextRound
  <1>3. (~Ending(s) /\ ~Ending(s)') \/ UNCHANGED <<flowPc, msg>>
    BY <1>2 DEF Ending
  <1> QED  BY <1>1, <1>3, QuietStep

\* A message is read: noteDone, if it says that something is completed.
LEMMA ReadStep ==
    ASSUME ConsistentFlow, ConsistentFlow', NEW s \in Senders, NEW m \in FlowMsg, ReadFlowMsg(m)
    PROVE  EntryStep(EntryOf(s), EntryOf(s)')
  <1>1. TypeOK /\ TypeOK'
    BY DEF ConsistentFlow
  <1>2. /\ flowPc = "read" /\ msg' = m
        /\ UNCHANGED <<state, flowSeq, pendingPermits, permits>>
    BY DEF ReadFlowMsg, flowVars
  <1>3. ~Ending(s)
    BY <1>2 DEF Ending
  <1>4. CASE ~Ending(s)'
    BY <1>1, <1>2, <1>3, <1>4, QuietStep
  <1>5. CASE Ending(s)'
    <2>1. m.from = s
      BY <1>2, <1>5 DEF Ending
    <2>2. PICK f : f = m.flowSeq
      OBVIOUS
    <2>3. f \in FlowSeq
      BY <2>2 DEF FlowMsg
    <2>4. PICK q, Q, b, v : q = Kept(pendingPermits, Mine(s)) /\ Q = OwnSet(s)' /\ b = flowSeq[s]
                            /\ v = ShownList(permits, q)
      OBVIOUS
    <2>5. OwnSet(s) = Mine(s) /\ StateOf(s) = state[s]
      BY <1>3, NotEnding
    <2>6. EntryOf(s) = EntryWith(state[s], b, v)
      BY <1>1, <2>4, <2>5, EntryIs DEF EntryFrom
    <2>7. Q \subseteq Mine(s)
      BY <2>4 DEF OwnSet, Mine
    <2>8. /\ pendingPermits \in Seq(Permit) /\ q \in Seq(Permit) /\ DOMAIN q = 1 .. Len(q)
          /\ \A j \in DOMAIN q : /\ q[j] \in Permit /\ q[j] = <<s, q[j][2]>> /\ q[j][2] \in PermitIds
                                 /\ permits[q[j]].flowSeq # 0
      BY <2>4, MineIs
    <2>9. Kept(pendingPermits, Q) = Kept(q, Q)
      BY <2>4, <2>7, <2>8, KeptTwice
    <2>10. PICK J : J = {i \in DOMAIN v : ~(v[i].flowSeq = f \/ IsEarlier(v[i].flowSeq, f))}
      OBVIOUS
    <2>11. DOMAIN v = DOMAIN q /\ \A i \in DOMAIN q : v[i].flowSeq = permits[q[i]].flowSeq
      BY <2>4 DEF ShownList, Shown
    <2>12. ASSUME NEW i \in DOMAIN q
           PROVE  q[i] \in Q <=> ~(v[i].flowSeq = f \/ IsEarlier(v[i].flowSeq, f))
      <3>1. PICK k \in PermitIds : q[i] = <<s, k>> /\ permits[<<s, k>>].flowSeq # 0 /\ q[i] \in Permit
        BY <2>8
      <3>2. q[i] \in Q <=> k \notin CompletedIds(msg)'
        BY <1>5, <2>4, <3>1 DEF OwnSet, Mine
      <3>3. CompletedIds(msg)' = CompletedIds(m)
        BY <1>2 DEF CompletedIds, ActiveIds, IsActive
      <3>4. k \in CompletedIds(m) <=> permits[<<s, k>>].flowSeq = f \/ IsEarlier(permits[<<s, k>>].flowSeq, f)
        BY <2>1, <2>2, <3>1 DEF CompletedIds, ActiveIds, IsActive
      <3>5. v[i].flowSeq = permits[<<s, k>>].flowSeq
        BY <2>11, <3>1
      <3> QED  BY <3>2, <3>3, <3>4, <3>5
    <2>13. J = At(q, Q)
      BY <2>10, <2>11, <2>12 DEF At
    <2>14. J \in SUBSET (1 .. Len(q))
      BY <2>8, <2>13 DEF At
    <2>15. KeepAt(v, J) = ShownList(permits, Kept(q, Q))
      BY <2>4, <2>8, <2>13, <2>14, ShownKept DEF Kept
    <2>16. StateOf(s)' = IF f = b THEN "idle" ELSE state[s]
      BY <1>2, <1>5, <2>2, <2>4 DEF StateOf
    <2>17. EntryOf(s)' = EntryWith(IF f = b THEN "idle" ELSE state[s], b, KeepAt(v, J))
      <3>1. EntryOf(s)' = EntryFrom(StateOf(s)', flowSeq'[s], Kept(pendingPermits', OwnSet(s)'), permits')
        BY <1>1, EntryIs
      <3>2. Kept(pendingPermits', OwnSet(s)') = Kept(q, Q) /\ permits' = permits /\ flowSeq'[s] = b
        BY <1>2, <2>4, <2>9
      <3> QED  BY <2>15, <2>16, <3>1, <3>2 DEF EntryFrom
    <2>18. Entry!AfterDone(EntryOf(s), f) = EntryOf(s)'
      BY <2>6, <2>10, <2>17, DoneForm
    <2> QED  BY <2>3, <2>18 DEF EntryStep
  <1> QED  BY <1>4, <1>5

\* One of the permits that noteDone ends is revoked.
LEMMA RevokeStep ==
    ASSUME ConsistentFlow, ConsistentFlow', NEW s \in Senders, RevokeCompleted
    PROVE  EntryStep(EntryOf(s), EntryOf(s)')
  <1>1. TypeOK /\ TypeOK' /\ pendingPermits \in Seq(Permit) /\ NoRepeats(pendingPermits)
        /\ Elements(pendingPermits) = {p \in Permit : IsActive(p)}
    BY DEF ConsistentFlow, TypeOK, PermitListExact
  <1>2. PICK o, i : o = msg.from /\ i = Least(CompletedIds(msg))
    OBVIOUS
  <1>3. /\ flowPc = "done" /\ CompletedIds(msg) # {}
        /\ pendingPermits' = Unlink(pendingPermits, <<o, i>>)
        /\ permits' = [permits EXCEPT ![<<o, i>>] = NoPermit]
        /\ UNCHANGED <<state, flowSeq, flowPc, msg>>
    BY <1>2 DEF RevokeCompleted
  <1>4. o \in Senders
    BY <1>2, <1>3 DEF ConsistentFlow, HandlersOK, FlowMsg
  <1>5. i \in CompletedIds(msg) /\ i \in PermitIds
    <2>1. CompletedIds(msg) \in SUBSET PermitIds
      BY DEF CompletedIds, ActiveIds
    <2>2. PermitIds \in SUBSET Nat
      BY ReceiveFlowAssumption DEF PermitIds
    <2>3. PICK C : C = CompletedIds(msg)
      OBVIOUS
    <2>4. C \in SUBSET Nat /\ C # {}
      BY <1>3, <2>1, <2>2, <2>3
    <2>5. Least(C) \in C
      BY <2>4, LeastInSet
    <2> QED  BY <1>2, <2>1, <2>3, <2>5
  <1>6. PICK p : p = <<o, i>>
    OBVIOUS
  <1>7. p \in Permit /\ p \in Elements(pendingPermits) /\ p[1] = o /\ p[2] = i
    <2>1. p \in Permit
      BY <1>4, <1>5, <1>6 DEF Permit
    <2>2. IsActive(p)
      BY <1>2, <1>5, <1>6 DEF CompletedIds, ActiveIds
    <2> QED  BY <1>1, <1>6, <2>1, <2>2
  <1>8. \A r \in Permit : permits'[r] = IF r = p THEN NoPermit ELSE permits[r]
    BY <1>1, <1>3, <1>6, <1>7 DEF TypeOK
  <1>9. Elements(pendingPermits') = Elements(pendingPermits) \ {p}
    BY <1>1, <1>3, <1>6, <1>7, UnlinkRemoves
  <1>10. PICK Q, R : Q = OwnSet(s) /\ R = OwnSet(s)'
    OBVIOUS
  <1>11. p \notin Q /\ Q \subseteq Permit
    <2>1. CASE o = s
      <3>1. Ending(s)
        BY <1>2, <1>3, <2>1 DEF Ending
      <3> QED  BY <1>5, <1>7, <1>10, <3>1 DEF OwnSet, Mine
    <2>2. CASE o # s
      BY <1>7, <1>10, <2>2 DEF OwnSet, Mine
    <2> QED  BY <2>1, <2>2
  <1>12. ASSUME NEW r \in Elements(pendingPermits') PROVE r \in Q <=> r \in R
    <2>1. r \in Permit /\ r # p
      BY <1>1, <1>9
    <2>2. PICK t \in Senders, k \in PermitIds : r = <<t, k>>
      BY <2>1 DEF Permit
    <2>3. permits'[r] = permits[r]
      BY <1>8, <2>1
    <2>4. Ending(s)' <=> Ending(s)
      BY <1>3 DEF Ending
    <2>5. CASE t = s /\ Ending(s)
      <3>1. msg.from = s
        BY <2>5 DEF Ending
      <3>2. k \in CompletedIds(msg)' <=> k \in CompletedIds(msg)
        BY <1>3, <2>2, <2>3, <2>5, <3>1 DEF CompletedIds, ActiveIds, IsActive
      <3> QED  BY <1>10, <2>1, <2>2, <2>4, <3>2 DEF OwnSet, Mine
    <2>6. CASE ~(t = s /\ Ending(s))
      BY <1>10, <2>1, <2>2, <2>4, <2>6 DEF OwnSet, Mine
    <2> QED  BY <2>5, <2>6
  <1>13. PICK q, l : q = Kept(pendingPermits, Q) /\ l = pendingPermits'
    OBVIOUS
  <1>14. Kept(l, Q) = q
    BY <1>1, <1>3, <1>6, <1>7, <1>11, <1>13, KeptWithout
  <1>15. Kept(l, R) = q
    <2>1. \A r \in Elements(l) : r \in Q <=> r \in R
      BY <1>12, <1>13
    <2>2. Kept(l, Q) = Kept(l, R)
      BY <2>1, KeptAgree
    <2> QED  BY <1>14, <2>2
  <1>16. \A j \in DOMAIN q : permits'[q[j]] = permits[q[j]]
    <2>1. \A j \in DOMAIN q : q[j] \in Q
      BY <1>1, <1>13, KeptElements
    <2> QED  BY <1>8, <1>11, <2>1
  <1>17. StateOf(s)' = StateOf(s)
    BY <1>3 DEF StateOf, Ending
  <1> QED  BY <1>1, <1>3, <1>10, <1>13, <1>15, <1>16, <1>17, SameEntry

\* The end of noteDone.
LEMMA FinishStep ==
    ASSUME ConsistentFlow, ConsistentFlow', NEW s \in Senders, FinishDone
    PROVE  EntryStep(EntryOf(s), EntryOf(s)')
  <1>1. TypeOK /\ TypeOK'
    BY DEF ConsistentFlow
  <1>2. /\ flowPc = "done" /\ CompletedIds(msg) = {} /\ flowPc' # "done"
        /\ UNCHANGED <<flowSeq, pendingPermits, permits>>
    BY DEF FinishDone
  <1>3. ~Ending(s)'
    BY <1>2 DEF Ending
  <1>4. OwnSet(s)' = Mine(s) /\ StateOf(s)' = state'[s]
    BY <1>3, NotEnding
  <1>5. OwnSet(s) = Mine(s)
    BY <1>2 DEF OwnSet, Mine
  <1>6. state'[s] = StateOf(s)
    <2>1. CASE msg.from = s
      BY <1>1, <1>2, <2>1 DEF FinishDone, StateOf, Ending, TypeOK
    <2>2. CASE msg.from # s
      BY <1>1, <2>2 DEF FinishDone, StateOf, Ending, TypeOK
    <2> QED  BY <2>1, <2>2
  <1>7. PICK q : q = Kept(pendingPermits, Mine(s))
    OBVIOUS
  <1>8. Kept(pendingPermits, OwnSet(s)) = q /\ Kept(pendingPermits', OwnSet(s)') = q
        /\ (\A j \in DOMAIN q : permits'[q[j]] = permits[q[j]]) /\ flowSeq'[s] = flowSeq[s]
    BY <1>2, <1>4, <1>5, <1>7
  <1> QED  BY <1>1, <1>4, <1>6, <1>8, SameEntry


\* noteRequest makes a request the current one.
LEMMA RequestStep ==
    ASSUME ConsistentFlow, ConsistentFlow', NEW s \in Senders, NoteRequest
    PROVE  EntryStep(EntryOf(s), EntryOf(s)')
  <1>1. TypeOK /\ TypeOK'
    BY DEF ConsistentFlow
  <1>2. PICK o, f : o = msg.from /\ f = RequestedFlow(msg)
    OBVIOUS
  <1>3. /\ flowPc = "request" /\ flowPc' = "expire" /\ PermitsFor(o, f) = {}
        /\ state' = [state EXCEPT ![o] = "requested"]
        /\ flowSeq' = [flowSeq EXCEPT ![o] = f]
        /\ UNCHANGED <<pendingPermits, permits>>
    BY <1>2 DEF NoteRequest
  <1>4. o \in Senders /\ f \in FlowSeq
    <2>1. msg \in FlowMsg /\ msg.from \in Senders /\ msg.flowSeq \in FlowSeq
      BY <1>3 DEF ConsistentFlow, HandlersOK, FlowMsg
    <2>2. NextFlow(msg.flowSeq) \in FlowSeq
      BY <2>1, NextFlowType DEF FlowSeq
    <2> QED  BY <1>2, <2>1, <2>2 DEF RequestedFlow
  <1>5. ~Ending(s) /\ ~Ending(s)'
    BY <1>3 DEF Ending
  <1>6. OwnSet(s) = Mine(s) /\ OwnSet(s)' = Mine(s) /\ StateOf(s) = state[s] /\ StateOf(s)' = state'[s]
    BY <1>5, NotEnding
  <1>7. PICK q : q = Kept(pendingPermits, Mine(s))
    OBVIOUS
  <1>8. CASE o # s
    <2>1. state'[s] = state[s] /\ flowSeq'[s] = flowSeq[s]
      BY <1>1, <1>3, <1>8 DEF TypeOK
    <2>2. Kept(pendingPermits, OwnSet(s)) = q /\ Kept(pendingPermits', OwnSet(s)') = q
          /\ \A j \in DOMAIN q : permits'[q[j]] = permits[q[j]]
      BY <1>3, <1>6, <1>7
    <2>3. StateOf(s)' = StateOf(s)
      BY <1>6, <2>1
    <2> QED  BY <1>1, <2>1, <2>2, <2>3, SameEntry
  <1>9. CASE o = s
    <2>1. state'[s] = "requested" /\ flowSeq'[s] = f
      BY <1>1, <1>3, <1>9 DEF TypeOK
    <2>2. PICK v : v = ShownList(permits, q)
      OBVIOUS
    <2>3. EntryOf(s) = EntryWith(state[s], flowSeq[s], v) /\ EntryOf(s)' = EntryWith("requested", f, v)
      BY <1>1, <1>3, <1>6, <1>7, <2>1, <2>2, EntryIs DEF EntryFrom
    <2>4. \A j \in DOMAIN q : q[j] = <<s, q[j][2]>> /\ q[j][2] \in PermitIds
      BY <1>7, MineIs
    <2>5. \A k \in PermitIds : permits[<<s, k>>].flowSeq # f
      BY <1>3, <1>9 DEF PermitsFor
    <2>6. \A j \in DOMAIN q : permits[q[j]].flowSeq # f
      BY <2>4, <2>5
    <2>7. \A j \in DOMAIN v : v[j].flowSeq # f
      BY <2>2, <2>6 DEF ShownList, Shown
    <2>8. Entry!AfterRequest(EntryOf(s), f) = EntryOf(s)'
      BY <2>3, <2>7, RequestForm
    <2> QED  BY <1>4, <2>8 DEF EntryStep
  <1> QED  BY <1>8, <1>9

\* The oldest of all permits expires.
LEMMA ExpireStep ==
    ASSUME ConsistentFlow, ConsistentFlow', NEW s \in Senders, ExpirePermit
    PROVE  EntryStep(EntryOf(s), EntryOf(s)')
  <1>1. TypeOK /\ TypeOK' /\ pendingPermits \in Seq(Permit) /\ NoRepeats(pendingPermits)
    BY DEF ConsistentFlow, TypeOK, PermitListExact
  <1>2. PICK p, o : p = Head(pendingPermits) /\ o = p[1]
    OBVIOUS
  <1>3. PICK late : late = IF timeouts[o] <= MaxPermitDeadTimeouts THEN timeouts[o] + 1 ELSE timeouts[o]
    OBVIOUS
  <1>4. PICK abandon \in BOOLEAN : abandon = (MaxPermitDeadTimeouts # 0 /\ late > MaxPermitDeadTimeouts)
    OBVIOUS
  <1>5. /\ flowPc = "expire" /\ pendingPermits # <<>> /\ UNCHANGED <<flowSeq, flowPc, msg>>
        /\ pendingPermits' = Tail(pendingPermits)
        /\ permits' = [permits EXCEPT ![p] = NoPermit]
        /\ state' = [state EXCEPT ![o] =
                       IF ~abandon \/ @ = "requested" THEN "requested"
                       ELSE IF numPermits[o] = 1 THEN "idle" ELSE @]
    BY <1>2, <1>3, <1>4 DEF ExpirePermit
  <1>6. ~Ending(s) /\ ~Ending(s)'
    BY <1>5 DEF Ending
  <1>7. OwnSet(s) = Mine(s) /\ OwnSet(s)' = Mine(s) /\ StateOf(s) = state[s] /\ StateOf(s)' = state'[s]
    BY <1>6, NotEnding
  <1>8. PICK q, l, r : q = Kept(pendingPermits, Mine(s)) /\ l = pendingPermits' /\ r = Kept(l, Mine(s))
    OBVIOUS
  <1>9. p \in Permit /\ l \in Seq(Permit) /\ p \notin Elements(l) /\ o \in Senders
    <2>1. Head(pendingPermits) \in Elements(pendingPermits) /\ Tail(pendingPermits) \in Seq(Permit)
          /\ Elements(Tail(pendingPermits)) = Elements(pendingPermits) \ {Head(pendingPermits)}
      BY <1>1, <1>5, TailRemoves
    <2>2. p \in Permit
      BY <1>1, <1>2, <1>5
    <2> QED  BY <1>2, <1>5, <1>8, <2>1, <2>2 DEF Permit
  <1>10. \A x \in Permit : x # p => permits'[x] = permits[x]
    BY <1>1, <1>5 DEF TypeOK
  <1>11. \A j \in DOMAIN r : r[j] \in Permit /\ permits'[r[j]] = permits[r[j]]
    <2>1. r \in Seq(Permit) /\ \A j \in DOMAIN r : r[j] \in Elements(l)
      BY <1>8, <1>9, KeptElements
    <2> QED  BY <1>9, <1>10, <2>1
  <1>12. EntryOf(s) = EntryWith(state[s], flowSeq[s], ShownList(permits, q))
         /\ EntryOf(s)' = EntryWith(state'[s], flowSeq[s], ShownList(permits, r))
    <2>1. ShownList(permits', r) = ShownList(permits, r)
      BY <1>11, ShownSame
    <2>2. EntryOf(s)' = EntryFrom(state'[s], flowSeq[s], r, permits')
      BY <1>1, <1>5, <1>7, <1>8, EntryIs
    <2>3. EntryOf(s) = EntryFrom(state[s], flowSeq[s], q, permits)
      BY <1>1, <1>7, <1>8, EntryIs
    <2> QED  BY <2>1, <2>2, <2>3 DEF EntryFrom
  <1>13. CASE o # s
    <2>1. state'[s] = state[s]
      BY <1>1, <1>5, <1>13 DEF TypeOK
    <2>2. Head(pendingPermits) \notin Mine(s)
      BY <1>2, <1>13 DEF Mine
    <2>3. r = q
      BY <1>1, <1>5, <1>8, <2>2, KeptTail
    <2>4. EntryOf(s)' = EntryOf(s)
      BY <1>12, <2>1, <2>3
    <2> QED  BY <2>4 DEF EntryStep
  <1>14. CASE o = s
    <2>1. Head(pendingPermits) \in Mine(s)
      BY <1>2, <1>9, <1>14 DEF Mine
    <2>2. q # <<>> /\ r = Tail(q)
      BY <1>1, <1>5, <1>8, <2>1, KeptTail
    <2>3. q \in Seq(Permit) /\ DOMAIN q = 1 .. Len(q) /\ Len(q) \in Nat
      BY <1>8, MineIs
    <2>4. PICK v : v = ShownList(permits, q)
      OBVIOUS
    <2>5. ShownList(permits, r) = Tail(v) /\ v # <<>>
      BY <2>2, <2>3, <2>4, ShownTail
    <2>6. Len(v) = numPermits[s]
      <3>1. numPermits[s] = Len(q)
        BY <1>8, MineCount
      <3>2. Len(v) = Len(q)
        BY <2>3, <2>4, ShownLength
      <3> QED  BY <3>1, <3>2
    <2>7. state'[s] = IF state[s] = "requested" \/ ~abandon THEN "requested"
                      ELSE IF Len(v) = 1 THEN "idle" ELSE state[s]
      <3>1. state'[s] = IF ~abandon \/ state[s] = "requested" THEN "requested"
                        ELSE IF numPermits[s] = 1 THEN "idle" ELSE state[s]
        BY <1>1, <1>5, <1>14 DEF TypeOK
      <3> QED  BY <2>6, <3>1
    <2>8. EntryOf(s)' = Entry!AfterExpiry(EntryOf(s), abandon)
      <3>1. Entry!AfterExpiry(EntryWith(state[s], flowSeq[s], v), abandon)
              = EntryWith(IF state[s] = "requested" \/ ~abandon THEN "requested"
                          ELSE IF Len(v) = 1 THEN "idle" ELSE state[s], flowSeq[s], Tail(v))
        BY ExpiryForm
      <3> QED  BY <1>12, <2>4, <2>5, <2>7, <3>1
    <2>9. EntryOf(s).active # <<>>
      BY <1>12, <2>4, <2>5, Parts
    <2> QED  BY <2>8, <2>9 DEF EntryStep
  <1> QED  BY <1>13, <1>14

\* send_start and a packet that is counted change one permit.
LEMMA SlotsStep ==
    ASSUME ConsistentFlow, ConsistentFlow', NEW s \in Senders, NEW p \in Permit, NEW n \in Int,
           UNCHANGED <<state, flowSeq, pendingPermits>>,
           permits' = [permits EXCEPT ![p].numPackets = n], NEW start \in BOOLEAN,
           start => n \in 0 .. MaxStart /\ ~Ending(s) /\ ~Ending(s)',
           ~start => /\ UNCHANGED <<flowPc, msg>>
                     /\ (permits[p].numPackets > 0 => n = permits[p].numPackets - 1)
                     /\ (~(permits[p].numPackets > 0) => ~(n > 0))
    PROVE  EntryStep(EntryOf(s), EntryOf(s)')
  <1>1. TypeOK /\ TypeOK' /\ pendingPermits \in Seq(Permit) /\ NoRepeats(pendingPermits)
        /\ permits[p].numPackets \in Int
    BY DEF ConsistentFlow, TypeOK, PermitListExact
  <1>2. \A x \in Permit : /\ permits'[x].flowSeq = permits[x].flowSeq
                          /\ x # p => permits'[x] = permits[x]
                          /\ x = p => permits'[x].numPackets = n
    BY <1>1 DEF TypeOK
  <1>3. OwnSet(s)' = OwnSet(s) /\ StateOf(s)' = StateOf(s)
    <2>1. CASE start
      BY <2>1, NotEnding
    <2>2. CASE ~start
      <3>1. Ending(s)' <=> Ending(s)
        BY <2>2 DEF Ending
      <3>2. Ending(s) => CompletedIds(msg)' = CompletedIds(msg)
        <4>1. Ending(s) => \A k \in PermitIds : permits'[<<msg.from, k>>].flowSeq = permits[<<msg.from, k>>].flowSeq
          BY <1>2 DEF Ending, Permit
        <4> QED  BY <2>2, <4>1 DEF CompletedIds, ActiveIds, IsActive
      <3>3. StateOf(s)' = StateOf(s)
        BY <2>2, <3>1 DEF StateOf
      <3>4. OwnSet(s)' = OwnSet(s)
        BY <3>1, <3>2 DEF OwnSet, Mine
      <3> QED  BY <3>3, <3>4
    <2> QED  BY <2>1, <2>2
  <1>4. PICK q, v, w : q = Kept(pendingPermits, OwnSet(s)) /\ v = ShownList(permits, q) /\ w = ShownList(permits', q)
    OBVIOUS
  <1>5. q \in Seq(Permit) /\ NoRepeats(q)
    BY <1>1, <1>4, KeptElements
  <1>6. EntryOf(s) = EntryWith(StateOf(s), flowSeq[s], v) /\ EntryOf(s)' = EntryWith(StateOf(s), flowSeq[s], w)
    BY <1>1, <1>3, <1>4, EntryIs DEF EntryFrom
  <1>7. CASE \A i \in DOMAIN q : q[i] # p
    <2>1. \A i \in DOMAIN q : permits'[q[i]] = permits[q[i]]
      BY <1>2, <1>5, <1>7
    <2>2. w = v
      BY <1>4, <2>1, ShownSame, ZenonT(60)
    <2> QED  BY <1>6, <2>2 DEF EntryStep
  <1>8. CASE \E i \in DOMAIN q : q[i] = p
    <2>1. PICK i \in DOMAIN q : q[i] = p
      BY <1>8
    <2>2. PICK z : z = Shown(permits', q[i])
      OBVIOUS
    <2>3. w = Replace(v, i, z)
      <3>1. PICK S, P, R : S = Permit /\ P = permits /\ R = permits'
        OBVIOUS
      <3>2. q \in Seq(S) /\ NoRepeats(q) /\ i \in DOMAIN q
        BY <1>5, <2>1, <3>1
      <3>3. \A x \in S : x # q[i] => R[x] = P[x]
        BY <1>2, <2>1, <3>1
      <3>4. ShownList(R, q) = Replace(ShownList(P, q), i, Shown(R, q[i]))
        BY <3>2, <3>3, ShownChange
      <3> QED  BY <1>4, <2>2, <3>1, <3>4
    <2>4. PICK a, g : a = permits[p].numPackets /\ g = permits[p].flowSeq
      OBVIOUS
    <2>5. i \in DOMAIN v /\ v[i] = [flowSeq |-> g, slots |-> IF a > 0 THEN a ELSE 0]
      BY <1>4, <2>1, <2>4 DEF ShownList, Shown
    <2>6. z = [flowSeq |-> g, slots |-> IF n > 0 THEN n ELSE 0]
      BY <1>2, <2>1, <2>2, <2>4 DEF Shown
    <2>7. CASE start
      <3>1. n \in 0 .. MaxStart /\ (IF n > 0 THEN n ELSE 0) = n
        BY <2>7
      <3>2. z = [v[i] EXCEPT !.slots = n]
        BY <2>5, <2>6, <3>1
      <3>3. w = WithSlots(v, i, n)
        BY <2>3, <3>2 DEF Replace, WithSlots
      <3>4. EntryOf(s)' = Entry!AfterStart(EntryOf(s), i, n)
        BY <1>6, <3>3, SlotsForm
      <3>5. i \in DOMAIN EntryOf(s).active
        BY <1>6, <2>5, Parts
      <3> QED  BY <3>1, <3>4, <3>5 DEF EntryStep
    <2>8. CASE ~start
      <3>1. PICK y : y = IF a > 0 THEN a ELSE 0
        OBVIOUS
      <3>2. (IF n > 0 THEN n ELSE 0) = IF y > 0 THEN y - 1 ELSE 0
        <4>1. a \in Int
          BY <1>1, <2>4
        <4> QED  BY <2>4, <2>8, <3>1, <4>1
      <3>3. PICK u : u = IF y > 0 THEN y - 1 ELSE 0
        OBVIOUS
      <3>4. v[i].slots = y /\ z = [flowSeq |-> g, slots |-> u] /\ v[i] = [flowSeq |-> g, slots |-> y]
        BY <2>5, <2>6, <3>1, <3>2, <3>3
      <3>5. z = [v[i] EXCEPT !.slots = u]
        BY <3>4
      <3>6. z = [v[i] EXCEPT !.slots = IF v[i].slots > 0 THEN v[i].slots - 1 ELSE 0]
        BY <3>3, <3>4, <3>5
      <3>7. w = OneLess(v, i)
        BY <2>3, <3>6 DEF Replace, OneLess
      <3>8. EntryOf(s)' = Entry!AfterPacket(EntryOf(s), i)
        BY <1>6, <3>7, SlotsForm
      <3>9. i \in DOMAIN EntryOf(s).active
        BY <1>6, <2>5, Parts
      <3> QED  BY <3>8, <3>9 DEF EntryStep
    <2> QED  BY <2>7, <2>8
  <1> QED  BY <1>7, <1>8

\* updateNumReserved, on a permit or on none.
LEMMA NoteStartStep ==
    ASSUME ConsistentFlow, ConsistentFlow', NEW s \in Senders, NEW m \in FlowMsg, NoteStart(m)
    PROVE  EntryStep(EntryOf(s), EntryOf(s)')
  <1>1. TypeOK /\ TypeOK'
    BY DEF ConsistentFlow
  <1>2. PICK A : A = {i \in PermitIds : permits[<<m.from, i>>].flowSeq = m.flowSeq}
    OBVIOUS
  <1>3. PICK p : p = <<m.from, Least(A)>>
    OBVIOUS
  <1>4. /\ flowPc = "read" /\ flowPc' = "expire" /\ m.cmd = "send_start"
        /\ UNCHANGED <<state, flowSeq, pendingPermits>>
        /\ permits' = IF A = {} THEN permits ELSE [permits EXCEPT ![p].numPackets = m.packets]
    BY <1>2, <1>3 DEF NoteStart, flowVars
  <1>5. ~Ending(s) /\ ~Ending(s)'
    BY <1>4 DEF Ending
  <1>6. CASE A = {}
    <2>1. permits' = permits
      BY <1>4, <1>6
    <2> QED  BY <1>1, <1>4, <1>5, <2>1, QuietStep
  <1>7. CASE A # {}
    <2>1. m.from \in Senders /\ m.packets \in 0 .. MaxStart
      BY <1>4 DEF FlowMsg
    <2>2. A \in SUBSET Nat
      BY <1>2, ReceiveFlowAssumption DEF PermitIds
    <2>3. Least(A) \in A
      BY <1>7, <2>2, LeastInSet
    <2>4. p \in Permit
      BY <1>2, <1>3, <2>1, <2>3 DEF Permit
    <2>5. PICK n, start : n = m.packets /\ start = TRUE
      OBVIOUS
    <2>6. n \in Int /\ n \in 0 .. MaxStart /\ start \in BOOLEAN
      BY <2>1, <2>5, ReceiveFlowAssumption
    <2>7. permits' = [permits EXCEPT ![p].numPackets = n]
      BY <1>4, <1>7, <2>5
    <2> QED  BY <1>4, <1>5, <2>4, <2>5, <2>6, <2>7, SlotsStep
  <1> QED  BY <1>6, <1>7

\* decPermit, whether or not the permit is still active.
LEMMA CountStep ==
    ASSUME ConsistentFlow, ConsistentFlow', NEW s \in Senders, CountPacket
    PROVE  EntryStep(EntryOf(s), EntryOf(s)')
  <1>1. /\ dataPc = "count" /\ UNCHANGED <<state, flowSeq, pendingPermits, flowPc, msg>>
        /\ permits' = [permits EXCEPT ![counting].numPackets = IF @ > -MaxOverrun THEN @ - 1 ELSE @]
    BY DEF CountPacket, flowVars
  <1>2. PICK p, a : p = counting /\ a = permits[p].numPackets
    OBVIOUS
  <1>3. PICK n : n = IF a > -MaxOverrun THEN a - 1 ELSE a
    OBVIOUS
  <1>4. p \in Permit /\ a \in Int
    BY <1>1, <1>2 DEF ConsistentFlow, HandlersOK, TypeOK
  <1>5. n \in Int /\ (a > 0 => n = a - 1) /\ (~(a > 0) => ~(n > 0))
    BY <1>3, <1>4, ReceiveFlowAssumption
  <1>6. permits' = [permits EXCEPT ![p].numPackets = n]
    BY <1>1, <1>2, <1>3
  <1>7. PICK start : start = FALSE
    OBVIOUS
  <1>8. start \in BOOLEAN /\ ~start
    BY <1>7
  <1> QED  BY <1>1, <1>2, <1>4, <1>5, <1>6, <1>8, SlotsStep

\* grantPermit.
LEMMA GrantStep ==
    ASSUME ConsistentFlow, ConsistentFlow', NEW s \in Senders, NEW can, GrantPermit(can)
    PROVE  EntryStep(EntryOf(s), EntryOf(s)')
  <1>1. /\ TypeOK /\ TypeOK' /\ pendingPermits \in Seq(Permit)
        /\ pendingRequests \in Seq(Senders)
        /\ Elements(pendingRequests) = {r \in Senders : state[r] = "requested"}
        /\ DOMAIN pendingRequests \subseteq Nat
    <2>1. TypeOK /\ TypeOK' /\ Elements(pendingRequests) = {r \in Senders : state[r] = "requested"}
      BY DEF ConsistentFlow, RequestListExact
    <2>2. pendingPermits \in Seq(Permit) /\ pendingRequests \in Seq(Senders)
      BY <2>1 DEF TypeOK
    <2> QED  BY <2>1, <2>2
  <1>2. PICK k, o : k = Least(Grantable(can)) /\ o = pendingRequests[k]
    OBVIOUS
  <1>3. k \in Grantable(can)
    <2>1. Grantable(can) \subseteq DOMAIN pendingRequests /\ Grantable(can) # {}
      BY DEF Grantable, GrantPermit
    <2> QED  BY <1>1, <1>2, <2>1, LeastInSet
  <1>4. o \in Senders /\ state[o] = "requested" /\ numPermits[o] # MaxPermitsPerSender
    BY <1>1, <1>2, <1>3 DEF Grantable, Elements
  <1>5. PICK n : n = SmallerOf(SmallerOf(slots, MaxSlotsPerSender), QueueLimit - permitsIssued)
    OBVIOUS
  <1>6. n \in 1 .. MaxSlotsPerSender
    <2>1. /\ permitsIssued \in Nat /\ slots \in Nat /\ QueueLimit \in Nat
          /\ MaxSlotsPerSender \in Nat \ {0} /\ MinSlotsPerSender \in Nat \ {0}
      BY ReceiveFlowAssumption DEF ConsistentFlow, TypeOK
    <2>2. slots > 0 /\ flowPc = "grant"
      BY <2>1 DEF GrantPermit, MayGrant
    <2>3. slots + permitsIssued <= QueueLimit
      BY <2>2 DEF ConsistentFlow, HandlersOK
    <2> QED  BY <1>5, <2>1, <2>2, <2>3 DEF SmallerOf
  <1>7. PICK i \in Unallocated(o) :
           /\ permits' = [permits EXCEPT ![<<o, i>>] =
                 [flowSeq |-> flowSeq[o], sendSeq |-> sendSeq[o], numPackets |-> n]]
           /\ pendingPermits' = Append(pendingPermits, <<o, i>>)
           /\ state' = [state EXCEPT ![o] = "granted"]
    BY <1>2, <1>5 DEF GrantPermit
  <1>8. PICK p : p = <<o, i>>
    OBVIOUS
  <1>9. p \in Permit /\ p[1] = o /\ permits[p].flowSeq = 0
    BY <1>4, <1>7, <1>8 DEF Unallocated, IsActive, Permit
  <1>10. flowPc = "grant" /\ flowPc' = "read" /\ flowSeq' = flowSeq
    BY DEF GrantPermit, StartNextRound
  <1>11. ~Ending(s) /\ ~Ending(s)'
    BY <1>10 DEF Ending
  <1>12. OwnSet(s) = Mine(s) /\ OwnSet(s)' = Mine(s) /\ StateOf(s) = state[s] /\ StateOf(s)' = state'[s]
    BY <1>11, NotEnding
  <1>13. PICK q, r : q = Kept(pendingPermits, Mine(s)) /\ r = Kept(pendingPermits', Mine(s))
    OBVIOUS
  <1>14. r = IF p \in Mine(s) THEN Append(q, p) ELSE q
    BY <1>1, <1>7, <1>8, <1>9, <1>13, KeptAppend
  <1>15. /\ permits'[p] = [flowSeq |-> flowSeq[o], sendSeq |-> sendSeq[o], numPackets |-> n]
         /\ \A x \in Permit : x # p => permits'[x] = permits[x]
    BY <1>1, <1>7, <1>8, <1>9 DEF TypeOK
  <1>16. q \in Seq(Permit) /\ Len(q) \in Nat /\ \A j \in DOMAIN q : q[j] \in Permit /\ permits[q[j]].flowSeq # 0
    BY <1>13, MineIs
  <1>17. \A j \in DOMAIN q : permits'[q[j]] = permits[q[j]]
    BY <1>9, <1>15, <1>16
  <1>18. CASE o # s
    <2>1. state'[s] = state[s]
      BY <1>1, <1>7, <1>18 DEF TypeOK
    <2>2. r = q
      BY <1>9, <1>14, <1>18 DEF Mine
    <2>3. Kept(pendingPermits, OwnSet(s)) = q /\ Kept(pendingPermits', OwnSet(s)') = q
          /\ StateOf(s)' = StateOf(s) /\ flowSeq'[s] = flowSeq[s]
      BY <1>10, <1>12, <1>13, <2>1, <2>2
    <2> QED  BY <1>1, <1>17, <2>3, SameEntry
  <1>19. CASE o = s
    <2>1. state'[s] = "granted" /\ state[s] = "requested"
      BY <1>1, <1>4, <1>7, <1>19 DEF TypeOK
    <2>2. p \in Mine(s) /\ r = Append(q, p)
      BY <1>9, <1>14, <1>19 DEF Mine
    <2>3. PICK v : v = ShownList(permits, q)
      OBVIOUS
    <2>4. ShownList(permits', q) = v
      BY <1>17, <2>3, ShownSame
    <2>5. PICK P, z : P = permits' /\ z = Shown(P, p)
      OBVIOUS
    <2>6. ShownList(P, r) = Append(ShownList(P, q), z)
      BY <1>9, <1>16, <2>2, <2>5, ShownAppend
    <2>7. z = [flowSeq |-> flowSeq[s], slots |-> n]
      BY <1>6, <1>15, <1>19, <2>5 DEF Shown
    <2>8. Len(v) < MaxPermitsPerSender
      <3>1. numPermits[s] = Len(q)
        BY <1>13, MineCount
      <3>2. Len(v) = Len(q)
        BY <1>16, <2>3, ShownLength
      <3>3. numPermits[s] <= MaxPermitsPerSender
        <4>1. Cardinality(ActiveIds(s)) <= MaxPermitsPerSender
          <5>1. IsFiniteSet(PermitIds) /\ Cardinality(PermitIds) = MaxPermitsPerSender
            <6>1. MaxPermitsPerSender \in Nat
              BY ReceiveFlowAssumption
            <6>2. IsFiniteSet(1 .. MaxPermitsPerSender)
                  /\ Cardinality(1 .. MaxPermitsPerSender)
                       = IF 1 > MaxPermitsPerSender THEN 0 ELSE MaxPermitsPerSender - 1 + 1
              BY <6>1, FS_Interval
            <6> QED  BY <6>1, <6>2, ReceiveFlowAssumption DEF PermitIds
          <5>2. ActiveIds(s) \in SUBSET PermitIds
            BY DEF ActiveIds
          <5> QED  BY <5>1, <5>2, FS_Subset
        <4> QED  BY <4>1 DEF ConsistentFlow, NumPermitsExact
      <3> QED  BY <1>4, <1>16, <1>19, <3>1, <3>2, <3>3, ReceiveFlowAssumption
    <2>9. EntryOf(s) = EntryWith(state[s], flowSeq[s], v)
      BY <1>1, <1>12, <1>13, <2>3, EntryIs DEF EntryFrom
    <2>10. EntryOf(s)' = EntryWith("granted", flowSeq[s], Append(v, z))
      <3>1. EntryOf(s)' = EntryFrom("granted", flowSeq[s], r, P)
        BY <1>1, <1>10, <1>12, <1>13, <2>1, <2>5, EntryIs
      <3> QED  BY <2>4, <2>5, <2>6, <3>1 DEF EntryFrom
    <2>11. /\ Entry!MayGrantTo(EntryWith(state[s], flowSeq[s], v))
           /\ Entry!AfterGrant(EntryWith(state[s], flowSeq[s], v), n)
                = EntryWith("granted", flowSeq[s], Append(v, [flowSeq |-> flowSeq[s], slots |-> n]))
      BY <2>1, <2>8, GrantForm
    <2>12. Entry!MayGrantTo(EntryOf(s)) /\ EntryOf(s)' = Entry!AfterGrant(EntryOf(s), n)
      BY <2>7, <2>9, <2>10, <2>11
    <2> QED  BY <1>6, <2>12 DEF EntryStep
  <1> QED  BY <1>18, <1>19

\* A new sender is idle and has no permits.
LEMMA InitEntry ==
    ASSUME Init, NEW s \in Senders
    PROVE  EntryOf(s) = Entry!NewEntry
  <1>1. pendingPermits = <<>> /\ flowPc = "read" /\ state[s] = "idle" /\ flowSeq[s] = 0
    BY DEF Init
  <1>2. ~Ending(s)
    BY <1>1 DEF Ending
  <1>3. PICK own : own = OwnPermits(s)
    OBVIOUS
  <1>4. own = <<>>
    <2>1. PICK I : I = {i \in DOMAIN pendingPermits :
                          /\ pendingPermits[i][1] = s
                          /\ ~(Ending(s) /\ pendingPermits[i][2] \in CompletedIds(msg))}
      OBVIOUS
    <2>2. I = {}
      BY <1>1, <2>1
    <2>3. own = KeepAt(pendingPermits, {})
      BY <1>3, <2>1, <2>2 DEF OwnPermits
    <2>4. Cardinality({}) = 0
      BY FS_EmptySet
    <2> QED  BY <2>3, <2>4 DEF KeepAt
  <1>5. [i \in DOMAIN own |-> [flowSeq |-> permits[own[i]].flowSeq, slots |-> NumReserved(own[i])]] = <<>>
    BY <1>4
  <1> QED  BY <1>1, <1>2, <1>3, <1>5 DEF EntryOf, Entry!NewEntry

\* Whatever the threads do, every sender sees a step of FlowReceiver or none.
LEMMA NextStep ==
    ASSUME ConsistentFlow, [Next]_vars, NEW s \in Senders
    PROVE  EntryStep(EntryOf(s), EntryOf(s)')
  <1>1. ConsistentFlow'
    BY NextKeeps
  <1>2. TypeOK /\ TypeOK'
    BY <1>1 DEF ConsistentFlow
  <1>3. ASSUME NEW m \in FlowMsg, ReadFlowMsg(m) PROVE EntryStep(EntryOf(s), EntryOf(s)')
    BY <1>1, <1>3, ReadStep
  <1>4. ASSUME NEW m \in FlowMsg, NoteStart(m) PROVE EntryStep(EntryOf(s), EntryOf(s)')
    BY <1>1, <1>4, NoteStartStep
  <1>5. CASE RevokeCompleted
    BY <1>1, <1>5, RevokeStep
  <1>6. CASE FinishDone
    BY <1>1, <1>6, FinishStep
  <1>7. CASE NoteRequest
    BY <1>1, <1>7, RequestStep
  <1>8. CASE ExpirePermit
    BY <1>1, <1>8, ExpireStep
  <1>9. ASSUME NEW can \in CanSendAny, GrantPermit(can) PROVE EntryStep(EntryOf(s), EntryOf(s)')
    BY <1>1, <1>9, GrantStep
  <1>10. CASE CountPacket
    BY <1>1, <1>10, CountStep
  <1>11. CASE \/ WaitTimeout \/ StopExpiring \/ SumReserved \/ ReadAvailable \/ ResendPermit
              \/ \E can \in CanSendAny : NoGrant(can)
              \/ \E r \in Senders, seq \in SendSeqs, duplicate \in BOOLEAN : ReadPacket(r, seq, duplicate)
              \/ PushPacket \/ CollatePacket \/ UNCHANGED vars
    BY <1>2, <1>11, QuietSteps
  <1> QED  BY <1>3, <1>4, <1>5, <1>6, <1>7, <1>8, <1>9, <1>10, <1>11 DEF Next, FlowStep

\* The receiving side implements FlowReceiver: with its lists, the permits it
\* shares with the data thread and the revocations it does one by one
\* (CReceiveManager), it treats a sender as that specification says.
THEOREM ReceiverImplementsFlowReceiver ==
    ASSUME Senders # {}
    PROVE  Spec => ImplementsFlowReceiver
  <1>1. AnySender \in Senders
    BY DEF AnySender
  <1>2. Init => Entry!Init
    BY <1>1, InitEntry DEF Entry!Init
  <1>3. ConsistentFlow /\ [Next]_vars => [Entry!Next]_(EntryOf(AnySender))
    <2>1. SUFFICES ASSUME ConsistentFlow, [Next]_vars PROVE [Entry!Next]_(EntryOf(AnySender))
      OBVIOUS
    <2>2. EntryStep(EntryOf(AnySender), EntryOf(AnySender)')
      BY <1>1, <2>1, NextStep
    <2> QED  BY <2>2 DEF EntryStep, Entry!Next, Entry!FlowSeq, FlowSeq, Entry!Sequence, Sequence
  <1> QED  BY <1>2, <1>3, FlowStaysConsistent, PTL DEF Spec, ImplementsFlowReceiver, Entry!Spec
=============================================================================
