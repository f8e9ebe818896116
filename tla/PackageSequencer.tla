--------------------------- MODULE PackageSequencer ---------------------------
(* The list in which the packets of one message are put in order              *)
(* (PackageSequencer, udpmsgpk.cpp).  A packet is its pktSeq: its number in   *)
(* the message and the two flag bits; a sequencer is its list of packets, how *)
(* many of them from the first on are without a gap (lastContiguousPacket),   *)
(* the packet it takes for the last one (tail), and the tokens of the         *)
(* semaphore dataAvailable.                                                   *)
EXTENDS Integers, Sequences, FiniteSetsExt

CONSTANT RESENT     \* UDP_PACKET_RESENT, the first flag above the numbers of the packets

ASSUME SequencerAssumption == RESENT \in Nat \ {0}

\* UDP_PACKET_COMPLETE is the other flag.
COMPLETE == 2 * RESENT
NoPacket == 2 * COMPLETE

Number(p) == p % RESENT
IsComplete(p) == (p \div COMPLETE) % 2 = 1
IsResent(p) == (p \div RESENT) % 2 = 1

\* Faulty variant of ClearResent: the flag stays.
KeepResent(p) == p

ClearResent(p) == IF IsResent(p) THEN p - RESENT ELSE p

NewSequencer == [list |-> <<>>, contiguous |-> 0, tail |-> NoPacket, avail |-> 0]

\* "Optimize the (very) common case where I need to add to the end"
AddsToEnd(s, p) == s.tail # NoPacket /\ p > s.tail

\* The packet that p is inserted after, 0 for none: the list is searched from
\* the last contiguous packet on.
After(s, p) ==
    LET later == {i \in s.contiguous + 1 .. Len(s.list) : s.list[i] > p}
    IN  IF AddsToEnd(s, p) \/ later = {} THEN Len(s.list) ELSE Min(later) - 1

IsDiscarded(s, p) ==
    /\ ~AddsToEnd(s, p)
    /\ \/ s.contiguous > 0 /\ p <= s.list[s.contiguous]
       \/ \E i \in s.contiguous + 1 .. After(s, p) : s.list[i] = p

\* Faulty variant of TailAfter: tail stays at the first packet.
TailAfterFirst(s, p) == IF s.list = <<>> THEN p ELSE s.tail

TailAfter(s, p) == IF AddsToEnd(s, p) \/ s.tail = NoPacket THEN p ELSE s.tail

\* The number of packets from the first on without a gap.
ContiguousPackets(s, list, at) ==
    IF at # s.contiguous THEN s.contiguous
    ELSE Max({k \in s.contiguous .. Len(list) :
                \A i \in s.contiguous + 1 .. k : Number(list[i]) = i - 1})

\* Faulty variant of TokensFor: no token for the end.
TokensForPackets(list, from, to) == to - from

\* A token for each packet that became contiguous, and one for the end of the
\* message.
TokensFor(list, from, to) ==
    (to - from) + Cardinality({i \in from + 1 .. to : IsComplete(list[i])})

\* insert() of a packet that is not discarded.
Inserted(s, p) ==
    LET at == After(s, p)
        list == SubSeq(s.list, 1, at) \o <<p>> \o SubSeq(s.list, at + 1, Len(s.list))
        upto == ContiguousPackets(s, list, at)
    IN  [list |-> list, contiguous |-> upto, tail |-> TailAfter(s, p),
         avail |-> s.avail + TokensFor(list, s.contiguous, upto)]

\* The answer of insert(): did a packet with UDP_PACKET_COMPLETE become contiguous?
CompletesMessage(s, p) ==
    \E i \in s.contiguous + 1 .. Inserted(s, p).contiguous : IsComplete(Inserted(s, p).list[i])
=============================================================================
