---------------------------- MODULE UdpResendList ----------------------------
(* The sender's copies of the packets it has sent and that are not known to   *)
(* have arrived (class UdpResendList, udptrs.cpp).  The circular array of     *)
(* buffers is abstracted to the set of the sequence numbers it holds; count   *)
(* is its cardinality.  timeSent is abstracted to the set "due" of the        *)
(* entries whose resend delay has passed.                                     *)
EXTENDS PacketTracker, FiniteSets, SequencesExt

CONSTANTS
    ResendAllMissing,   \* udpResendAllMissingPackets
    AssumeSequential    \* udpAssumeSequential

ASSUME ResendAssumption ==
    /\ ResendAllMissing \in BOOLEAN
    /\ AssumeSequential \in BOOLEAN

ResendList == [first : Sequence, entries : SUBSET Sequence]

EmptyResendList == [first |-> 0, entries |-> {}]

NumActive(l) == Cardinality(l.entries)

\* The distance of an entry from the start of the list: the order in which
\* noteRead visits the entries.
Age(l, e) == Delta(e, l.first)

CanRecordEntry(l, seq) == l.entries = {} \/ Delta(seq, l.first) < TrackerBits

\* The two checks of append: the throwUnexpected() and the assert.
AppendFails(l, seq) ==
    \/ ~CanRecordEntry(l, seq)
    \/ \E e \in l.entries : Slot(e) = Slot(seq)

\* The k packets from seq "from" on, appended one after the other, and whether
\* one of those calls fails.
AppendRange(l, from, k) ==
    [first   |-> IF l.entries = {} /\ k > 0 THEN from % SeqSpace ELSE l.first,
     entries |-> l.entries \cup {(from + i) % SeqSpace : i \in 0 .. k - 1}]

AppendRangeFails(l, from, k) ==
    \E i \in 0 .. k - 1 : AppendFails(AppendRange(l, from, i), (from + i) % SeqSpace)

\* The entries noteRead wants to resend: not marked as seen, and either due or
\* (optionally) older than the newest packet the receiver has seen.
Missing(l, seen, due) ==
    {e \in l.entries :
        /\ ~HasSeen(seen, e)
        /\ e \in due \/ (AssumeSequential /\ IsEarlier(e, LastSeen(seen)))}

\* The entries the loop of noteRead visits: all of them, or those up to the
\* one that uses up the space.
Visited(l, seen, space, due) ==
    IF space = 0 \/ ResendAllMissing
    THEN l.entries
    ELSE {e \in l.entries :
            Cardinality({m \in Missing(l, seen, due) : Age(l, m) < Age(l, e)}) < space}

ToResend(l, seen, space, due) ==
    Missing(l, seen, due) \cap Visited(l, seen, space, due)

\* Faulty variant of Confirmed: an entry is also released when it is resent.
ConfirmedOrResent(l, seen, space, due) ==
    {e \in Visited(l, seen, space, due) : HasSeen(seen, e) \/ e \in Missing(l, seen, due)}

Confirmed(l, seen, space, due) ==
    {e \in Visited(l, seen, space, due) : HasSeen(seen, e)}

\* The list after noteRead: confirmed entries are released, and first moves to
\* the oldest entry that is left.
NoteRead(l, seen, space, due) ==
    LET left == l.entries \ Confirmed(l, seen, space, due)
    IN  [first   |-> IF left = {} THEN l.first
                     ELSE CHOOSE e \in left : \A x \in left : Age(l, e) <= Age(l, x),
         entries |-> left]

\* Entries in the order noteRead visits them: the i-th has i - 1 older ones.
InOrder(l, es) ==
    [i \in 1 .. Cardinality(es) |->
        CHOOSE e \in es : Cardinality({x \in es : Age(l, x) < Age(l, e)}) = i - 1]

\* Faulty variant of NewPacketLimit: the window is not taken into account.
UncappedLimit(l, next, space, resending) == IF resending <= space THEN space - resending ELSE 0

\* How many new packets sendData may send: what the permit leaves after the
\* resends, and no packet that would overwrite an active one.
NewPacketLimit(l, next, space, resending) ==
    LET left == IF resending <= space THEN space - resending ELSE 0
        room == TrackerBits - Delta(next, l.first)
    IN  IF l.entries # {} /\ left > room THEN room ELSE left
=============================================================================
