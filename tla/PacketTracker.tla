---------------------------- MODULE PacketTracker ----------------------------
(* The receiver's record of which packets of one sender it has seen           *)
(* (class PacketTracker, udpsha.hpp and udpsha.cpp).  A copy of it travels    *)
(* back to the sender in every permit.                                        *)
(*                                                                            *)
(* The 64-bit words of the circular bitmap are abstracted to the set of the   *)
(* slots whose bit is set.                                                    *)
EXTENDS SequenceNumbers

CONSTANT TrackerBits    \* TRACKER_BITS, the number of slots of the bitmap

\* TRACKER_BITS divides the range of sequence numbers (it is a power of two)
\* and is less than half of it, so that a packet at the end of the window is
\* still later than the high water mark just before its start.
ASSUME TrackerAssumption ==
    /\ TrackerBits \in Nat \ {0}
    /\ 2 * TrackerBits < SeqSpace
    /\ SeqSpace % TrackerBits = 0

Slots == 0 .. TrackerBits - 1

\* The bit of the circular bitmap that stands for seq.
Slot(seq) == seq % TrackerBits

Tracker == [base : Sequence, hwm : Sequence, seen : SUBSET Slots]

NewTracker == [base |-> 0, hwm |-> SeqSpace - 1, seen |-> {}]

CanRecord(t, seq) == Delta(seq, t.base) < TrackerBits

\* Faulty variant of HasSeen: everything up to the high water mark is seen.
HasSeenByMark(t, seq) == ~IsLater(seq, t.hwm)

HasSeen(t, seq) ==
    IF CanRecord(t, seq)
    THEN Slot(seq) \in t.seen
    ELSE IsEarlier(seq, t.base)

HasGaps(t) == t.base # (t.hwm + 1) % SeqSpace

LastSeen(t) == t.hwm

\* How far the loop in noteSeen advances: the number of consecutive slots from
\* base on that are set.  It clears each one it passes, so it stops after at
\* most TrackerBits of them.
SetRun(seen, base) ==
    CHOOSE n \in 0 .. TrackerBits :
        /\ \A i \in 0 .. n - 1 : Slot(base + i) \in seen
        /\ n < TrackerBits => Slot(base + n) \notin seen

\* How far base moves when seq is recorded.
Advance(t, seq) ==
    IF seq = t.base THEN SetRun(t.seen \cup {Slot(seq)}, t.base) ELSE 0

\* Faulty variant of Record: bits are not cleared when base moves past them.
RecordUncleared(t, seq) ==
    [base |-> (t.base + Advance(t, seq)) % SeqSpace,
     hwm  |-> IF IsLater(seq, t.hwm) THEN seq ELSE t.hwm,
     seen |-> t.seen \cup {Slot(seq)}]

\* A packet inside the window: set its bit, advance base past what is now
\* contiguous, and raise the high water mark.
Record(t, seq) ==
    [base |-> (t.base + Advance(t, seq)) % SeqSpace,
     hwm  |-> IF IsLater(seq, t.hwm) THEN seq ELSE t.hwm,
     seen |-> (t.seen \cup {Slot(seq)}) \ {Slot(t.base + i) : i \in 0 .. Advance(t, seq) - 1}]

\* An original packet outside the window: forget everything and start again
\* just after it.
Reset(seq) == [base |-> (seq + 1) % SeqSpace, hwm |-> seq, seen |-> {}]

\* The tracker after noteSeen, and what noteSeen returns.
NoteSeen(t, seq, resent) ==
    CASE CanRecord(t, seq)              -> Record(t, seq)
      [] ~CanRecord(t, seq) /\ resent   -> t
      [] ~CanRecord(t, seq) /\ ~resent  -> Reset(seq)

\* Faulty variant of IsDuplicate: a resent packet from before the window is
\* taken for a new one.
IsDuplicateInWindow(t, seq, resent) == CanRecord(t, seq) /\ Slot(seq) \in t.seen

IsDuplicate(t, seq, resent) ==
    IF CanRecord(t, seq) THEN Slot(seq) \in t.seen ELSE resent
=============================================================================
