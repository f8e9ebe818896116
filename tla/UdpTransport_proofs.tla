------------------------ MODULE UdpTransport_proofs ------------------------
(* Nothing is forgotten end to end, and the sender asks until it is done or   *)
(* gives up; the transport implements UdpDataStream.  For any bounds, any size of the       *)
(* bitmap, any range of sequence numbers and either setting of the options.   *)
(*                                                                            *)
(* UdpTransport bounds the packets so that their sequence numbers do not wrap *)
(* around, so here a sequence number is the packet it stands for.             *)
EXTENDS MCUdpTransport, FiniteSetTheorems, SequenceTheorems, TLAPS

-----------------------------------------------------------------------------
(* Sequence numbers.                                                          *)

\* The ranges of the constants.
LEMMA Ranges ==
    /\ SeqSpace \in Nat \ {0} /\ TrackerBits \in Nat \ {0}
    /\ SeqSpace \div 2 \in Nat /\ SeqSpace = 2 * (SeqSpace \div 2)
    /\ TrackerBits < SeqSpace \div 2
    /\ MaxSend \in Nat /\ MaxSend <= SeqSpace \div 2 /\ MaxSend < SeqSpace
    /\ MaxStart \in 1 .. TrackerBits /\ MaxSlotsPerSender \in 1 .. MaxStart
    /\ MaxFlow \in Nat /\ MaxFlowMsgs \in Nat /\ MaxWire \in Nat /\ MaxLosses \in Nat
  BY SequenceAssumption, TrackerAssumption, TransportAssumption

\* A packet is its own sequence number.
LEMMA NumberIs ==
    ASSUME NEW a \in 0 .. MaxSend
    PROVE  a % SeqSpace = a /\ a \in Sequence
  BY Ranges DEF Sequence

\* The difference of two sequence numbers.
LEMMA DeltaIs ==
    ASSUME NEW a \in 0 .. MaxSend, NEW b \in 0 .. MaxSend
    PROVE  Delta(a, b) = IF b <= a THEN a - b ELSE a - b + SeqSpace
  <1> DEFINE S == SeqSpace
             d == a - b
  <1>1. S \in Nat \ {0} /\ d \in Int /\ d < S /\ d + S > 0 /\ (b <= a <=> d >= 0)
    BY Ranges
  <1> HIDE DEF S, d
  <1>2. CASE d >= 0
    <2>1. d % S = d
      BY <1>1, <1>2
    <2> QED  BY <1>1, <1>2, <2>1 DEF Delta, S, d
  <1>3. CASE ~(d >= 0)
    <2>1. d + S \in 0 .. S - 1 /\ d = S * (-1) + (d + S)
      BY <1>1, <1>3
    <2>2. d % S = d + S
      BY <1>1, <2>1
    <2> QED  BY <1>1, <1>3, <2>2 DEF Delta, S, d
  <1> QED  BY <1>2, <1>3

\* The comparison of a packet with another one, or with the next one.
LEMMA EarlierIs ==
    ASSUME NEW a \in 0 .. MaxSend - 1, NEW b \in 0 .. MaxSend
    PROVE  IsEarlier(a, b) <=> a < b
  <1>1. a \in 0 .. MaxSend
    BY Ranges
  <1>2. Delta(a, b) = IF b <= a THEN a - b ELSE a - b + SeqSpace
    BY <1>1, DeltaIs
  <1> QED  BY <1>2, Ranges DEF IsEarlier

\* A slot is a bit of the bitmap.
LEMMA SlotType == \A a \in Int : Slot(a) \in Slots
  BY Ranges DEF Slot, Slots

\* Packets of one window have slots of their own.
LEMMA SlotsDiffer ==
    ASSUME NEW a \in Int, NEW b \in Int, a < b, b < a + TrackerBits
    PROVE  Slot(a) # Slot(b)
  <1> DEFINE T == TrackerBits
             p == a \div T
             q == b \div T
             r == a % T
             t == b % T
  <1>1. T \in Nat \ {0}
    BY Ranges
  <1>2. ASSUME NEW N \in Nat \ {0}, NEW c \in Int, NEW x, x = c \div N, NEW y, y = c % N
        PROVE  x \in Int /\ y \in 0 .. N - 1 /\ c = N * x + y
    BY <1>2
  <1>3. p \in Int /\ r \in 0 .. T - 1 /\ a = T * p + r
    BY <1>1, <1>2
  <1>4. q \in Int /\ t \in 0 .. T - 1 /\ b = T * q + t
    BY <1>1, <1>2
  <1>5. Slot(a) = r /\ Slot(b) = t
    BY DEF Slot
  <1> HIDE DEF p, q, r, t
  <1>6. SUFFICES ASSUME r = t PROVE FALSE
    BY <1>5
  <1>7. PICK d \in Int : q = p + d
    <2>1. q - p \in Int /\ q = p + (q - p)
      BY <1>3, <1>4
    <2> QED  BY <2>1
  <1>8. T * q = T * p + T * d
    BY <1>1, <1>3, <1>7
  <1>9. b - a = T * d
    BY <1>1, <1>3, <1>4, <1>6, <1>8
  <1>10. 0 < T * d /\ T * d < T
    BY <1>1, <1>9 DEF T
  <1> HIDE DEF T
  <1>11. d >= 1 => T * d >= T
    BY <1>1
  <1>12. d <= 0 => T * d <= 0
    BY <1>1
  <1> QED  BY <1>1, <1>10, <1>11, <1>12

-----------------------------------------------------------------------------
(* What the tracker stands for.                                               *)

\* The tracker t says that the packets of D have been seen: packet B is the
\* first one missing and none is further ahead than the bitmap reaches.
Records(t, D, B) ==
    /\ t \in Tracker
    /\ B \in 0 .. MaxSend /\ B \notin D
    /\ 0 .. B - 1 \subseteq D
    /\ D \subseteq 0 .. MaxSend - 1
    /\ \A d \in D : d < B + TrackerBits
    /\ t.base = B
    /\ t.seen = {Slot(d) : d \in {m \in D : m > B}}

\* A new tracker has seen nothing.
LEMMA NewRecords == Records(NewTracker, {}, 0)
  <1>1. NewTracker \in Tracker
    BY Ranges DEF NewTracker, Tracker, Sequence
  <1> QED  BY <1>1, Ranges DEF Records, NewTracker

\* A packet inside the window can be recorded, and its bit says whether it has
\* been seen.
LEMMA InsideWindow ==
    ASSUME NEW t, NEW D, NEW B, Records(t, D, B),
           NEW n \in 0 .. MaxSend - 1, B <= n, n < B + TrackerBits
    PROVE  CanRecord(t, n) /\ (Slot(n) \in t.seen <=> n \in D)
  <1>1. B \in 0 .. MaxSend /\ n \in 0 .. MaxSend /\ t.base = B
    BY Ranges DEF Records
  <1>2. CanRecord(t, n)
    <2>1. Delta(n, B) = n - B
      BY <1>1, DeltaIs
    <2> QED  BY <1>1, <2>1, Ranges DEF CanRecord
  <1>3. ASSUME n \in D PROVE Slot(n) \in t.seen
    <2>1. n > B
      BY <1>1, <1>3 DEF Records
    <2> QED  BY <1>3, <2>1 DEF Records
  <1>4. ASSUME Slot(n) \in t.seen PROVE n \in D
    <2>1. PICK d \in D : d > B /\ Slot(n) = Slot(d)
      BY <1>4 DEF Records
    <2>2. d \in Int /\ d < B + TrackerBits /\ n \in Int
      BY <1>1 DEF Records
    <2>3. ~(d < n)
      BY <1>1, <2>1, <2>2, SlotsDiffer, Ranges
    <2>4. ~(n < d)
      BY <1>1, <2>1, <2>2, SlotsDiffer, Ranges
    <2> QED  BY <2>1, <2>2, <2>3, <2>4
  <1> QED  BY <1>2, <1>3, <1>4

\* A packet outside the window cannot be recorded; it has been seen if it is
\* before the window.
LEMMA OutsideWindow ==
    ASSUME NEW t, NEW D, NEW B, Records(t, D, B),
           NEW n \in 0 .. MaxSend - 1, ~(B <= n /\ n < B + TrackerBits)
    PROVE  /\ ~CanRecord(t, n)
           /\ IsEarlier(n, t.base) <=> n < B
           /\ n < B <=> n \in D
  <1>1. B \in 0 .. MaxSend /\ n \in 0 .. MaxSend /\ t.base = B /\ 0 .. B - 1 \subseteq D
        /\ \A d \in D : d < B + TrackerBits
    BY Ranges DEF Records
  <1>2. Delta(n, B) = IF B <= n THEN n - B ELSE n - B + SeqSpace
    BY <1>1, DeltaIs
  <1>3. ~CanRecord(t, n)
    BY <1>1, <1>2, Ranges DEF CanRecord
  <1>4. IsEarlier(n, t.base) <=> n < B
    BY <1>1, EarlierIs
  <1>5. n < B <=> n \in D
    BY <1>1, Ranges
  <1> QED  BY <1>3, <1>4, <1>5

\* hasSeen says whether a packet has been seen, however old the tracker is.
LEMMA HasSeenExact ==
    ASSUME NEW t, NEW D, NEW B, Records(t, D, B), NEW n \in 0 .. MaxSend - 1
    PROVE  HasSeen(t, n) <=> n \in D
  <1>1. CASE B <= n /\ n < B + TrackerBits
    BY <1>1, InsideWindow DEF HasSeen
  <1>2. CASE ~(B <= n /\ n < B + TrackerBits)
    BY <1>2, OutsideWindow DEF HasSeen
  <1> QED  BY <1>1, <1>2


\* A set of numbers that is not empty has a least one.
LEMMA LeastNumber ==
    ASSUME NEW S, S \subseteq Nat, S # {}
    PROVE  \E n \in S : \A k \in S : n <= k
  <1>1. PICK x \in S : \A y \in S : ~(<<y, x>> \in OpToRel(<, Nat))
    BY WFMin, NatLessThanWellFounded
  <1>2. \A y \in S : ~(y < x)
    BY <1>1 DEF OpToRel
  <1> QED  BY <1>2

\* The loop in noteSeen stops at the first slot that is not set.
LEMMA SetRunIs ==
    ASSUME NEW seen, NEW base \in Int, NEW n \in 0 .. TrackerBits,
           \A i \in 0 .. n - 1 : Slot(base + i) \in seen,
           n < TrackerBits => Slot(base + n) \notin seen
    PROVE  SetRun(seen, base) = n
  <1> DEFINE P(m) == /\ \A i \in 0 .. m - 1 : Slot(base + i) \in seen
                     /\ m < TrackerBits => Slot(base + m) \notin seen
  <1>1. P(n)
    OBVIOUS
  <1>2. ASSUME NEW m \in 0 .. TrackerBits, P(m) PROVE m = n
    <2>1. ~(m < n)
      <3>1. SUFFICES ASSUME m < n PROVE FALSE
        OBVIOUS
      <3>2. m \in 0 .. n - 1 /\ m < TrackerBits
        BY <3>1, Ranges
      <3> QED  BY <1>2, <3>2
    <2>2. ~(n < m)
      <3>1. SUFFICES ASSUME n < m PROVE FALSE
        OBVIOUS
      <3>2. n \in 0 .. m - 1 /\ n < TrackerBits
        BY <3>1, Ranges
      <3> QED  BY <1>1, <1>2, <3>2
    <2> QED  BY <2>1, <2>2, Ranges
  <1>3. SetRun(seen, base) = CHOOSE m \in 0 .. TrackerBits : P(m)
    BY DEF SetRun
  <1> HIDE DEF P
  <1> QED  BY <1>1, <1>2, <1>3

\* How far recording packet n moves the base: to the first packet missing.
LEMMA AdvanceIs ==
    ASSUME NEW t, NEW D, NEW B, Records(t, D, B),
           NEW n \in 0 .. MaxSend - 1, B <= n, n < B + TrackerBits
    PROVE  \E a \in 0 .. TrackerBits :
              /\ Advance(t, n) = a
              /\ B + a \notin D \cup {n}
              /\ 0 .. B + a - 1 \subseteq D \cup {n}
  <1>1. B \in Nat /\ n \in Int /\ t.base = B /\ TrackerBits \in Nat
        /\ D \subseteq 0 .. MaxSend - 1 /\ 0 .. B - 1 \subseteq D /\ B \notin D
        /\ (\A d \in D : d < B + TrackerBits) /\ MaxSend \in Nat
    BY Ranges DEF Records
  <1>2. CASE n # B
    <2>1. Advance(t, n) = 0
      BY <1>1, <1>2 DEF Advance
    <2>2. B + 0 \notin D \cup {n} /\ 0 .. B + 0 - 1 \subseteq D \cup {n} /\ 0 \in 0 .. TrackerBits
      BY <1>1, <1>2
    <2> QED  BY <2>1, <2>2
  <1>3. CASE n = B
    <2> DEFINE E == D \cup {n}
               A == {a \in 0 .. TrackerBits : B + a \notin E}
               seen == t.seen \cup {Slot(n)}
    <2>1. A \subseteq Nat /\ A # {}
      <3>1. B + TrackerBits \notin E
        BY <1>1, <1>3, Ranges
      <3>2. TrackerBits \in 0 .. TrackerBits
        BY <1>1
      <3>3. TrackerBits \in A
        BY <3>1, <3>2
      <3>4. A \subseteq Nat
        BY <1>1
      <3> HIDE DEF A
      <3> QED  BY <3>3, <3>4
    <2>2. PICK a \in A : \A k \in A : a <= k
      <3> HIDE DEF A
      <3> QED  BY <2>1, LeastNumber
    <2>3. a \in 0 .. TrackerBits /\ B + a \notin E
      OBVIOUS
    <2>4. \A i \in 0 .. a - 1 : B + i \in E
      <3>1. SUFFICES ASSUME NEW i \in 0 .. a - 1, B + i \notin E PROVE FALSE
        OBVIOUS
      <3>2. i \in 0 .. TrackerBits /\ i < a
        BY <1>1, <2>3
      <3>3. i \in A
        BY <3>1, <3>2
      <3> QED  BY <2>2, <3>2, <3>3
    <2> HIDE DEF A
    <2>5. 0 .. B + a - 1 \subseteq E
      <3>1. SUFFICES ASSUME NEW m \in 0 .. B + a - 1 PROVE m \in E
        OBVIOUS
      <3>2. CASE m < B
        BY <1>1, <3>2
      <3>3. CASE m >= B
        <4>1. m - B \in 0 .. a - 1 /\ B + (m - B) = m
          BY <1>1, <2>3, <3>3
        <4> QED  BY <2>4, <4>1
      <3> QED  BY <1>1, <2>3, <3>2, <3>3
    <2>6. \A i \in 0 .. TrackerBits - 1 : Slot(B + i) \in seen <=> B + i \in E
      <3>1. SUFFICES ASSUME NEW i \in 0 .. TrackerBits - 1
                     PROVE  Slot(B + i) \in seen <=> B + i \in E
        OBVIOUS
      <3>2. CASE i = 0
        BY <1>1, <1>3, <3>2
      <3>3. CASE i # 0
        <4>1. PICK m : m = B + i
          OBVIOUS
        <4>2. m \in Int /\ B < m /\ m < B + TrackerBits /\ B \in Int /\ m # n
          BY <1>1, <1>3, <3>3, <4>1
        <4>3. Slot(m) # Slot(B)
          BY <4>2, SlotsDiffer
        <4>4. CASE m \in D
          BY <4>1, <4>2, <4>4 DEF Records
        <4>5. CASE m \notin D
          <5>1. SUFFICES ASSUME Slot(m) \in t.seen PROVE FALSE
            BY <1>3, <4>1, <4>2, <4>3, <4>5
          <5>2. PICK d \in D : d > B /\ Slot(m) = Slot(d)
            BY <5>1 DEF Records
          <5>3. d \in Int /\ d < B + TrackerBits /\ d # m
            BY <1>1, <4>5
          <5>4. ~(d < m)
            BY <1>1, <4>2, <5>2, <5>3, SlotsDiffer
          <5>5. ~(m < d)
            BY <1>1, <4>2, <5>2, <5>3, SlotsDiffer
          <5> QED  BY <4>2, <5>3, <5>4, <5>5
        <4> QED  BY <4>4, <4>5
      <3> QED  BY <3>2, <3>3
    <2> HIDE DEF E, seen
    <2>7. \A i \in 0 .. a - 1 : Slot(B + i) \in seen
      <3>1. \A i \in 0 .. a - 1 : i \in 0 .. TrackerBits - 1
        BY <1>1, <2>3
      <3> QED  BY <2>4, <2>6, <3>1
    <2>8. a < TrackerBits => Slot(B + a) \notin seen
      <3>1. a < TrackerBits => a \in 0 .. TrackerBits - 1
        BY <1>1, <2>3
      <3> QED  BY <2>3, <2>6, <3>1
    <2>9. SetRun(seen, B) = a
      <3>1. B \in Int
        BY <1>1
      <3> QED  BY <3>1, <2>3, <2>7, <2>8, SetRunIs
    <2>10. Advance(t, n) = a
      BY <1>1, <1>3, <2>9 DEF Advance, seen
    <2> QED  BY <2>3, <2>5, <2>10 DEF E
  <1> QED  BY <1>2, <1>3

\* The bits of the packets of D after B, and the bits that recording n leaves
\* when the base moves past a packets.
BitsBeyond(D, B) == {Slot(d) : d \in {m \in D : m > B}}
BitsLeft(t, n, a) == (t.seen \cup {Slot(n)}) \ {Slot(t.base + i) : i \in 0 .. a - 1}

\* They are the bits of the packets after the new base.
LEMMA BitsAfter ==
    ASSUME NEW t, NEW D, NEW B, Records(t, D, B),
           NEW n \in 0 .. MaxSend - 1, B <= n, n < B + TrackerBits,
           NEW a \in 0 .. TrackerBits, B + a \notin D \cup {n}
    PROVE  BitsLeft(t, n, a) = BitsBeyond(D \cup {n}, B + a)
  <1>1. B \in Nat /\ n \in Int /\ t.base = B /\ TrackerBits \in Nat
        /\ D \subseteq 0 .. MaxSend - 1 /\ B \notin D /\ MaxSend \in Nat
        /\ \A d \in D : d < B + TrackerBits
    BY Ranges DEF Records
  <1> DEFINE Old == {Slot(t.base + i) : i \in 0 .. a - 1}
             New == {Slot(d) : d \in {m \in D \cup {n} : m > B + a}}
  <1>3. ASSUME NEW d \in D \cup {n}, d > B + a PROVE Slot(d) \in t.seen \cup {Slot(n)} /\ Slot(d) \notin Old
    <2>1. d \in Int /\ d < B + TrackerBits /\ d > B
      BY <1>1, <1>3
    <2>2. Slot(d) \in t.seen \cup {Slot(n)}
      <3>1. CASE d \in D
        BY <2>1, <3>1 DEF Records
      <3>2. CASE d = n
        BY <3>2
      <3> QED  BY <3>1, <3>2
    <2>3. ASSUME NEW i \in 0 .. a - 1 PROVE Slot(d) # Slot(t.base + i)
      <3>1. PICK m : m = B + i
        OBVIOUS
      <3>2. m \in Int /\ m < d /\ d < m + TrackerBits /\ i \in Int
        BY <1>1, <1>3, <2>1, <3>1
      <3>3. Slot(m) # Slot(d)
        BY <2>1, <3>2, SlotsDiffer
      <3> QED  BY <1>1, <3>1, <3>3
    <2> QED  BY <2>2, <2>3
  <1>4. ASSUME NEW d \in D \cup {n}, d >= B, Slot(d) \notin Old PROVE d > B + a
    <2>1. d \in Int /\ d # B + a
      BY <1>1
    <2>2. SUFFICES ASSUME d < B + a PROVE FALSE
      BY <1>1, <2>1
    <2>3. d - B \in 0 .. a - 1 /\ B + (d - B) = d
      BY <1>1, <1>4, <2>1, <2>2
    <2>4. Slot(d) = Slot(t.base + (d - B))
      BY <1>1, <2>3
    <2> QED  BY <1>4, <2>3, <2>4
  <1>5. \A s \in t.seen \cup {Slot(n)} : \E d \in D \cup {n} : d >= B /\ s = Slot(d)
    <2>1. SUFFICES ASSUME NEW s \in t.seen \cup {Slot(n)}
                   PROVE  \E d \in D \cup {n} : d >= B /\ s = Slot(d)
      OBVIOUS
    <2>2. CASE s = Slot(n)
      BY <1>1, <2>2
    <2>3. CASE s \in t.seen
      <3>1. PICK d \in D : d > B /\ s = Slot(d)
        BY <2>3 DEF Records
      <3>2. d >= B
        BY <1>1, <3>1
      <3> QED  BY <3>1, <3>2
    <2> QED  BY <2>1, <2>2, <2>3
  <1>6. New \subseteq (t.seen \cup {Slot(n)}) \ Old
    BY <1>3
  <1>7. (t.seen \cup {Slot(n)}) \ Old \subseteq New
    BY <1>4, <1>5
  <1> QED  BY <1>6, <1>7 DEF BitsLeft, BitsBeyond

\* Recording a packet inside the window adds it to what the tracker says.
LEMMA RecordExact ==
    ASSUME NEW t, NEW D, NEW B, Records(t, D, B),
           NEW n \in 0 .. MaxSend - 1, B <= n, n < B + TrackerBits
    PROVE  \E b \in 0 .. MaxSend : Records(Record(t, n), D \cup {n}, b)
  <1>1. B \in Nat /\ n \in Int /\ t.base = B /\ TrackerBits \in Nat /\ n >= 0
        /\ D \subseteq 0 .. MaxSend - 1 /\ t \in Tracker /\ MaxSend \in Nat
        /\ (\A d \in D : d < B + TrackerBits)
    BY Ranges DEF Records
  <1>2. PICK a \in 0 .. TrackerBits :
              /\ Advance(t, n) = a
              /\ B + a \notin D \cup {n}
              /\ 0 .. B + a - 1 \subseteq D \cup {n}
    BY AdvanceIs
  <1> DEFINE r == Record(t, n)
             E == D \cup {n}
  <1>3. PICK b : b = B + a
    OBVIOUS
  <1>4. b \in 0 .. MaxSend
    <2>1. SUFFICES ASSUME b > MaxSend PROVE FALSE
      BY <1>1, <1>3
    <2>2. MaxSend \in 0 .. B + a - 1
      BY <1>1, <1>3, <2>1
    <2>3. MaxSend \in D \cup {n}
      BY <1>2, <2>2
    <2> QED  BY <1>1, <2>3
  <1>5. r.base = b
    <2>1. b % SeqSpace = b
      BY <1>4, NumberIs
    <2> QED  BY <1>1, <1>2, <1>3, <2>1 DEF Record
  <1>6. r.seen = {Slot(d) : d \in {m \in E : m > b}}
    <2>1. r.seen = BitsLeft(t, n, a)
      BY <1>2 DEF Record, BitsLeft
    <2>2. BitsLeft(t, n, a) = BitsBeyond(D \cup {n}, B + a)
      BY <1>2, BitsAfter
    <2> QED  BY <1>3, <2>1, <2>2 DEF BitsBeyond
  <1>7. r \in Tracker
    <2>1. r.base \in Sequence
      BY <1>4, <1>5, NumberIs
    <2>2. r.hwm \in Sequence
      <3>1. n \in 0 .. MaxSend
        BY <1>1
      <3>2. n \in Sequence /\ t.hwm \in Sequence
        BY <1>1, <3>1, NumberIs DEF Tracker
      <3> QED  BY <3>2 DEF Record
    <2>3. r.seen \subseteq Slots
      <3>1. \A d \in E : d \in Int
        BY <1>1
      <3> QED  BY <1>6, <3>1, SlotType
    <2>4. r = [base |-> r.base, hwm |-> r.hwm, seen |-> r.seen]
      BY DEF Record
    <2> HIDE DEF r
    <2> QED  BY <2>1, <2>2, <2>3, <2>4 DEF Tracker
  <1>8. b \notin E /\ 0 .. b - 1 \subseteq E /\ E \subseteq 0 .. MaxSend - 1
    BY <1>1, <1>2, <1>3
  <1>9. \A d \in E : d < b + TrackerBits
    BY <1>1, <1>3
  <1> HIDE DEF r, E
  <1>10. Records(r, E, b)
    BY <1>4, <1>5, <1>6, <1>7, <1>8, <1>9 DEF Records
  <1> QED  BY <1>4, <1>10 DEF r, E

\* A packet that arrives, unless it is an original one from outside the window:
\* noteSeen records it, and finds out whether it is a duplicate.
LEMMA NoteSeenExact ==
    ASSUME NEW t, NEW D, NEW B, Records(t, D, B),
           NEW n \in 0 .. MaxSend - 1, n < B + TrackerBits,
           NEW resent, resent \/ B <= n
    PROVE  /\ \E b \in 0 .. MaxSend : Records(NoteSeen(t, n, resent), D \cup {n}, b)
           /\ D \cup (IF IsDuplicate(t, n, resent) THEN {} ELSE {n}) = D \cup {n}
  <1>0. B \in 0 .. MaxSend /\ MaxSend \in Nat
    BY Ranges DEF Records
  <1>1. CASE B <= n
    <2>1. CanRecord(t, n) /\ (Slot(n) \in t.seen <=> n \in D)
      BY <1>1, InsideWindow
    <2>2. NoteSeen(t, n, resent) = Record(t, n)
      BY <2>1 DEF NoteSeen
    <2>3. \E b \in 0 .. MaxSend : Records(Record(t, n), D \cup {n}, b)
      BY <1>1, RecordExact
    <2>4. IsDuplicate(t, n, resent) <=> n \in D
      BY <2>1 DEF IsDuplicate
    <2> QED  BY <2>2, <2>3, <2>4
  <1>2. CASE ~(B <= n)
    <2>1. ~CanRecord(t, n) /\ n \in D /\ resent
      BY <1>0, <1>2, OutsideWindow
    <2>2. NoteSeen(t, n, resent) = t
      BY <2>1 DEF NoteSeen
    <2>3. D \cup {n} = D /\ D \cup {} = D
      BY <2>1
    <2> QED  BY <1>0, <2>1, <2>2, <2>3
  <1> QED  BY <1>1, <1>2

-----------------------------------------------------------------------------
(* Parts of a sequence.                                                       *)

\* h lists the m numbers of I from the least to the greatest.
Enumerates(h, m, I) ==
    /\ m \in Nat
    /\ h \in [1 .. m -> I]
    /\ \A j, k \in 1 .. m : j < k => h[j] < h[k]
    /\ \A i \in I : \E j \in 1 .. m : h[j] = i

\* The position that KeepAt takes its j-th element from.
Nth(I, j) == CHOOSE i \in I : Cardinality({x \in I : x < i}) = j - 1

\* Those positions are all of them, in their order.
LEMMA NthEnumerates ==
    ASSUME NEW I \in SUBSET Int, IsFiniteSet(I)
    PROVE  Enumerates([j \in 1 .. Cardinality(I) |-> Nth(I, j)], Cardinality(I), I)
  <1> DEFINE Below(i) == {x \in I : x < i}
             c == Cardinality(I)
             rank == [i \in I |-> Cardinality(Below(i))]
  <1>1. IsFiniteSet(I) /\ c \in Nat
    BY FS_CardinalityType
  <1>2. ASSUME NEW i \in I PROVE IsFiniteSet(Below(i)) /\ Cardinality(Below(i)) \in 0 .. c - 1
    <2>1. Below(i) \in SUBSET I /\ i \notin Below(i)
      OBVIOUS
    <2>2. IsFiniteSet(Below(i)) /\ Cardinality(Below(i)) <= c /\ (c = Cardinality(Below(i)) => I = Below(i))
      BY <1>1, <2>1, FS_Subset
    <2>3. Cardinality(Below(i)) \in Nat
      BY <2>2, FS_CardinalityType
    <2> HIDE DEF Below
    <2> QED  BY <1>1, <2>1, <2>2, <2>3
  <1>3. ASSUME NEW x \in I, NEW y \in I, x < y
        PROVE  Cardinality(Below(x)) < Cardinality(Below(y))
    <2>1. Below(x) \in SUBSET Below(y) /\ x \in Below(y) /\ x \notin Below(x)
      <3>1. x \in Int /\ y \in Int /\ \A z \in I : z \in Int
        OBVIOUS
      <3>2. ~(x < x) /\ \A z \in I : z < x => z < y
        BY <1>3, <3>1
      <3> QED  BY <1>3, <3>2
    <2>2. IsFiniteSet(Below(y)) /\ Cardinality(Below(y)) \in Nat /\ Cardinality(Below(x)) \in Nat
      BY <1>2
    <2> HIDE DEF Below
    <2>3. Cardinality(Below(x)) <= Cardinality(Below(y))
          /\ (Cardinality(Below(y)) = Cardinality(Below(x)) => Below(y) = Below(x))
      BY <2>1, <2>2, FS_Subset
    <2> QED  BY <2>1, <2>2, <2>3
  <1>4. ASSUME NEW x \in I, NEW y \in I, x # y
        PROVE  Cardinality(Below(x)) # Cardinality(Below(y))
    <2>1. PICK p, q : p = Cardinality(Below(x)) /\ q = Cardinality(Below(y))
      OBVIOUS
    <2>2. p \in 0 .. c - 1 /\ q \in 0 .. c - 1
      BY <1>2, <2>1
    <2>3. x < y \/ y < x
      BY <1>4
    <2>4. p < q \/ q < p
      BY <1>3, <2>1, <2>3
    <2>5. p # q
      BY <1>1, <2>2, <2>4
    <2> QED  BY <2>1, <2>5
  <1>5. ASSUME NEW i \in 0 .. c - 1 PROVE \E e \in I : Cardinality(Below(e)) = i
    <2>1. SUFFICES ASSUME \A e \in I : Cardinality(Below(e)) # i PROVE FALSE
      OBVIOUS
    <2> DEFINE T == (0 .. c - 1) \ {i}
    <2>2. rank \in [I -> T]
      BY <1>2, <2>1
    <2>3. IsFiniteSet(T) /\ Cardinality(T) < c
      <3>1. IsFiniteSet(0 .. c - 1) /\ Cardinality(0 .. c - 1) = c
        BY <1>1, FS_Interval
      <3>2. IsFiniteSet(T) /\ Cardinality(T) = Cardinality(0 .. c - 1) - 1
        BY <3>1, FS_RemoveElement
      <3> QED  BY <1>1, <3>1, <3>2
    <2>4. \A x, y \in I : x # y => rank[x] # rank[y]
      BY <1>4
    <2> HIDE DEF T, rank
    <2>5. \E x, y \in I : x # y /\ rank[x] = rank[y]
      BY <1>1, <2>2, <2>3, FS_PigeonHole
    <2> QED  BY <2>4, <2>5
  <1> DEFINE h == [j \in 1 .. c |-> Nth(I, j)]
  <1>6. ASSUME NEW j \in 1 .. c PROVE h[j] \in I /\ Cardinality(Below(h[j])) = j - 1
    <2>1. j - 1 \in 0 .. c - 1
      BY <1>1
    <2>2. \E e \in I : Cardinality(Below(e)) = j - 1
      BY <1>5, <2>1
    <2>3. Nth(I, j) = CHOOSE e \in I : Cardinality(Below(e)) = j - 1
      BY DEF Nth
    <2>4. h[j] = Nth(I, j)
      OBVIOUS
    <2> HIDE DEF Below, h
    <2> QED  BY <2>2, <2>3, <2>4
  <1>7. h \in [1 .. c -> I]
    <2> HIDE DEF c
    <2> QED  BY <1>6
  <1>8. ASSUME NEW j \in 1 .. c, NEW k \in 1 .. c, j < k PROVE h[j] < h[k]
    <2>1. PICK x, y : x = h[j] /\ y = h[k]
      OBVIOUS
    <2>2. x \in I /\ y \in I /\ Cardinality(Below(x)) = j - 1 /\ Cardinality(Below(y)) = k - 1
      BY <1>6, <2>1
    <2>3. j \in Int /\ k \in Int /\ x \in Int /\ y \in Int
      BY <1>1, <2>2
    <2> HIDE DEF Below, h
    <2>4. x # y
      BY <1>8, <2>2, <2>3
    <2>5. ~(y < x)
      <3>1. ASSUME y < x PROVE FALSE
        <4>1. Cardinality(Below(y)) < Cardinality(Below(x))
          BY <1>3, <2>2, <3>1
        <4> QED  BY <1>8, <2>2, <2>3, <4>1
      <3> QED  BY <3>1
    <2> QED  BY <2>1, <2>3, <2>4, <2>5
  <1>9. ASSUME NEW i \in I PROVE \E j \in 1 .. c : h[j] = i
    <2>1. PICK r \in 0 .. c - 1 : Cardinality(Below(i)) = r
      BY <1>2
    <2>2. r + 1 \in 1 .. c /\ (r + 1) - 1 = r
      BY <1>1
    <2>3. PICK j : j = r + 1
      OBVIOUS
    <2>4. j \in 1 .. c /\ h[j] \in I /\ Cardinality(Below(h[j])) = r
      BY <1>6, <2>2, <2>3
    <2> HIDE DEF Below, h
    <2>5. h[j] = i
      BY <1>4, <2>1, <2>4
    <2> QED  BY <2>4, <2>5
  <1> HIDE DEF h, c
  <1>10. Enumerates(h, c, I)
    BY <1>1, <1>7, <1>8, <1>9 DEF Enumerates
  <1> QED  BY <1>10 DEF h, c

\* There is only one way to list them: two lists agree as far as both go,
LEMMA EnumerationsAgree ==
    ASSUME NEW I \in SUBSET Int, NEW h, NEW m, Enumerates(h, m, I),
           NEW g, NEW l, Enumerates(g, l, I), NEW i \in 1 .. m, i \in 1 .. l
    PROVE  h[i] = g[i]
  <1> DEFINE Bad == {j \in 1 .. m : j \in 1 .. l /\ h[j] # g[j]}
  <1>1. SUFFICES ASSUME Bad # {} PROVE FALSE
    BY <1>1
  <1>2. m \in Nat /\ l \in Nat /\ h \in [1 .. m -> I] /\ g \in [1 .. l -> I]
    BY DEF Enumerates
  <1>3. PICK j \in Bad : \A k \in Bad : j <= k
    <2>1. Bad \subseteq Nat
      BY <1>2
    <2> HIDE DEF Bad
    <2> QED  BY <1>1, <2>1, LeastNumber
  <1>4. j \in 1 .. m /\ j \in 1 .. l /\ h[j] # g[j] /\ h[j] \in Int /\ g[j] \in Int
        /\ h[j] \in I /\ g[j] \in I
    BY <1>2
  <1>5. \A k \in 1 .. j - 1 : k \in 1 .. m /\ k \in 1 .. l /\ h[k] = g[k]
    <2>1. SUFFICES ASSUME NEW k \in 1 .. j - 1 PROVE k \in 1 .. m /\ k \in 1 .. l /\ h[k] = g[k]
      OBVIOUS
    <2>2. k \in 1 .. m /\ k \in 1 .. l /\ k < j
      BY <1>2, <1>4
    <2>3. k \notin Bad
      BY <1>2, <1>3, <1>4, <2>2
    <2> QED  BY <2>2, <2>3
  <1> HIDE DEF Bad
  <1>6. ASSUME h[j] < g[j] PROVE FALSE
    <2>1. PICK k \in 1 .. l : g[k] = h[j]
      BY <1>4 DEF Enumerates
    <2>2. k < j
      <3>0. ASSUME j < k PROVE g[j] < g[k]
        BY <1>4, <3>0 DEF Enumerates
      <3>1. ~(j < k)
        BY <1>4, <1>6, <2>1, <3>0
      <3>2. k # j
        BY <1>4, <2>1
      <3> QED  BY <1>2, <1>4, <3>1, <3>2
    <2>3. k \in 1 .. j - 1
      BY <1>2, <1>4, <2>2
    <2>4. k \in 1 .. m /\ h[k] = h[j]
      BY <1>5, <2>1, <2>3
    <2>5. h[k] < h[j]
      BY <1>4, <2>2, <2>4 DEF Enumerates
    <2>6. PICK v : v = h[j]
      OBVIOUS
    <2>7. v \in Int /\ v < v
      BY <1>4, <2>4, <2>5, <2>6
    <2> QED  BY <2>7
  <1>7. ASSUME g[j] < h[j] PROVE FALSE
    <2>1. PICK k \in 1 .. m : h[k] = g[j]
      BY <1>4 DEF Enumerates
    <2>2. k < j
      <3>0. ASSUME j < k PROVE h[j] < h[k]
        BY <1>4, <3>0 DEF Enumerates
      <3>1. ~(j < k)
        BY <1>4, <1>7, <2>1, <3>0
      <3>2. k # j
        BY <1>4, <2>1
      <3> QED  BY <1>2, <1>4, <3>1, <3>2
    <2>3. k \in 1 .. j - 1
      BY <1>2, <1>4, <2>2
    <2>4. k \in 1 .. l /\ g[k] = g[j]
      BY <1>5, <2>1, <2>3
    <2>5. g[k] < g[j]
      BY <1>4, <2>2, <2>4 DEF Enumerates
    <2>6. PICK v : v = g[j]
      OBVIOUS
    <2>7. v \in Int /\ v < v
      BY <1>4, <2>4, <2>5, <2>6
    <2> QED  BY <2>7
  <1> QED  BY <1>4, <1>6, <1>7

\* and neither goes further than the other.
LEMMA EnumerationsEnd ==
    ASSUME NEW I \in SUBSET Int, NEW h, NEW m, Enumerates(h, m, I),
           NEW g, NEW l, Enumerates(g, l, I)
    PROVE  l <= m
  <1>1. m \in Nat /\ l \in Nat /\ h \in [1 .. m -> I] /\ g \in [1 .. l -> I]
    BY DEF Enumerates
  <1>2. SUFFICES ASSUME m < l PROVE FALSE
    BY <1>1
  <1>3. l \in 1 .. l /\ g[l] \in I
    BY <1>1, <1>2
  <1>4. PICK k \in 1 .. m : h[k] = g[l]
    BY <1>3 DEF Enumerates
  <1>5. k \in 1 .. l /\ k < l
    BY <1>1, <1>2
  <1>6. h[k] = g[k]
    BY <1>5, EnumerationsAgree
  <1>7. g[k] < g[l] /\ g[k] \in Int /\ g[l] \in Int
    BY <1>1, <1>3, <1>5 DEF Enumerates
  <1> QED  BY <1>4, <1>6, <1>7

\* The elements at the positions that h lists.
Through(s, h, m) == [j \in 1 .. m |-> s[h[j]]]

\* So any list of the positions tells what is kept.
LEMMA KeepAtIs ==
    ASSUME NEW I \in SUBSET Int, IsFiniteSet(I), NEW s, NEW h, NEW m, Enumerates(h, m, I)
    PROVE  KeepAt(s, I) = Through(s, h, m)
  <1> DEFINE c == Cardinality(I)
             g == [j \in 1 .. c |-> Nth(I, j)]
  <1>1. Enumerates(g, c, I)
    BY NthEnumerates
  <1>2. I \in SUBSET Int /\ m \in Nat /\ c \in Nat
    BY <1>1 DEF Enumerates
  <1>3. KeepAt(s, I) = [j \in 1 .. c |-> s[g[j]]]
    BY DEF KeepAt, Nth
  <1> HIDE DEF c, g
  <1>4. c <= m /\ m <= c
    BY <1>1, <1>2, EnumerationsEnd
  <1>5. c = m
    BY <1>2, <1>4
  <1>6. \A j \in 1 .. m : h[j] = g[j]
    BY <1>1, <1>2, <1>5, EnumerationsAgree
  <1> QED  BY <1>3, <1>5, <1>6 DEF Through

\* The positions in a sequence can be listed.
LEMMA Positions ==
    ASSUME NEW n \in Nat, NEW I \in SUBSET (1 .. n)
    PROVE  I \in SUBSET Int /\ IsFiniteSet(I) /\ Cardinality(I) <= n
  <1>1. IsFiniteSet(1 .. n) /\ Cardinality(1 .. n) = n
    BY FS_Interval
  <1>2. IsFiniteSet(I) /\ Cardinality(I) <= n
    BY <1>1, FS_Subset
  <1>3. I \in SUBSET Int
    OBVIOUS
  <1> QED  BY <1>2, <1>3

\* A finite set of positions can be listed in order.
LEMMA Listed ==
    ASSUME NEW I \in SUBSET Int, IsFiniteSet(I)
    PROVE  \E h : Enumerates(h, Cardinality(I), I)
  BY NthEnumerates

\* What is at the positions that h lists, in one formula.
Selects(S, s, I, h, m) ==
    /\ Through(s, h, m) \in Seq(S)
    /\ Len(Through(s, h, m)) = m
    /\ m \in Nat
    /\ \A j \in 1 .. m : h[j] \in I /\ h[j] \in 1 .. Len(s) /\ Through(s, h, m)[j] = s[h[j]]

\* What is found at listed positions is a sequence.
LEMMA ThroughIs ==
    ASSUME NEW S, NEW s \in Seq(S), NEW I \in SUBSET (1 .. Len(s)), NEW h, NEW m,
           Enumerates(h, m, I)
    PROVE  Selects(S, s, I, h, m)
  <1> DEFINE r == Through(s, h, m)
  <1>1. m \in Nat /\ h \in [1 .. m -> I]
    BY DEF Enumerates
  <1>2. \A j \in 1 .. m : h[j] \in I /\ h[j] \in 1 .. Len(s)
    BY <1>1
  <1>3. \A i \in 1 .. Len(s) : s[i] \in S
    OBVIOUS
  <1>4. r = [j \in 1 .. m |-> s[h[j]]]
    BY DEF Through
  <1> HIDE DEF r
  <1>5. r \in [1 .. m -> S] /\ \A j \in 1 .. m : r[j] = s[h[j]]
    BY <1>2, <1>3, <1>4
  <1>6. r \in Seq(S) /\ Len(r) = m
    BY <1>1, <1>5
  <1> QED  BY <1>1, <1>2, <1>5, <1>6 DEF r, Selects

-----------------------------------------------------------------------------
(* The resend list.                                                           *)

\* The list holds packets before next, all of them within the bitmap's reach
\* from the first one.
Window(l, next) ==
    /\ l \in ResendList
    /\ next \in 0 .. MaxSend
    /\ l.entries \subseteq 0 .. next - 1
    /\ l.entries # {} =>
          /\ l.first \in l.entries
          /\ \A e \in l.entries : l.first <= e
          /\ next <= l.first + TrackerBits

\* The empty list.
LEMMA EmptyWindow == Window(EmptyResendList, 0)
  BY Ranges DEF Window, EmptyResendList, ResendList, Sequence

\* An entry, and how far it is from the start of the list.
LEMMA EntryIs ==
    ASSUME NEW l, NEW next, Window(l, next), NEW e \in l.entries
    PROVE  /\ next \in 0 .. MaxSend /\ e \in 0 .. MaxSend - 1 /\ e < next
           /\ l.first \in 0 .. next - 1 /\ l.first <= e /\ next <= l.first + TrackerBits
           /\ Age(l, e) = e - l.first
           /\ Delta(next, e) = next - e
           /\ Delta(next, l.first) = next - l.first
  <1>1. /\ next \in 0 .. MaxSend /\ e \in 0 .. next - 1
        /\ l.first \in 0 .. next - 1 /\ l.first <= e /\ next <= l.first + TrackerBits
    BY DEF Window
  <1>2. e \in 0 .. MaxSend - 1 /\ e \in 0 .. MaxSend /\ l.first \in 0 .. MaxSend
    BY <1>1, Ranges
  <1>3. Delta(e, l.first) = e - l.first
    BY <1>1, <1>2, DeltaIs
  <1>4. Delta(next, e) = next - e
    <2>1. e <= next
      BY <1>1, Ranges
    <2> QED  BY <1>1, <1>2, <2>1, DeltaIs
  <1>5. Delta(next, l.first) = next - l.first
    <2>1. l.first <= next
      BY <1>1, Ranges
    <2> QED  BY <1>1, <1>2, <2>1, DeltaIs
  <1> QED  BY <1>1, <1>2, <1>3, <1>4, <1>5, Ranges DEF Age

\* Releasing entries moves first to the least one left.
LEMMA NoteReadWindow ==
    ASSUME NEW l, NEW next, Window(l, next), NEW seen, NEW space, NEW due
    PROVE  /\ Window(NoteRead(l, seen, space, due), next)
           /\ NoteRead(l, seen, space, due).entries = l.entries \ Confirmed(l, seen, space, due)
  <1> DEFINE left == l.entries \ Confirmed(l, seen, space, due)
             r == NoteRead(l, seen, space, due)
             f == CHOOSE e \in left : \A x \in left : Age(l, e) <= Age(l, x)
  <1>1. r = [first |-> IF left = {} THEN l.first ELSE f, entries |-> left]
    BY DEF NoteRead
  <1>2. left \subseteq l.entries
    OBVIOUS
  <1> HIDE DEF left
  <1>3. l.first \in Sequence /\ l.entries \in SUBSET Sequence /\ next \in 0 .. MaxSend
        /\ l.entries \subseteq 0 .. next - 1
    BY DEF Window, ResendList
  <1>4. CASE left = {}
    <2>1. r.first = l.first /\ r.entries = {} /\ r = [first |-> l.first, entries |-> {}]
      BY <1>1, <1>4
    <2> HIDE DEF r
    <2>2. Window(r, next)
      BY <1>3, <2>1 DEF Window, ResendList
    <2> QED  BY <1>4, <2>1, <2>2 DEF left, r
  <1>5. CASE left # {}
    <2>1. \A e \in left : e \in 0 .. next - 1 /\ Age(l, e) = e - l.first /\ l.first <= e
                          /\ l.first \in 0 .. next - 1 /\ next <= l.first + TrackerBits
      BY <1>2, <1>3, EntryIs
    <2>2. left \subseteq Nat
      BY <2>1
    <2>3. PICK m \in left : \A k \in left : m <= k
      BY <1>5, <2>2, LeastNumber
    <2>4. \A x \in left : Age(l, m) <= Age(l, x)
      BY <2>1, <2>2, <2>3
    <2>5. f \in left /\ \A x \in left : Age(l, f) <= Age(l, x)
      BY <2>4
    <2> HIDE DEF f, r
    <2>6. r.first = f /\ r.entries = left /\ r = [first |-> f, entries |-> left]
      BY <1>1, <1>5
    <2>7. \A x \in left : f <= x
      <3>1. SUFFICES ASSUME NEW x \in left PROVE f <= x
        OBVIOUS
      <3>2. f \in Int /\ x \in Int /\ l.first \in Int /\ f - l.first <= x - l.first
        <4>1. f \in 0 .. next - 1 /\ Age(l, f) = f - l.first /\ l.first \in 0 .. next - 1
          BY <2>1, <2>5
        <4>2. x \in 0 .. next - 1 /\ Age(l, x) = x - l.first
          BY <2>1
        <4>3. Age(l, f) <= Age(l, x)
          BY <2>5
        <4> QED  BY <4>1, <4>2, <4>3
      <3> QED  BY <3>2
    <2>8. next <= f + TrackerBits /\ f \in Sequence /\ left \in SUBSET Sequence /\ left \subseteq 0 .. next - 1
      <3>1. l.first <= f /\ l.first \in Int /\ f \in Int /\ next <= l.first + TrackerBits
        BY <2>1, <2>5
      <3>2. next <= f + TrackerBits
        BY <1>3, <3>1, Ranges
      <3>3. f \in l.entries
        BY <1>2, <2>5
      <3> QED  BY <1>2, <1>3, <3>2, <3>3
    <2>9. Window(r, next)
      BY <1>3, <2>5, <2>6, <2>7, <2>8 DEF Window, ResendList
    <2> QED  BY <2>6, <2>9 DEF left, r
  <1> QED  BY <1>4, <1>5

\* There is room for k more packets.
RoomFor(l, next, k) ==
    /\ k \in Nat /\ next + k <= MaxSend
    /\ IF l.entries = {} THEN k <= TrackerBits ELSE next + k <= l.first + TrackerBits

\* Appending packets that there is room for.
LEMMA AppendWindow ==
    ASSUME NEW l, NEW next, Window(l, next), NEW k, RoomFor(l, next, k)
    PROVE  /\ Window(AppendRange(l, next, k), next + k)
           /\ AppendRange(l, next, k).entries = l.entries \cup (next .. next + k - 1)
           /\ k = 0 => AppendRange(l, next, k) = l
  <1> DEFINE r == AppendRange(l, next, k)
             N == {(next + i) % SeqSpace : i \in 0 .. k - 1}
             f == IF l.entries = {} /\ k > 0 THEN next % SeqSpace ELSE l.first
  <1>1. k \in Nat /\ next + k <= MaxSend /\ next \in 0 .. MaxSend
        /\ l.first \in Sequence /\ l.entries \in SUBSET Sequence /\ l.entries \subseteq 0 .. next - 1
        /\ l = [first |-> l.first, entries |-> l.entries]
    BY DEF Window, RoomFor, ResendList
  <1>2. \A i \in 0 .. k - 1 : (next + i) % SeqSpace = next + i /\ next + i \in Sequence
    <2>1. SUFFICES ASSUME NEW i \in 0 .. k - 1
                   PROVE  (next + i) % SeqSpace = next + i /\ next + i \in Sequence
      OBVIOUS
    <2>2. next + i \in 0 .. MaxSend
      BY <1>1, Ranges
    <2> QED  BY <2>2, NumberIs
  <1>3. N = next .. next + k - 1
    <2>1. N = {next + i : i \in 0 .. k - 1}
      BY <1>2
    <2>2. \A x \in next .. next + k - 1 : x - next \in 0 .. k - 1 /\ x = next + (x - next)
      BY <1>1
    <2>3. \A i \in 0 .. k - 1 : next + i \in next .. next + k - 1
      BY <1>1
    <2> HIDE DEF N
    <2> QED  BY <2>1, <2>2, <2>3
  <1>4. next % SeqSpace = next /\ next \in Sequence
    BY <1>1, NumberIs
  <1>5. r = [first |-> f, entries |-> l.entries \cup N]
    BY DEF AppendRange
  <1>6. f = IF l.entries = {} /\ k > 0 THEN next ELSE l.first
    BY <1>4
  <1>7. N \subseteq Sequence
    BY <1>2
  <1> HIDE DEF r, N, f
  <1>8. r.first = f /\ r.entries = l.entries \cup (next .. next + k - 1)
    BY <1>3, <1>5
  <1>9. r \in ResendList
    BY <1>1, <1>4, <1>5, <1>6, <1>7 DEF ResendList
  <1>10. \A e \in r.entries : e \in 0 .. next + k - 1
    BY <1>1, <1>8
  <1>11. CASE l.entries = {} /\ k > 0
    <2>1. next \in r.entries /\ (\A e \in r.entries : next <= e) /\ k <= TrackerBits /\ f = next
      BY <1>1, <1>6, <1>8, <1>11 DEF RoomFor
    <2>2. Window(r, next + k)
      BY <1>1, <1>8, <1>9, <1>10, <2>1, Ranges DEF Window
    <2> QED  BY <1>8, <1>11, <2>2, <1>1 DEF r
  <1>12. CASE l.entries = {} /\ ~(k > 0)
    <2>1. k = 0 /\ next + k = next /\ next .. next + k - 1 = {}
      BY <1>1, <1>12
    <2>2. r.entries = {} /\ r = l
      BY <1>1, <1>3, <1>5, <1>6, <1>8, <1>12, <2>1
    <2> QED  BY <1>8, <2>1, <2>2 DEF r
  <1>13. CASE l.entries # {}
    <2>1. f = l.first /\ l.first \in l.entries /\ (\A e \in l.entries : l.first <= e)
          /\ next + k <= l.first + TrackerBits
      BY <1>6, <1>13 DEF Window, RoomFor
    <2>2. \A e \in r.entries : f <= e
      BY <1>1, <1>8, <2>1
    <2>3. next + k \in 0 .. MaxSend
      BY <1>1, Ranges
    <2>4. f \in r.entries
      BY <1>8, <2>1
    <2>5. Window(r, next + k)
      <3>1. PICK b : b = next + k
        OBVIOUS
      <3>2. r.first = f /\ b <= f + TrackerBits
        BY <1>8, <2>1, <3>1
      <3>3. r.entries \subseteq 0 .. b - 1
        BY <1>1, <1>10, <3>1
      <3>4. Window(r, b)
        BY <1>9, <2>2, <2>3, <2>4, <3>1, <3>2, <3>3 DEF Window
      <3> QED  BY <3>1, <3>4
    <2>6. k = 0 => r = l
      <3>1. k = 0 => next .. next + k - 1 = {}
        BY <1>1
      <3> QED  BY <1>1, <1>3, <1>5, <2>1, <3>1
    <2> QED  BY <1>8, <2>5, <2>6 DEF r
  <1> QED  BY <1>11, <1>12, <1>13

\* What sendData may send fits the list.
LEMMA LimitIs ==
    ASSUME NEW l, NEW next, Window(l, next), NEW space \in 0 .. MaxStart,
           NEW resending \in Nat
    PROVE  /\ NewPacketLimit(l, next, space, resending) \in 0 .. MaxStart
           /\ \A k \in Nat : /\ k <= NewPacketLimit(l, next, space, resending)
                             /\ next + k <= MaxSend
                             => RoomFor(l, next, k)
  <1> DEFINE left == IF resending <= space THEN space - resending ELSE 0
             limit == NewPacketLimit(l, next, space, resending)
  <1>1. left \in 0 .. MaxStart /\ next \in 0 .. MaxSend /\ MaxStart <= TrackerBits
    BY Ranges DEF Window
  <1>2. CASE l.entries = {}
    <2>1. limit = left
      BY <1>2 DEF NewPacketLimit
    <2> HIDE DEF left, limit
    <2> QED  BY <1>1, <1>2, <2>1, Ranges DEF RoomFor, limit
  <1>3. CASE l.entries # {}
    <2>1. PICK e : e \in l.entries
      BY <1>3
    <2>2. Delta(next, l.first) = next - l.first /\ l.first \in 0 .. next - 1 /\ next <= l.first + TrackerBits
      BY <2>1, EntryIs
    <2>3. limit = IF left > TrackerBits - (next - l.first) THEN TrackerBits - (next - l.first) ELSE left
      BY <1>3, <2>2 DEF NewPacketLimit
    <2> HIDE DEF left, limit
    <2>4. limit \in 0 .. MaxStart /\ limit <= TrackerBits - (next - l.first)
      BY <1>1, <2>2, <2>3, Ranges
    <2>5. \A k \in Nat : k <= limit => next + k <= l.first + TrackerBits
      BY <1>1, <2>2, <2>4, Ranges
    <2> QED  BY <1>3, <2>4, <2>5 DEF RoomFor, limit
  <1> QED  BY <1>2, <1>3

\* Neither the throw nor the assert of append is met.
LEMMA AppendNeverFails ==
    ASSUME NEW l, NEW next, Window(l, next), NEW k, RoomFor(l, next, k)
    PROVE  ~AppendRangeFails(l, next, k)
  <1>0. k \in Nat /\ next \in 0 .. MaxSend /\ next + k <= MaxSend /\ MaxSend \in Nat
    BY Ranges DEF RoomFor, Window
  <1>1. SUFFICES ASSUME NEW i \in 0 .. k - 1,
                        AppendFails(AppendRange(l, next, i), (next + i) % SeqSpace)
                 PROVE  FALSE
    BY DEF AppendRangeFails
  <1>2. PICK r : r = AppendRange(l, next, i)
    OBVIOUS
  <1>3. PICK n : n = next + i
    OBVIOUS
  <1>4. n \in 0 .. MaxSend /\ n % SeqSpace = n /\ n < next + k /\ i \in Nat
    <2>1. n \in 0 .. MaxSend /\ n < next + k /\ i \in Nat
      BY <1>0, <1>3
    <2> QED  BY <2>1, NumberIs
  <1>5. RoomFor(l, next, i)
    BY <1>0, Ranges DEF RoomFor, Window
  <1>6. Window(r, n) /\ r.entries = l.entries \cup (next .. next + i - 1)
    BY <1>2, <1>3, <1>5, AppendWindow
  <1>7. ASSUME NEW e \in r.entries
        PROVE  Delta(n, r.first) < TrackerBits /\ Slot(e) # Slot(n)
    <2>1. n \in 0 .. MaxSend /\ e < n /\ r.first \in 0 .. n - 1 /\ r.first <= e
          /\ Delta(n, r.first) = n - r.first /\ e \in 0 .. MaxSend - 1
      BY <1>6, EntryIs
    <2>2. n < r.first + TrackerBits
      <3>1. CASE l.entries = {}
        <4>1. k <= TrackerBits
          BY <3>1 DEF RoomFor
        <4>2. i > 0
          BY <1>0, <1>6, <3>1
        <4>3. r.first = next
          <5>1. r.first = next % SeqSpace
            BY <1>2, <3>1, <4>2 DEF AppendRange
          <5> QED  BY <1>0, <5>1, NumberIs
        <4> QED  BY <1>0, <1>3, <4>1, <4>3, Ranges
      <3>2. CASE l.entries # {}
        <4>1. next + k <= l.first + TrackerBits
          BY <3>2 DEF RoomFor
        <4>2. r.first = l.first
          BY <1>2, <3>2 DEF AppendRange
        <4> QED  BY <1>0, <1>4, <2>1, <4>1, <4>2, Ranges
      <3> QED  BY <3>1, <3>2
    <2>3. e \in Int /\ n \in Int /\ n < e + TrackerBits
      BY <2>1, <2>2, Ranges
    <2>4. Slot(e) # Slot(n)
      BY <2>1, <2>3, SlotsDiffer
    <2> QED  BY <2>1, <2>2, <2>4, Ranges
  <1>8. AppendFails(r, n)
    BY <1>1, <1>2, <1>3, <1>4
  <1> QED  BY <1>7, <1>8 DEF AppendFails, CanRecordEntry


\* The packets resent are in the order of their numbers.
LEMMA InOrderIs ==
    ASSUME NEW l, NEW next, Window(l, next), NEW es \in SUBSET l.entries
    PROVE  /\ InOrder(l, es) \in Seq(es)
           /\ Len(InOrder(l, es)) = Cardinality(es)
           /\ Cardinality(es) \in Nat
           /\ \A i \in 1 .. Len(InOrder(l, es)) : InOrder(l, es)[i] \in 0 .. next - 1
  <1> DEFINE c == Cardinality(es)
             h == [j \in 1 .. c |-> Nth(es, j)]
  <1>1. \A e \in es : e \in 0 .. next - 1
    BY DEF Window
  <1>2. es \in SUBSET Int /\ IsFiniteSet(es)
    <2>1. IsFiniteSet(0 .. next - 1)
      BY Ranges, FS_Interval DEF Window
    <2>2. IsFiniteSet(es)
      BY <1>1, <2>1, FS_Subset
    <2> QED  BY <1>1, <2>2
  <1>3. Enumerates(h, c, es)
    BY <1>2, NthEnumerates
  <1>4. \A x, e \in es : Age(l, x) < Age(l, e) <=> x < e
    <2>1. SUFFICES ASSUME NEW x \in es, NEW e \in es
                   PROVE  Age(l, x) < Age(l, e) <=> x < e
      OBVIOUS
    <2>2. Age(l, x) = x - l.first /\ l.first \in 0 .. next - 1 /\ x \in 0 .. MaxSend - 1
      BY EntryIs
    <2>3. Age(l, e) = e - l.first /\ e \in 0 .. MaxSend - 1
      BY EntryIs
    <2> QED  BY <2>2, <2>3
  <1>5. \A e \in es : {x \in es : Age(l, x) < Age(l, e)} = {x \in es : x < e}
    BY <1>4
  <1>6. \A j \in 1 .. c : Nth(es, j) = CHOOSE e \in es : Cardinality({x \in es : Age(l, x) < Age(l, e)}) = j - 1
    BY <1>5 DEF Nth
  <1>7. InOrder(l, es) = h
    BY <1>6 DEF InOrder
  <1> HIDE DEF h, c
  <1>8. c \in Nat /\ h \in [1 .. c -> es]
    BY <1>3 DEF Enumerates
  <1>9. h \in Seq(es) /\ Len(h) = c
    BY <1>8
  <1>10. \A i \in 1 .. c : h[i] \in 0 .. next - 1
    BY <1>1, <1>8
  <1> QED  BY <1>7, <1>8, <1>9, <1>10 DEF c

-----------------------------------------------------------------------------
(* Messages.                                                                  *)

FlowMessage == [cmd : {"request_to_send", "send_completed", "request_to_send_more"},
                flowSeq : Sequence]
DataMessage == [cmd : {"data"}, n : 0 .. MaxSend - 1, resent : BOOLEAN]
Message     == FlowMessage \cup DataMessage
OkToSend    == [flowSeq : Sequence, max_data : 0 .. MaxStart, seen : Tracker]
Permit      == [flowSeq : Sequence, slots : 0 .. MaxSlotsPerSender]
Entries     == [state : {"idle", "requested", "granted"}, flowSeq : Sequence, active : Seq(Permit)]

\* The command tells a packet from a flow message.
LEMMA MessageIs ==
    ASSUME NEW m \in Message
    PROVE  IF m.cmd = "data" THEN m \in DataMessage ELSE m \in FlowMessage
  BY DEF Message, FlowMessage, DataMessage

\* Taking a message off a socket shifts those behind it.
LEMMA RemoveAtIs ==
    ASSUME NEW S, NEW s \in Seq(S), NEW i \in 1 .. Len(s)
    PROVE  /\ RemoveAt(s, i) \in Seq(S)
           /\ Len(RemoveAt(s, i)) = Len(s) - 1
           /\ \A k \in 1 .. Len(s) - 1 : RemoveAt(s, i)[k] = IF k < i THEN s[k] ELSE s[k + 1]
  <1> DEFINE a == SubSeq(s, 1, i - 1)
             b == SubSeq(s, i + 1, Len(s))
  <1>0. Len(s) \in Nat /\ i \in Nat
    OBVIOUS
  <1>1. a \in Seq(S) /\ Len(a) = i - 1 /\ \A k \in 1 .. i - 1 : a[k] = s[k]
    OBVIOUS
  <1>2. b \in Seq(S) /\ Len(b) = Len(s) - i /\ \A k \in 1 .. Len(s) - i : b[k] = s[i + k]
    OBVIOUS
  <1>3. RemoveAt(s, i) = a \o b
    BY DEF RemoveAt
  <1> HIDE DEF a, b
  <1>4. a \o b \in Seq(S) /\ Len(a \o b) = Len(s) - 1
    <2>1. a \o b \in Seq(S) /\ Len(a \o b) = Len(a) + Len(b)
      BY <1>1, <1>2, ConcatProperties
    <2>2. Len(a) + Len(b) = Len(s) - 1
      BY <1>0, <1>1, <1>2
    <2> QED  BY <2>1, <2>2
  <1>5. ASSUME NEW k \in 1 .. Len(s) - 1 PROVE (a \o b)[k] = IF k < i THEN s[k] ELSE s[k + 1]
    <2>1. CASE k < i
      BY <1>1, <1>2, <2>1
    <2>2. CASE k >= i
      <3>1. (a \o b)[k] = b[k - (i - 1)]
        BY <1>1, <1>2, <2>2
      <3>2. k - (i - 1) \in 1 .. Len(s) - i /\ i + (k - (i - 1)) = k + 1
        BY <2>2
      <3>3. b[k - (i - 1)] = s[k + 1]
        BY <1>2, <3>2
      <3> QED  BY <2>2, <3>1, <3>3
    <2>3. k < i \/ k >= i
      BY <1>0
    <2> QED  BY <2>1, <2>2, <2>3
  <1> QED  BY <1>3, <1>4, <1>5

\* The first message is taken off the socket.
LEMMA TailIs ==
    ASSUME NEW S, NEW s \in Seq(S), s # <<>>
    PROVE  /\ Len(s) \in Nat \ {0}
           /\ Tail(s) = RemoveAt(s, 1)
           /\ Head(s) = s[1] /\ s[1] \in S
  <1>1. Len(s) \in Nat \ {0} /\ Head(s) = s[1] /\ s[1] \in S
    OBVIOUS
  <1>2. SubSeq(s, 1, 0) = <<>>
    OBVIOUS
  <1>3. Tail(s) = SubSeq(s, 2, Len(s)) /\ Tail(s) \in Seq(S)
    BY <1>1
  <1>4. RemoveAt(s, 1) = <<>> \o Tail(s)
    BY <1>2, <1>3 DEF RemoveAt
  <1>5. <<>> \o Tail(s) = Tail(s)
    BY <1>3
  <1> QED  BY <1>1, <1>4, <1>5

\* Every permit reports packets that have been delivered, and reports them
\* exactly as they were when it was written.
PermitSound(t, D) == \E C \in SUBSET D, B \in 0 .. MaxSend : Records(t, C, B)
AllSound(ps, D)   == \A i \in DOMAIN ps : PermitSound(ps[i].seen, D)

\* It stays so when more is delivered, when a permit is taken from the socket,
LEMMA SoundGrows ==
    ASSUME NEW ps, NEW D, NEW E, AllSound(ps, D), D \subseteq E
    PROVE  AllSound(ps, E)
  <1>1. SUFFICES ASSUME NEW i \in DOMAIN ps PROVE PermitSound(ps[i].seen, E)
    BY DEF AllSound
  <1>2. PICK C \in SUBSET D, B \in 0 .. MaxSend : Records(ps[i].seen, C, B)
    BY DEF AllSound, PermitSound
  <1>3. C \in SUBSET E
    OBVIOUS
  <1> QED  BY <1>2, <1>3 DEF PermitSound

\* Taking a permit off the socket leaves sound permits.
LEMMA SoundRemove ==
    ASSUME NEW ps \in Seq(OkToSend), NEW D, AllSound(ps, D), NEW i \in 1 .. Len(ps)
    PROVE  RemoveAt(ps, i) \in Seq(OkToSend) /\ AllSound(RemoveAt(ps, i), D)
  <1> DEFINE r == RemoveAt(ps, i)
  <1>1. r \in Seq(OkToSend) /\ Len(r) = Len(ps) - 1 /\ Len(ps) \in Nat
        /\ \A k \in 1 .. Len(ps) - 1 : r[k] = IF k < i THEN ps[k] ELSE ps[k + 1]
    BY RemoveAtIs
  <1> HIDE DEF r
  <1>2. \A k \in DOMAIN r : \E j \in DOMAIN ps : r[k] = ps[j]
    <2>1. DOMAIN r = 1 .. Len(ps) - 1 /\ DOMAIN ps = 1 .. Len(ps)
      BY <1>1
    <2>2. SUFFICES ASSUME NEW k \in 1 .. Len(ps) - 1 PROVE \E j \in 1 .. Len(ps) : r[k] = ps[j]
      BY <2>1
    <2>3. k \in 1 .. Len(ps) /\ k + 1 \in 1 .. Len(ps)
      BY <1>1
    <2> QED  BY <1>1, <2>3
  <1>3. AllSound(r, D)
    BY <1>2 DEF AllSound
  <1> QED  BY <1>1, <1>3 DEF r

\* and when one is written.
LEMMA SoundAppend ==
    ASSUME NEW ps \in Seq(OkToSend), NEW D, AllSound(ps, D), NEW p \in OkToSend, PermitSound(p.seen, D)
    PROVE  Append(ps, p) \in Seq(OkToSend) /\ AllSound(Append(ps, p), D)
  <1> DEFINE r == Append(ps, p)
  <1>1. r \in Seq(OkToSend) /\ Len(r) = Len(ps) + 1 /\ Len(ps) \in Nat
        /\ (\A k \in 1 .. Len(ps) : r[k] = ps[k]) /\ r[Len(ps) + 1] = p
    OBVIOUS
  <1>2. DOMAIN r = 1 .. Len(ps) + 1 /\ DOMAIN ps = 1 .. Len(ps)
    OBVIOUS
  <1> HIDE DEF r
  <1>3. SUFFICES ASSUME NEW k \in DOMAIN r PROVE PermitSound(r[k].seen, D)
    BY <1>1 DEF AllSound, r
  <1>4. CASE k = Len(ps) + 1
    BY <1>1, <1>4
  <1>5. CASE k # Len(ps) + 1
    <2>1. k \in 1 .. Len(ps)
      BY <1>1, <1>2, <1>5
    <2> QED  BY <1>1, <1>2, <2>1 DEF AllSound
  <1> QED  BY <1>4, <1>5

\* The packets on the data socket: an original one comes after all those
\* before it, and after everything that has been delivered.
WireOrdered(w, D, next) ==
    \A i \in DOMAIN w : w[i].cmd = "data" =>
        /\ w[i].n \in 0 .. next - 1
        /\ ~w[i].resent => /\ \A d \in D : d < w[i].n
                           /\ \A j \in 1 .. i - 1 : w[j].cmd = "data" => w[j].n < w[i].n

\* A message that is lost or read leaves the others in order,
LEMMA RemoveOrdered ==
    ASSUME NEW w \in Seq(Message), NEW D, NEW next, WireOrdered(w, D, next), NEW i \in 1 .. Len(w)
    PROVE  WireOrdered(RemoveAt(w, i), D, next)
  <1> DEFINE r == RemoveAt(w, i)
             At(k) == IF k < i THEN k ELSE k + 1
  <1>1. DOMAIN r = 1 .. Len(w) - 1 /\ DOMAIN w = 1 .. Len(w) /\ Len(w) \in Nat
    BY RemoveAtIs
  <1>2. \A k \in 1 .. Len(w) - 1 : At(k) \in 1 .. Len(w) /\ r[k] = w[At(k)]
    <2>1. \A k \in 1 .. Len(w) - 1 : r[k] = IF k < i THEN w[k] ELSE w[k + 1]
      BY RemoveAtIs
    <2> HIDE DEF r
    <2> QED  BY <1>1, <2>1
  <1>3. \A k \in 1 .. Len(w) - 1 : \A j \in 1 .. k - 1 :
           j \in 1 .. Len(w) - 1 /\ At(j) \in 1 .. At(k) - 1
    BY <1>1
  <1> HIDE DEF r, At
  <1>4. WireOrdered(r, D, next)
    <2>1. SUFFICES ASSUME NEW k \in 1 .. Len(w) - 1, r[k].cmd = "data"
                   PROVE  /\ r[k].n \in 0 .. next - 1
                          /\ ~r[k].resent =>
                               /\ \A d \in D : d < r[k].n
                               /\ \A j \in 1 .. k - 1 : r[j].cmd = "data" => r[j].n < r[k].n
      BY <1>1 DEF WireOrdered
    <2>2. PICK a : a = At(k)
      OBVIOUS
    <2>3. a \in DOMAIN w /\ r[k] = w[a]
      BY <1>1, <1>2, <2>2
    <2>4. /\ w[a].n \in 0 .. next - 1
          /\ ~w[a].resent => /\ \A d \in D : d < w[a].n
                             /\ \A j \in 1 .. a - 1 : w[j].cmd = "data" => w[j].n < w[a].n
      BY <2>1, <2>3 DEF WireOrdered
    <2>5. \A j \in 1 .. k - 1 : At(j) \in 1 .. a - 1 /\ r[j] = w[At(j)]
      BY <1>2, <1>3, <2>2
    <2> QED  BY <2>3, <2>4, <2>5
  <1> QED  BY <1>4 DEF r

\* also when the first one is a packet that is delivered now.
LEMMA DeliverOrdered ==
    ASSUME NEW w \in Seq(Message), NEW D, NEW next, WireOrdered(w, D, next), w # <<>>,
           w[1].cmd = "data"
    PROVE  WireOrdered(RemoveAt(w, 1), D \cup {w[1].n}, next)
  <1> DEFINE r == RemoveAt(w, 1)
  <1>1. Len(w) \in Nat \ {0}
    BY TailIs
  <1>2. 1 \in 1 .. Len(w)
    BY <1>1
  <1>3. /\ DOMAIN r = 1 .. Len(w) - 1 /\ DOMAIN w = 1 .. Len(w)
        /\ \A k \in 1 .. Len(w) - 1 : r[k] = IF k < 1 THEN w[k] ELSE w[k + 1]
    BY <1>2, RemoveAtIs
  <1>4. WireOrdered(r, D, next)
    BY <1>2, RemoveOrdered
  <1> HIDE DEF r
  <1>5. ASSUME NEW k \in 1 .. Len(w) - 1, r[k].cmd = "data", ~r[k].resent PROVE w[1].n < r[k].n
    <2>1. PICK a : a = k + 1
      OBVIOUS
    <2>2. a \in DOMAIN w /\ 1 \in 1 .. a - 1 /\ r[k] = w[a]
      BY <1>1, <1>3, <2>1
    <2> QED  BY <1>5, <2>2 DEF WireOrdered
  <1>6. WireOrdered(r, D \cup {w[1].n}, next)
    BY <1>3, <1>4, <1>5 DEF WireOrdered
  <1> QED  BY <1>6 DEF r

\* Packets are added behind the others: old ones resent, or new ones.
LEMMA ConcatOrdered ==
    ASSUME NEW w \in Seq(Message), NEW D, NEW next \in Nat, NEW to \in Nat, next <= to,
           WireOrdered(w, D, next), D \subseteq 0 .. next - 1,
           NEW v \in Seq(DataMessage),
           \A j \in 1 .. Len(v) : v[j].n < to /\ (~v[j].resent => next <= v[j].n),
           \A j \in 1 .. Len(v) : ~v[j].resent => \A i \in 1 .. j - 1 : v[i].n < v[j].n
    PROVE  w \o v \in Seq(Message) /\ WireOrdered(w \o v, D, to)
  <1> DEFINE u == w \o v
  <1>0. PICK x, y \in Nat : x = Len(w) /\ y = Len(v)
    OBVIOUS
  <1>1. v \in Seq(Message)
    BY DEF Message
  <1>2. u \in Seq(Message) /\ DOMAIN u = 1 .. x + y /\ DOMAIN w = 1 .. x
    BY <1>0, <1>1
  <1>3. \A i \in 1 .. x + y : IF i <= x THEN i \in 1 .. x /\ u[i] = w[i]
                              ELSE i - x \in 1 .. y /\ u[i] = v[i - x]
    BY <1>0
  <1>4. \A i \in 1 .. y : v[i].cmd = "data" /\ v[i].n \in Nat
    <2>1. \A i \in 1 .. y : v[i] \in DataMessage
      BY <1>0
    <2> QED  BY <2>1, Ranges DEF DataMessage
  <1> HIDE DEF u
  <1>5. WireOrdered(u, D, to)
    <2>1. SUFFICES ASSUME NEW k \in 1 .. x + y, u[k].cmd = "data"
                   PROVE  /\ u[k].n \in 0 .. to - 1
                          /\ ~u[k].resent =>
                               /\ \A d \in D : d < u[k].n
                               /\ \A j \in 1 .. k - 1 : u[j].cmd = "data" => u[j].n < u[k].n
      BY <1>2 DEF WireOrdered
    <2>2. CASE k <= x
      <3>1. k \in 1 .. x /\ u[k] = w[k]
        BY <1>3, <2>2
      <3>2. /\ w[k].n \in 0 .. next - 1
            /\ ~w[k].resent => /\ \A d \in D : d < w[k].n
                               /\ \A j \in 1 .. k - 1 : w[j].cmd = "data" => w[j].n < w[k].n
        BY <1>2, <2>1, <3>1 DEF WireOrdered
      <3>3. \A j \in 1 .. k - 1 : u[j] = w[j]
        BY <1>3, <2>2
      <3>4. w[k].n \in 0 .. to - 1
        BY <3>2
      <3> QED  BY <3>1, <3>2, <3>3, <3>4
    <2>3. CASE ~(k <= x)
      <3>1. PICK a : a = k - x
        OBVIOUS
      <3>2. a \in 1 .. y /\ u[k] = v[a]
        BY <1>3, <2>3, <3>1
      <3>3. v[a].n \in Nat /\ v[a].n < to /\ (~v[a].resent => next <= v[a].n)
        BY <1>0, <1>4, <3>2
      <3>4. ASSUME ~v[a].resent, NEW j \in 1 .. k - 1, u[j].cmd = "data" PROVE u[j].n < v[a].n
        <4>1. CASE j <= x
          <5>1. j \in DOMAIN w /\ u[j] = w[j]
            BY <1>2, <1>3, <4>1
          <5>2. w[j].n \in 0 .. next - 1
            BY <3>4, <5>1 DEF WireOrdered
          <5> QED  BY <3>3, <3>4, <5>1, <5>2
        <4>2. CASE ~(j <= x)
          <5>1. PICK b : b = j - x
            OBVIOUS
          <5>2. b \in 1 .. a - 1 /\ u[j] = v[b]
            <6>1. j \in 1 .. x + y
              BY <2>1
            <6> QED  BY <1>3, <3>1, <4>2, <5>1, <6>1
          <5> QED  BY <1>0, <3>2, <3>4, <5>2
        <4> QED  BY <4>1, <4>2
      <3>5. ASSUME ~v[a].resent, NEW d \in D PROVE d < v[a].n
        BY <3>3, <3>5
      <3> QED  BY <3>2, <3>3, <3>4, <3>5
    <2> QED  BY <2>2, <2>3
  <1> QED  BY <1>2, <1>5 DEF u

\* A flow message behind the packets changes nothing.
LEMMA FlowOrdered ==
    ASSUME NEW w \in Seq(Message), NEW D, NEW next, WireOrdered(w, D, next), NEW m \in FlowMessage
    PROVE  w \o <<m>> \in Seq(Message) /\ WireOrdered(w \o <<m>>, D, next)
  <1> DEFINE u == w \o <<m>>
  <1>0. m \in Message /\ m.cmd # "data"
    BY DEF Message, FlowMessage
  <1>1. u \in Seq(Message) /\ DOMAIN u = 1 .. Len(w) + 1 /\ Len(w) \in Nat /\ DOMAIN w = 1 .. Len(w)
    BY <1>0
  <1>2. (\A i \in 1 .. Len(w) : u[i] = w[i]) /\ u[Len(w) + 1] = m
    BY <1>0
  <1> HIDE DEF u
  <1>3. WireOrdered(u, D, next)
    <2>1. SUFFICES ASSUME NEW k \in 1 .. Len(w) + 1, u[k].cmd = "data"
                   PROVE  /\ u[k].n \in 0 .. next - 1
                          /\ ~u[k].resent =>
                               /\ \A d \in D : d < u[k].n
                               /\ \A j \in 1 .. k - 1 : u[j].cmd = "data" => u[j].n < u[k].n
      BY <1>1 DEF WireOrdered
    <2>2. k \in 1 .. Len(w)
      BY <1>0, <1>1, <1>2, <2>1
    <2>3. u[k] = w[k] /\ \A j \in 1 .. k - 1 : j \in 1 .. Len(w) /\ u[j] = w[j]
      BY <1>1, <1>2, <2>2
    <2> QED  BY <1>1, <2>1, <2>2, <2>3 DEF WireOrdered
  <1> QED  BY <1>1, <1>3 DEF u


-----------------------------------------------------------------------------
(* The receiver's view of the sender.                                         *)

\* Flow sequence numbers stay in their range.
LEMMA NextFlowType == \A f \in Sequence : NextFlow(f) \in Sequence
  <1>1. SUFFICES ASSUME NEW f \in Sequence PROVE NextFlow(f) \in Sequence
    OBVIOUS
  <1>2. PICK a : a = f + 1
    OBVIOUS
  <1>3. a \in Int /\ SeqSpace \in Nat /\ SeqSpace >= 2
    BY <1>2, SequenceAssumption DEF Sequence
  <1>4. a % SeqSpace \in 0 .. SeqSpace - 1
    BY <1>3
  <1>5. 1 \in Sequence /\ a % SeqSpace \in Sequence
    BY <1>3, <1>4 DEF Sequence
  <1> QED  BY <1>2, <1>5 DEF NextFlow

\* The operations of FlowReceiver keep the type of the entry.
LEMMA DoneType ==
    ASSUME NEW e \in Entries, NEW f
    PROVE  AfterDone(e, f) \in Entries
  <1> DEFINE I == {i \in DOMAIN e.active : ~CoveredBy(e.active[i].flowSeq, f)}
             s == e.active
  <1>1. s \in Seq(Permit)
    BY DEF Entries
  <1>2. I \in SUBSET (1 .. Len(s)) /\ Len(s) \in Nat
    BY <1>1
  <1> HIDE DEF I, s
  <1>3. PICK h, m : Enumerates(h, m, I)
    BY <1>2, Positions, Listed
  <1>4. KeepAt(s, I) = Through(s, h, m) /\ Through(s, h, m) \in Seq(Permit)
    <2>1. KeepAt(s, I) = Through(s, h, m)
      BY <1>2, <1>3, Positions, KeepAtIs
    <2>2. Through(s, h, m) \in Seq(Permit)
      BY <1>1, <1>2, <1>3, ThroughIs DEF Selects
    <2> QED  BY <2>1, <2>2
  <1>5. AfterDone(e, f) = [e EXCEPT !.active = KeepAt(s, I),
                                    !.state = IF f = e.flowSeq THEN "idle" ELSE e.state]
    BY DEF AfterDone, I, s
  <1>6. KeepAt(s, I) \in Seq(Permit)
    BY <1>4
  <1> QED  BY <1>5, <1>6 DEF Entries

\* noteRequest leaves an entry of the receiver.
LEMMA RequestType ==
    ASSUME NEW e \in Entries, NEW f \in Sequence
    PROVE  AfterRequest(e, f) \in Entries
  BY DEF AfterRequest, Entries

\* So does grantPermit.
LEMMA GrantType ==
    ASSUME NEW e \in Entries, NEW n \in 1 .. MaxSlotsPerSender
    PROVE  AfterGrant(e, n) \in Entries
  <1>1. e.flowSeq \in Sequence /\ e.active \in Seq(Permit)
    BY DEF Entries
  <1>2. [flowSeq |-> e.flowSeq, slots |-> n] \in Permit
    BY <1>1, Ranges DEF Permit
  <1>3. Append(e.active, [flowSeq |-> e.flowSeq, slots |-> n]) \in Seq(Permit)
    BY <1>1, <1>2
  <1> QED  BY <1>3 DEF AfterGrant, Entries

\* So does a permit that expires.
LEMMA ExpiryType ==
    ASSUME NEW e \in Entries, e.active # <<>>, NEW abandon
    PROVE  AfterExpiry(e, abandon) \in Entries
  <1>1. Tail(e.active) \in Seq(Permit)
    BY DEF Entries
  <1>2. PICK st : st = IF e.state = "requested" \/ ~abandon THEN "requested"
                       ELSE IF Len(e.active) = 1 THEN "idle" ELSE e.state
    OBVIOUS
  <1>3. st \in {"idle", "requested", "granted"}
    BY <1>2 DEF Entries
  <1>4. AfterExpiry(e, abandon) = [e EXCEPT !.active = Tail(@), !.state = st]
    BY <1>2 DEF AfterExpiry
  <1> QED  BY <1>1, <1>3, <1>4 DEF Entries

-----------------------------------------------------------------------------
(* The inductive invariant.                                                   *)

Types ==
    /\ pushed \in 0 .. MaxSend
    /\ nextSendSequence \in 0 .. pushed
    /\ requestActive \in BOOLEAN
    /\ givenUp \in BOOLEAN
    /\ activeFlowSequence \in Sequence
    /\ flowSocket \in Seq(FlowMessage)
    /\ dataSocket \in Seq(Message)
    /\ permitSocket \in Seq(OkToSend)
    /\ entry \in Entries

\* The sender: its list, and whether it asks.
SenderInv == Window(resendList, nextSendSequence) /\ AsksUntilDone

\* A packet that has been sent is delivered or still kept, and the tracker
\* knows exactly what is delivered.
KeptInv ==
    /\ delivered \subseteq 0 .. nextSendSequence - 1
    /\ \A n \in 0 .. nextSendSequence - 1 : n \in delivered \/ n \in resendList.entries

TrackedInv == \E B \in 0 .. MaxSend : Records(packetsSeen, delivered, B)

\* What is on its way is sound and in order.
NetInv ==
    /\ AllSound(permitSocket, delivered)
    /\ WireOrdered(dataSocket, delivered, nextSendSequence)

Inv == Types /\ SenderInv /\ KeptInv /\ TrackedInv /\ NetInv

\* It holds initially.
LEMMA InitInv == TransportInit => Inv
  <1> SUFFICES ASSUME TransportInit PROVE Inv
    OBVIOUS
  <1>1. Types
    <2>1. 0 \in Sequence /\ 0 \in 0 .. MaxSend /\ 0 \in 0 .. 0
      BY Ranges DEF Sequence
    <2>2. entry \in Entries
      BY <2>1 DEF TransportInit, Init, NewEntry, Entries
    <2>3. flowSocket \in Seq(FlowMessage) /\ dataSocket \in Seq(Message) /\ permitSocket \in Seq(OkToSend)
      BY DEF TransportInit
    <2>4. pushed \in 0 .. MaxSend /\ nextSendSequence \in 0 .. pushed /\ requestActive \in BOOLEAN
          /\ givenUp \in BOOLEAN /\ activeFlowSequence \in Sequence
      BY <2>1 DEF TransportInit
    <2> QED  BY <2>2, <2>3, <2>4 DEF Types
  <1>2. SenderInv
    BY EmptyWindow DEF TransportInit, SenderInv, AsksUntilDone, PacketsQueued, EmptyResendList
  <1>3. KeptInv
    BY DEF TransportInit, KeptInv
  <1>4. TrackedInv
    BY NewRecords, Ranges DEF TransportInit, TrackedInv
  <1>5. NetInv
    BY DEF TransportInit, NetInv, AllSound, WireOrdered
  <1> QED  BY <1>1, <1>2, <1>3, <1>4, <1>5 DEF Inv

\* The copy of the tracker in a new permit is sound.
LEMMA NewPermitSound ==
    ASSUME Inv, NEW f \in Sequence, NEW max \in 0 .. MaxStart, SendPermitToSend(f, max)
    PROVE  permitSocket' \in Seq(OkToSend) /\ AllSound(permitSocket', delivered)
  <1>1. PICK B \in 0 .. MaxSend : Records(packetsSeen, delivered, B)
    BY DEF Inv, TrackedInv
  <1>2. packetsSeen \in Tracker /\ PermitSound(packetsSeen, delivered)
    BY <1>1 DEF Records, PermitSound
  <1>3. PICK p : p = [flowSeq |-> f, max_data |-> max, seen |-> packetsSeen]
    OBVIOUS
  <1>4. p \in OkToSend /\ PermitSound(p.seen, delivered) /\ permitSocket' = Append(permitSocket, p)
    BY <1>2, <1>3 DEF OkToSend, SendPermitToSend
  <1>5. permitSocket \in Seq(OkToSend) /\ AllSound(permitSocket, delivered)
    BY DEF Inv, Types, NetInv
  <1> QED  BY <1>4, <1>5, SoundAppend

\* Queueing a packet makes the sender ask.
LEMMA PushDataInv == Inv /\ PushData => Inv'
  <1> SUFFICES ASSUME Inv, PushData PROVE Inv'
    OBVIOUS
  <1>1. UNCHANGED <<nextSendSequence, resendList, receiverVars, dataSocket, permitSocket, losses>>
        /\ pushed' = pushed + 1 /\ pushed < MaxSend
    BY DEF PushData
  <1>2. Types'
    <2>1. pushed' \in 0 .. MaxSend /\ nextSendSequence' \in 0 .. pushed'
      BY <1>1, Ranges DEF Inv, Types
    <2>2. requestActive' \in BOOLEAN /\ givenUp' \in BOOLEAN
          /\ activeFlowSequence' \in Sequence /\ flowSocket' \in Seq(FlowMessage)
      <3>1. requestActive \in BOOLEAN /\ givenUp \in BOOLEAN /\ activeFlowSequence \in Sequence /\ flowSocket \in Seq(FlowMessage)
        BY DEF Inv, Types
      <3>2. CASE PacketsQueued = 0 /\ ~requestActive
        <4>1. requestActive' = TRUE /\ givenUp' = FALSE /\ activeFlowSequence' = NextFlow(activeFlowSequence)
              /\ flowSocket' = Append(flowSocket, FlowMsg("request_to_send", activeFlowSequence'))
          BY <3>2 DEF PushData
        <4>2. activeFlowSequence' \in Sequence
          BY <3>1, <4>1, NextFlowType
        <4>3. FlowMsg("request_to_send", activeFlowSequence') \in FlowMessage
          BY <4>2 DEF FlowMsg, FlowMessage
        <4>4. flowSocket' \in Seq(FlowMessage)
          BY <3>1, <4>1, <4>3
        <4> QED  BY <4>1, <4>2, <4>4, Zenon
      <3>3. CASE ~(PacketsQueued = 0 /\ ~requestActive)
        BY <3>1, <3>3 DEF PushData
      <3> QED  BY <3>2, <3>3
    <2> QED  BY <1>1, <2>1, <2>2 DEF Inv, Types, receiverVars
  <1>3. SenderInv'
    <2>1. AsksUntilDone /\ Window(resendList, nextSendSequence)
      BY DEF Inv, SenderInv
    <2>2. requestActive'
      <3>1. CASE PacketsQueued = 0 /\ ~requestActive
        BY <3>1 DEF PushData
      <3>2. CASE requestActive
        BY <3>2 DEF PushData
      <3> QED  BY <2>1, <3>1, <3>2 DEF AsksUntilDone
    <2>3. AsksUntilDone'
      BY <2>2 DEF AsksUntilDone
    <2>4. Window(resendList, nextSendSequence)'
      BY <1>1, <2>1
    <2> QED  BY <2>3, <2>4 DEF SenderInv
  <1>4. KeptInv' /\ TrackedInv' /\ NetInv'
    BY <1>1 DEF Inv, KeptInv, TrackedInv, NetInv, receiverVars
  <1> QED  BY <1>2, <1>3, <1>4 DEF Inv

\* Packets leave the queues unsent.
LEMMA ShrinkInv ==
    ASSUME Inv, pushed' \in nextSendSequence .. pushed, requestActive' \in BOOLEAN,
           givenUp' \in BOOLEAN, AsksUntilDone',
           UNCHANGED <<nextSendSequence, resendList, activeFlowSequence, receiverVars, netVars>>
    PROVE  Inv'
  <1>1. Types'
    <2>1. pushed' \in 0 .. MaxSend /\ nextSendSequence' \in 0 .. pushed'
      BY Ranges DEF Inv, Types
    <2> QED  BY <2>1 DEF Inv, Types, receiverVars, netVars
  <1>2. SenderInv'
    BY DEF Inv, SenderInv
  <1>3. KeptInv' /\ TrackedInv' /\ NetInv'
    BY DEF Inv, KeptInv, TrackedInv, NetInv, receiverVars, netVars
  <1> QED  BY <1>1, <1>2, <1>3 DEF Inv

\* The sender gives up: nothing is left in the queues.
LEMMA GiveUpInv == Inv /\ GiveUp => Inv'
  <1> SUFFICES ASSUME Inv, GiveUp PROVE Inv'
    OBVIOUS
  <1>1. pushed' = nextSendSequence /\ requestActive' = FALSE /\ givenUp' = TRUE
        /\ UNCHANGED <<nextSendSequence, resendList, activeFlowSequence, receiverVars, netVars>>
    BY DEF GiveUp
  <1>2. pushed' \in nextSendSequence .. pushed /\ pushed' - nextSendSequence' = 0
    BY <1>1, Ranges DEF Inv, Types
  <1>3. AsksUntilDone'
    BY <1>1, <1>2 DEF AsksUntilDone, PacketsQueued
  <1> QED  BY <1>1, <1>2, <1>3, ShrinkInv

\* A query is abandoned, which only happens to queues that are not empty.
LEMMA RemoveDataInv == Inv /\ RemoveData => Inv'
  <1> SUFFICES ASSUME Inv, RemoveData PROVE Inv'
    OBVIOUS
  <1>1. pushed' \in nextSendSequence .. pushed - 1 /\ requestActive' = requestActive /\ givenUp' = givenUp
        /\ UNCHANGED <<nextSendSequence, resendList, activeFlowSequence, receiverVars, netVars>>
    BY DEF RemoveData
  <1>2. nextSendSequence \in Int /\ pushed \in Int /\ requestActive \in BOOLEAN /\ givenUp \in BOOLEAN
    BY Ranges DEF Inv, Types
  <1>3. pushed' \in nextSendSequence .. pushed /\ ~(pushed - nextSendSequence = 0)
    BY <1>1, <1>2
  <1>4. requestActive
    BY <1>3 DEF Inv, SenderInv, AsksUntilDone, PacketsQueued
  <1>5. AsksUntilDone'
    BY <1>1, <1>4 DEF AsksUntilDone
  <1> QED  BY <1>1, <1>2, <1>3, <1>5, ShrinkInv

\* A step that leaves the sender and what is delivered alone, and keeps what is
\* on its way sound and in order.
LEMMA FrameInv ==
    ASSUME Inv, UNCHANGED <<senderVars, packetsSeen, delivered>>,
           flowSocket' \in Seq(FlowMessage), dataSocket' \in Seq(Message),
           permitSocket' \in Seq(OkToSend), entry' \in Entries,
           AllSound(permitSocket', delivered), WireOrdered(dataSocket', delivered, nextSendSequence)
    PROVE  Inv'
  <1>1. Types'
    BY DEF Inv, Types, senderVars
  <1>2. SenderInv'
    BY DEF Inv, SenderInv, AsksUntilDone, PacketsQueued, senderVars
  <1>3. KeptInv' /\ TrackedInv' /\ NetInv'
    BY DEF Inv, KeptInv, TrackedInv, NetInv, senderVars
  <1> QED  BY <1>1, <1>2, <1>3 DEF Inv

\* What the invariant says about the network and the entry.
LEMMA InvNet ==
    ASSUME Inv
    PROVE  /\ flowSocket \in Seq(FlowMessage) /\ dataSocket \in Seq(Message)
           /\ permitSocket \in Seq(OkToSend) /\ entry \in Entries
           /\ activeFlowSequence \in Sequence
           /\ AllSound(permitSocket, delivered) /\ WireOrdered(dataSocket, delivered, nextSendSequence)
  BY DEF Inv, Types, NetInv

\* The sender asks again after a timeout.
LEMMA ResendRequestInv == Inv /\ ResendRequest => Inv'
  <1> SUFFICES ASSUME Inv, ResendRequest PROVE Inv'
    OBVIOUS
  <1>1. FlowMsg("request_to_send", activeFlowSequence) \in FlowMessage
    BY InvNet DEF FlowMsg, FlowMessage
  <1>2. flowSocket' \in Seq(FlowMessage)
    BY <1>1, InvNet DEF ResendRequest
  <1>3. UNCHANGED <<senderVars, receiverVars, dataSocket, permitSocket>>
    BY DEF ResendRequest
  <1> QED  BY <1>2, <1>3, InvNet, FrameInv DEF receiverVars

\* The receiver reads a flow message, and may answer with a permit.
LEMMA NoteRequestInv ==
    ASSUME Inv, NEW e \in Entries, NEW f \in Sequence, NoteRequest(e, f)
    PROVE  entry' \in Entries /\ permitSocket' \in Seq(OkToSend) /\ AllSound(permitSocket', delivered)
  <1>1. entry' \in Entries
    BY RequestType DEF NoteRequest
  <1>2. CASE PermitsOf(e, f) # {}
    <2>1. PICK max \in 0 .. MaxStart : SendPermitToSend(e.flowSeq, max)
      BY <1>2 DEF NoteRequest
    <2>2. e.flowSeq \in Sequence
      BY DEF Entries
    <2> QED  BY <1>1, <2>1, <2>2, NewPermitSound
  <1>3. CASE PermitsOf(e, f) = {}
    BY <1>1, <1>3, InvNet DEF NoteRequest
  <1> QED  BY <1>2, <1>3

\* The receiver handles a flow message (doFlowRequest).
LEMMA FlowArrivesInv == Inv /\ FlowArrives => Inv'
  <1> SUFFICES ASSUME Inv, FlowArrives PROVE Inv'
    OBVIOUS
  <1>1. PICK i \in Next1(flowSocket) :
           /\ DoFlowRequest(flowSocket[i])
           /\ flowSocket' = RemoveAt(flowSocket, i)
           /\ UNCHANGED <<senderVars, packetsSeen, delivered, twice, dataSocket, losses>>
    BY DEF FlowArrives
  <1>2. PICK m : m = flowSocket[i]
    OBVIOUS
  <1>3. m \in FlowMessage /\ i \in 1 .. Len(flowSocket) /\ m.flowSeq \in Sequence
    <2>1. flowSocket \in Seq(FlowMessage) /\ i \in DOMAIN flowSocket
      BY InvNet DEF Next1
    <2>2. m \in FlowMessage /\ i \in 1 .. Len(flowSocket)
      BY <1>2, <2>1
    <2> QED  BY <2>2 DEF FlowMessage
  <1>4. flowSocket' \in Seq(FlowMessage)
    BY <1>1, <1>3, InvNet, RemoveAtIs
  <1>5. entry' \in Entries /\ permitSocket' \in Seq(OkToSend) /\ AllSound(permitSocket', delivered)
    <2>1. CASE m.cmd = "request_to_send"
      <3>1. NoteRequest(entry, m.flowSeq)
        BY <1>1, <1>2, <2>1 DEF DoFlowRequest
      <3> QED  BY <1>3, <3>1, InvNet, NoteRequestInv
    <2>2. CASE m.cmd = "send_completed"
      <3>1. entry' = AfterDone(entry, m.flowSeq) /\ UNCHANGED permitSocket
        BY <1>1, <1>2, <2>2 DEF DoFlowRequest
      <3> QED  BY <3>1, InvNet, DoneType
    <2>3. CASE m.cmd = "request_to_send_more"
      <3>1. NoteRequest(AfterDone(entry, m.flowSeq), NextFlow(m.flowSeq))
        BY <1>1, <1>2, <2>3 DEF DoFlowRequest
      <3>2. AfterDone(entry, m.flowSeq) \in Entries /\ NextFlow(m.flowSeq) \in Sequence
        BY <1>3, InvNet, DoneType, NextFlowType
      <3> QED  BY <3>1, <3>2, NoteRequestInv
    <2> QED  BY <1>3, <2>1, <2>2, <2>3 DEF FlowMessage
  <1> QED  BY <1>1, <1>4, <1>5, InvNet, FrameInv

\* The receiver grants a permit: what it tells of the tracker is sound.
LEMMA GrantPermitInv == Inv /\ GrantPermit => Inv'
  <1> SUFFICES ASSUME Inv, GrantPermit PROVE Inv'
    OBVIOUS
  <1>1. PICK n \in 1 .. MaxSlotsPerSender : entry' = AfterGrant(entry, n) /\ SendPermitToSend(entry.flowSeq, n)
    BY DEF GrantPermit
  <1>2. UNCHANGED <<senderVars, packetsSeen, delivered, twice, flowSocket, dataSocket, losses>>
    BY DEF GrantPermit
  <1>3. entry.flowSeq \in Sequence /\ n \in 0 .. MaxStart /\ entry' \in Entries
    <2>1. n \in 0 .. MaxStart
      BY Ranges
    <2>2. entry \in Entries /\ entry' \in Entries
      BY <1>1, InvNet, GrantType
    <2> QED  BY <2>1, <2>2 DEF Entries
  <1>4. permitSocket' \in Seq(OkToSend) /\ AllSound(permitSocket', delivered)
    BY <1>1, <1>3, NewPermitSound
  <1> QED  BY <1>2, <1>3, <1>4, InvNet, FrameInv

\* A permit expires.
LEMMA ExpirePermitInv == Inv /\ ExpirePermit => Inv'
  <1> SUFFICES ASSUME Inv, ExpirePermit PROVE Inv'
    OBVIOUS
  <1>1. entry' \in Entries
    BY InvNet, ExpiryType DEF ExpirePermit
  <1>2. UNCHANGED <<senderVars, packetsSeen, delivered, flowSocket, dataSocket, permitSocket>>
    BY DEF ExpirePermit, netVars
  <1> QED  BY <1>1, <1>2, InvNet, FrameInv

\* A flow message that came in order with the data is handed to the flow
\* socket.
LEMMA RedirectFlowMsgInv == Inv /\ RedirectFlowMsg => Inv'
  <1> SUFFICES ASSUME Inv, RedirectFlowMsg PROVE Inv'
    OBVIOUS
  <1>1. UNCHANGED <<senderVars, receiverVars, permitSocket>> /\ dataSocket # <<>>
        /\ flowSocket' = Append(flowSocket, Head(dataSocket)) /\ dataSocket' = Tail(dataSocket)
        /\ Head(dataSocket).cmd # "data"
    BY DEF RedirectFlowMsg
  <1>2. Len(dataSocket) \in Nat \ {0} /\ dataSocket' = RemoveAt(dataSocket, 1)
        /\ Head(dataSocket) \in Message
    BY <1>1, InvNet, TailIs
  <1>3. 1 \in 1 .. Len(dataSocket)
    BY <1>2
  <1>4. dataSocket' \in Seq(Message) /\ WireOrdered(dataSocket', delivered, nextSendSequence)
    BY <1>2, <1>3, InvNet, RemoveAtIs, RemoveOrdered
  <1>5. Head(dataSocket) \in FlowMessage
    BY <1>1, <1>2, MessageIs
  <1>6. flowSocket' \in Seq(FlowMessage)
    BY <1>1, <1>5, InvNet
  <1> QED  BY <1>1, <1>4, <1>6, InvNet, FrameInv DEF receiverVars

\* A message or a packet is lost.
LEMMA LoseInv == Inv /\ Lose => Inv'
  <1> SUFFICES ASSUME Inv, Lose PROVE Inv'
    OBVIOUS
  <1>1. UNCHANGED <<senderVars, receiverVars>>
    BY DEF Lose
  <1>2. CASE LoseFrom(flowSocket, flowSocket') /\ UNCHANGED <<dataSocket, permitSocket>>
    <2>1. PICK i \in 1 .. Len(flowSocket) : flowSocket' = RemoveAt(flowSocket, i)
      BY <1>2, InvNet DEF LoseFrom
    <2>2. flowSocket' \in Seq(FlowMessage)
      BY <2>1, InvNet, RemoveAtIs
    <2> QED  BY <1>1, <1>2, <2>2, InvNet, FrameInv DEF receiverVars
  <1>3. CASE LoseFrom(dataSocket, dataSocket') /\ UNCHANGED <<flowSocket, permitSocket>>
    <2>1. PICK i \in 1 .. Len(dataSocket) : dataSocket' = RemoveAt(dataSocket, i)
      BY <1>3, InvNet DEF LoseFrom
    <2>2. dataSocket' \in Seq(Message) /\ WireOrdered(dataSocket', delivered, nextSendSequence)
      BY <2>1, InvNet, RemoveAtIs, RemoveOrdered
    <2> QED  BY <1>1, <1>3, <2>2, InvNet, FrameInv DEF receiverVars
  <1>4. CASE LoseFrom(permitSocket, permitSocket') /\ UNCHANGED <<flowSocket, dataSocket>>
    <2>1. PICK i \in 1 .. Len(permitSocket) : permitSocket' = RemoveAt(permitSocket, i)
      BY <1>4, InvNet DEF LoseFrom
    <2>2. permitSocket' \in Seq(OkToSend) /\ AllSound(permitSocket', delivered)
      BY <2>1, InvNet, SoundRemove
    <2> QED  BY <1>1, <1>4, <2>2, InvNet, FrameInv DEF receiverVars
  <1> QED  BY <1>2, <1>3, <1>4 DEF Lose


\* A packet on its way is never further ahead of the first one missing than
\* the bitmap reaches, and an original one is not before it.
LEMMA ArrivesInWindow ==
    ASSUME Inv, NEW B, Records(packetsSeen, delivered, B), NEW i \in DOMAIN dataSocket,
           dataSocket[i].cmd = "data"
    PROVE  /\ dataSocket[i].n \in 0 .. MaxSend - 1
           /\ dataSocket[i].n < nextSendSequence
           /\ dataSocket[i].n < B + TrackerBits
           /\ dataSocket[i].resent \/ B <= dataSocket[i].n
  <1>1. PICK n : n = dataSocket[i].n
    OBVIOUS
  <1>2. /\ n \in 0 .. nextSendSequence - 1
        /\ ~dataSocket[i].resent => \A d \in delivered : d < n
    BY <1>1 DEF Inv, NetInv, WireOrdered
  <1>3. nextSendSequence \in 0 .. MaxSend /\ n \in 0 .. MaxSend - 1 /\ n < nextSendSequence
    BY <1>2, Ranges DEF Inv, SenderInv, Window
  <1>4. B \in 0 .. MaxSend /\ B \notin delivered /\ 0 .. B - 1 \subseteq delivered
        /\ \A d \in delivered : d < B + TrackerBits
    BY DEF Records
  <1>5. n < B + TrackerBits
    <2>1. CASE resendList.entries = {}
      <3>1. n \in delivered
        BY <1>2, <2>1 DEF Inv, KeptInv
      <3> QED  BY <1>4, <3>1
    <2>2. CASE resendList.entries # {}
      <3>1. PICK F : F = resendList.first
        OBVIOUS
      <3>2. F \in 0 .. nextSendSequence - 1 /\ nextSendSequence <= F + TrackerBits
            /\ \A e \in resendList.entries : F <= e /\ e \in 0 .. nextSendSequence - 1
        BY <2>2, <3>1 DEF Inv, SenderInv, Window
      <3>3. \A m \in 0 .. F - 1 : m \in delivered
        <4>1. SUFFICES ASSUME NEW m \in 0 .. F - 1 PROVE m \in delivered
          OBVIOUS
        <4>2. m \in 0 .. nextSendSequence - 1 /\ m < F
          BY <1>3, <3>2
        <4>3. m \notin resendList.entries
          BY <3>2, <4>2
        <4> QED  BY <4>2, <4>3 DEF Inv, KeptInv
      <3>4. F <= B
        BY <1>4, <3>2, <3>3
      <3> QED  BY <1>3, <1>4, <3>2, <3>4, Ranges
    <2> QED  BY <2>1, <2>2
  <1>6. dataSocket[i].resent \/ B <= n
    <2>1. SUFFICES ASSUME ~dataSocket[i].resent, n < B PROVE FALSE
      BY <1>3, <1>4
    <2>2. n \in 0 .. B - 1
      BY <1>3, <1>4, <2>1
    <2>3. n \in delivered
      BY <1>4, <2>2
    <2>4. n < n
      BY <1>2, <2>1, <2>3
    <2> QED  BY <1>3, <2>4
  <1> QED  BY <1>1, <1>3, <1>5, <1>6

\* A packet that arrives is recorded and delivered.
LEMMA DataArrivesInv == Inv /\ DataArrives => Inv'
  <1> SUFFICES ASSUME Inv, DataArrives PROVE Inv'
    OBVIOUS
  <1>1. dataSocket # <<>> /\ dataSocket' = Tail(dataSocket) /\ Head(dataSocket).cmd = "data"
        /\ UNCHANGED <<senderVars, entry, flowSocket, permitSocket, losses>>
    BY DEF DataArrives
  <1>2. Len(dataSocket) \in Nat \ {0} /\ dataSocket' = RemoveAt(dataSocket, 1)
        /\ Head(dataSocket) = dataSocket[1]
    BY <1>1, InvNet, TailIs
  <1>3. 1 \in 1 .. Len(dataSocket) /\ 1 \in DOMAIN dataSocket
    BY <1>2, InvNet
  <1>4. PICK B \in 0 .. MaxSend : Records(packetsSeen, delivered, B)
    BY DEF Inv, TrackedInv
  <1>5. PICK n, resent : n = dataSocket[1].n /\ resent = dataSocket[1].resent
    OBVIOUS
  <1>6. n \in 0 .. MaxSend - 1 /\ n < nextSendSequence /\ n < B + TrackerBits /\ (resent \/ B <= n)
    BY <1>1, <1>2, <1>3, <1>4, <1>5, ArrivesInWindow
  <1>7. n % SeqSpace = n
    <2>1. n \in 0 .. MaxSend
      BY <1>6, Ranges
    <2> QED  BY <2>1, NumberIs
  <1>8. packetsSeen' = NoteSeen(packetsSeen, n, resent)
        /\ delivered' = delivered \cup (IF IsDuplicate(packetsSeen, n, resent) THEN {} ELSE {n})
    BY <1>2, <1>5, <1>7 DEF DataArrives
  <1>9. /\ \E b \in 0 .. MaxSend : Records(NoteSeen(packetsSeen, n, resent), delivered \cup {n}, b)
        /\ delivered \cup (IF IsDuplicate(packetsSeen, n, resent) THEN {} ELSE {n}) = delivered \cup {n}
    BY <1>4, <1>6, NoteSeenExact
  <1>10. delivered' = delivered \cup {n}
    BY <1>8, <1>9
  <1>11. TrackedInv'
    BY <1>8, <1>9, <1>10 DEF TrackedInv
  <1>12. dataSocket' \in Seq(Message) /\ WireOrdered(dataSocket', delivered', nextSendSequence)
    <2>1. RemoveAt(dataSocket, 1) \in Seq(Message)
      BY <1>3, InvNet, RemoveAtIs
    <2>2. WireOrdered(RemoveAt(dataSocket, 1), delivered \cup {dataSocket[1].n}, nextSendSequence)
      BY <1>1, <1>2, InvNet, DeliverOrdered
    <2> QED  BY <1>2, <1>5, <1>10, <2>1, <2>2
  <1>13. AllSound(permitSocket', delivered')
    BY <1>1, <1>10, InvNet, SoundGrows
  <1>14. entry' \in Entries
    BY <1>1, InvNet
  <1>15. Types'
    BY <1>1, <1>12, <1>14 DEF Inv, Types, senderVars
  <1>16. SenderInv'
    BY <1>1 DEF Inv, SenderInv, AsksUntilDone, PacketsQueued, senderVars
  <1>17. KeptInv'
    <2>1. nextSendSequence' = nextSendSequence /\ resendList' = resendList
      BY <1>1 DEF senderVars
    <2>2. n \in 0 .. nextSendSequence - 1
      BY <1>6, Ranges DEF Inv, Types
    <2> QED  BY <1>10, <2>1, <2>2 DEF Inv, KeptInv
  <1>18. NetInv'
    BY <1>1, <1>12, <1>13, SMTT(40) DEF NetInv, senderVars
  <1> QED  BY <1>11, <1>15, <1>16, <1>17, <1>18 DEF Inv

-----------------------------------------------------------------------------
(* sendData and sendDone.                                                     *)

\* What UsePermit computes: the list after noteRead, the packets to resend, how
\* many new ones are sent, the list afterwards, what is put on the socket, and
\* whether there is more to do.
ListOf(p)  == NoteRead(resendList, p.seen, p.max_data, resendList.entries)
OldOf(p)   == InOrder(resendList, ToResend(resendList, p.seen, p.max_data, resendList.entries))
LimitOf(p) == NewPacketLimit(ListOf(p), nextSendSequence, p.max_data, Len(OldOf(p)))
NewOf(p)   == IF LimitOf(p) <= PacketsQueued THEN LimitOf(p) ELSE PacketsQueued
KeptOf(p)  == AppendRange(ListOf(p), nextSendSequence, NewOf(p))
SentBy(p)  == [i \in 1 .. Len(OldOf(p)) + NewOf(p) |->
                 IF i <= Len(OldOf(p)) THEN DataPacket(PacketOf(OldOf(p)[i]), TRUE)
                                       ELSE DataPacket(nextSendSequence + i - Len(OldOf(p)) - 1, FALSE)]
MoreAfter(p, aborted) ==
    DataRemaining(KeptOf(p), nextSendSequence + NewOf(p)) /\ requestActive /\ ~aborted
DoneMsg(p, aborted) ==
    FlowMsg(IF MoreAfter(p, aborted) /\ ~AllowAsyncPermits THEN "request_to_send_more"
                                                           ELSE "send_completed", activeFlowSequence)

\* A step of UsePermit in terms of these.
LEMMA UsePermitIs ==
    ASSUME NEW p, NEW aborted, UsePermit(p, aborted)
    PROVE  /\ Len(dataSocket) + Len(SentBy(p)) + 1 <= MaxWire
           /\ MoreAfter(p, aborted) => NextFlow(activeFlowSequence) <= MaxFlow
           /\ nextSendSequence' = nextSendSequence + NewOf(p)
           /\ resendList' = KeptOf(p)
           /\ requestActive' = MoreAfter(p, aborted)
           /\ activeFlowSequence' = IF MoreAfter(p, aborted) THEN NextFlow(activeFlowSequence) ELSE activeFlowSequence
           /\ dataSocket' = dataSocket \o SentBy(p) \o <<DoneMsg(p, aborted)>>
           /\ IF MoreAfter(p, aborted) /\ AllowAsyncPermits
              THEN flowSocket' = Append(flowSocket, FlowMsg("request_to_send", NextFlow(activeFlowSequence)))
              ELSE flowSocket' = flowSocket
           /\ givenUp' = (givenUp \/ aborted)
           /\ pushed' = IF aborted THEN nextSendSequence + NewOf(p) ELSE pushed
           /\ UNCHANGED <<receiverVars, losses>>
  BY DEF UsePermit, ListOf, OldOf, LimitOf, NewOf, KeptOf, SentBy, MoreAfter, DoneMsg

\* The numbers and lists that it computes.
LEMMA PermitFacts ==
    ASSUME Inv, NEW p \in OkToSend
    PROVE  /\ Window(ListOf(p), nextSendSequence)
           /\ ListOf(p).entries = resendList.entries
                \ Confirmed(resendList, p.seen, p.max_data, resendList.entries)
           /\ OldOf(p) \in Seq(Nat) /\ Len(OldOf(p)) \in Nat
           /\ Len(OldOf(p)) = Cardinality(ToResend(resendList, p.seen, p.max_data, resendList.entries))
           /\ \A i \in 1 .. Len(OldOf(p)) :
                 OldOf(p)[i] \in 0 .. nextSendSequence - 1 /\ PacketOf(OldOf(p)[i]) = OldOf(p)[i]
           /\ LimitOf(p) \in 0 .. MaxStart
           /\ NewOf(p) \in 0 .. MaxStart /\ NewOf(p) <= LimitOf(p)
           /\ NewOf(p) <= pushed - nextSendSequence
           /\ nextSendSequence + NewOf(p) <= MaxSend
           /\ RoomFor(ListOf(p), nextSendSequence, NewOf(p))
           /\ Window(KeptOf(p), nextSendSequence + NewOf(p))
           /\ KeptOf(p).entries = ListOf(p).entries
                \cup (nextSendSequence .. nextSendSequence + NewOf(p) - 1)
  <1> DEFINE l == resendList
             next == nextSendSequence
             es == ToResend(l, p.seen, p.max_data, l.entries)
  <1>1. Window(l, next) /\ next \in 0 .. pushed /\ pushed \in 0 .. MaxSend
    BY DEF Inv, SenderInv, Types
  <1>2. es \in SUBSET l.entries
    BY DEF ToResend, Missing
  <1>3. p.max_data \in 0 .. MaxStart
    BY DEF OkToSend
  <1> HIDE DEF es
  <1>4. Window(ListOf(p), next)
        /\ ListOf(p).entries = l.entries \ Confirmed(l, p.seen, p.max_data, l.entries)
    BY <1>1, NoteReadWindow DEF ListOf
  <1>5. OldOf(p) = InOrder(l, es)
    BY DEF OldOf, es
  <1>6. InOrder(l, es) \in Seq(es) /\ Len(InOrder(l, es)) = Cardinality(es) /\ Cardinality(es) \in Nat
        /\ \A i \in 1 .. Len(InOrder(l, es)) : InOrder(l, es)[i] \in 0 .. next - 1
    BY <1>1, <1>2, InOrderIs
  <1>7. \A e \in 0 .. next - 1 : PacketOf(e) = e
    <2>1. SUFFICES ASSUME NEW e \in 0 .. next - 1 PROVE PacketOf(e) = e
      OBVIOUS
    <2>2. e \in 0 .. MaxSend /\ next \in 0 .. MaxSend /\ e <= next
      BY <1>1, Ranges
    <2>3. Delta(next, e) = next - e
      BY <2>2, DeltaIs
    <2> QED  BY <2>2, <2>3 DEF PacketOf
  <1>8. /\ OldOf(p) \in Seq(Nat) /\ Len(OldOf(p)) \in Nat /\ Len(OldOf(p)) = Cardinality(es)
        /\ \A i \in 1 .. Len(OldOf(p)) : OldOf(p)[i] \in 0 .. next - 1 /\ PacketOf(OldOf(p)[i]) = OldOf(p)[i]
    <2>1. es \subseteq Nat
      BY <1>1, <1>2 DEF Window
    <2>2. PICK s : s = InOrder(l, es)
      OBVIOUS
    <2>3. s \in Seq(Nat) /\ Len(s) = Cardinality(es) /\ Cardinality(es) \in Nat
          /\ \A i \in 1 .. Len(s) : s[i] \in 0 .. next - 1
      BY <1>6, <2>1, <2>2
    <2> QED  BY <1>5, <1>7, <2>2, <2>3
  <1>9. LimitOf(p) \in 0 .. MaxStart
        /\ \A k \in Nat : k <= LimitOf(p) /\ next + k <= MaxSend => RoomFor(ListOf(p), next, k)
    BY <1>3, <1>4, <1>8, LimitIs DEF LimitOf
  <1>10. NewOf(p) \in 0 .. MaxStart /\ NewOf(p) <= LimitOf(p) /\ NewOf(p) <= pushed - next
         /\ next + NewOf(p) <= MaxSend
    <2>1. PICK a : a = LimitOf(p)
      OBVIOUS
    <2>2. NewOf(p) = IF a <= pushed - next THEN a ELSE pushed - next
      BY <2>1 DEF NewOf, PacketsQueued
    <2> QED  BY <1>1, <1>9, <2>1, <2>2, Ranges
  <1>11. RoomFor(ListOf(p), next, NewOf(p))
    BY <1>9, <1>10, Ranges
  <1>12. Window(KeptOf(p), next + NewOf(p))
         /\ KeptOf(p).entries = ListOf(p).entries \cup (next .. next + NewOf(p) - 1)
    BY <1>4, <1>11, AppendWindow DEF KeptOf
  <1> QED  BY <1>4, <1>8, <1>9, <1>10, <1>11, <1>12 DEF es


\* What is put on the data socket.
LEMMA SentIs ==
    ASSUME Inv, NEW p \in OkToSend, NEW x, x = Len(OldOf(p)), NEW k, k = NewOf(p)
    PROVE  /\ SentBy(p) \in Seq(DataMessage) /\ Len(SentBy(p)) = x + k
           /\ \A i \in 1 .. x + k :
                 IF i <= x THEN /\ SentBy(p)[i] = [cmd |-> "data", n |-> OldOf(p)[i], resent |-> TRUE]
                                /\ OldOf(p)[i] \in 0 .. nextSendSequence - 1
                           ELSE SentBy(p)[i] = [cmd |-> "data", n |-> nextSendSequence + i - x - 1, resent |-> FALSE]
  <1> DEFINE v == SentBy(p)
             next == nextSendSequence
  <1>1. x \in Nat /\ k \in Nat /\ next \in Nat /\ next + k <= MaxSend /\ MaxSend \in Nat
        /\ \A i \in 1 .. x : OldOf(p)[i] \in 0 .. next - 1 /\ PacketOf(OldOf(p)[i]) = OldOf(p)[i]
    BY PermitFacts, Ranges, SMTT(40) DEF Window
  <1>2. v = [i \in 1 .. x + k |->
               IF i <= x THEN DataPacket(PacketOf(OldOf(p)[i]), TRUE)
                         ELSE DataPacket(next + i - x - 1, FALSE)]
    BY DEF SentBy
  <1> HIDE DEF v
  <1>3. \A i \in 1 .. x + k :
            v[i] = IF i <= x THEN DataPacket(PacketOf(OldOf(p)[i]), TRUE)
                             ELSE DataPacket(next + i - x - 1, FALSE)
    BY <1>2
  <1>4. ASSUME NEW i \in 1 .. x + k
        PROVE  /\ v[i] \in DataMessage
               /\ IF i <= x THEN /\ v[i] = [cmd |-> "data", n |-> OldOf(p)[i], resent |-> TRUE]
                                 /\ OldOf(p)[i] \in 0 .. next - 1
                            ELSE v[i] = [cmd |-> "data", n |-> next + i - x - 1, resent |-> FALSE]
    <2>1. CASE i <= x
      <3>1. i \in 1 .. x
        BY <2>1
      <3>2. OldOf(p)[i] \in 0 .. next - 1 /\ OldOf(p)[i] \in 0 .. MaxSend - 1
        BY <1>1, <3>1
      <3>3. v[i] = [cmd |-> "data", n |-> OldOf(p)[i], resent |-> TRUE]
        BY <1>1, <1>3, <2>1, <3>1 DEF DataPacket
      <3> QED  BY <2>1, <3>2, <3>3 DEF DataMessage
    <2>2. CASE ~(i <= x)
      <3>1. next + i - x - 1 \in 0 .. MaxSend - 1
        BY <1>1, <2>2
      <3>2. v[i] = [cmd |-> "data", n |-> next + i - x - 1, resent |-> FALSE]
        BY <1>3, <2>2 DEF DataPacket
      <3> QED  BY <2>2, <3>1, <3>2 DEF DataMessage
    <2> QED  BY <2>1, <2>2
  <1>5. v \in [1 .. x + k -> DataMessage]
    BY <1>2, <1>4
  <1>6. v \in Seq(DataMessage) /\ Len(v) = x + k
    <2>1. PICK c \in Nat : c = x + k
      BY <1>1
    <2>2. v \in [1 .. c -> DataMessage]
      BY <1>5, <2>1
    <2>3. v \in Seq(DataMessage) /\ Len(v) = c
      BY <2>2
    <2> QED  BY <2>1, <2>3
  <1> QED  BY <1>4, <1>6 DEF v

\* It is in order behind what is there.
LEMMA SentOrdered ==
    ASSUME Inv, NEW p \in OkToSend, NEW m \in FlowMessage
    PROVE  LET w == dataSocket \o SentBy(p) \o <<m>>
           IN  w \in Seq(Message) /\ WireOrdered(w, delivered, nextSendSequence + NewOf(p))
  <1> DEFINE v == SentBy(p)
  <1>0. PICK x, k, next, to : x = Len(OldOf(p)) /\ k = NewOf(p) /\ next = nextSendSequence /\ to = next + k
    OBVIOUS
  <1>1. x \in Nat /\ k \in Nat /\ next \in Nat /\ to \in Nat /\ next <= to
    BY <1>0, PermitFacts, Ranges DEF Window
  <1>2. /\ v \in Seq(DataMessage) /\ Len(v) = x + k
        /\ \A i \in 1 .. x + k :
                 IF i <= x THEN /\ v[i] = [cmd |-> "data", n |-> OldOf(p)[i], resent |-> TRUE]
                                /\ OldOf(p)[i] \in 0 .. next - 1
                           ELSE v[i] = [cmd |-> "data", n |-> next + i - x - 1, resent |-> FALSE]
    BY <1>0, SentIs
  <1> HIDE DEF v
  <1>3. \A i \in 1 .. x + k : IF i <= x THEN v[i].n \in 0 .. next - 1 /\ v[i].resent
                                        ELSE v[i].n = next + i - x - 1 /\ ~v[i].resent
    BY <1>2
  <1>4. \A j \in 1 .. Len(v) : v[j].n < to /\ (~v[j].resent => next <= v[j].n)
    BY <1>0, <1>1, <1>2, <1>3, SMTT(40)
  <1>5. \A j \in 1 .. Len(v) : ~v[j].resent => \A i \in 1 .. j - 1 : v[i].n < v[j].n
    BY <1>1, <1>2, <1>3
  <1>6. WireOrdered(dataSocket, delivered, next) /\ dataSocket \in Seq(Message) /\ delivered \subseteq 0 .. next - 1
    BY <1>0, InvNet DEF Inv, KeptInv
  <1>7. dataSocket \o v \in Seq(Message) /\ WireOrdered(dataSocket \o v, delivered, to)
    BY <1>1, <1>2, <1>4, <1>5, <1>6, ConcatOrdered
  <1>8. (dataSocket \o v) \o <<m>> \in Seq(Message) /\ WireOrdered((dataSocket \o v) \o <<m>>, delivered, to)
    BY <1>7, FlowOrdered
  <1> QED  BY <1>0, <1>8 DEF v

\* Once the request has ended there is nothing to send.
LEMMA EndedIsEmpty ==
    ASSUME Inv, NEW p \in OkToSend, ~requestActive
    PROVE  /\ NewOf(p) = 0 /\ pushed = nextSendSequence
           /\ givenUp \/ KeptOf(p).entries = {}
  <1>0. PICK k, next : k = NewOf(p) /\ next = nextSendSequence
    OBVIOUS
  <1>1. pushed - next = 0 /\ (givenUp \/ resendList.entries = {})
    BY <1>0 DEF Inv, SenderInv, AsksUntilDone, PacketsQueued
  <1>2. k \in 0 .. MaxStart /\ k <= pushed - next /\ next \in 0 .. pushed /\ pushed \in 0 .. MaxSend
    BY <1>0, PermitFacts DEF Inv, Types
  <1>3. k = 0 /\ pushed = next
    BY <1>1, <1>2, Ranges
  <1>4. KeptOf(p).entries = ListOf(p).entries \cup (next .. next + k - 1)
        /\ ListOf(p).entries \subseteq resendList.entries
    BY <1>0, PermitFacts
  <1>5. next .. next + k - 1 = {}
    BY <1>2, <1>3, Ranges
  <1> QED  BY <1>0, <1>1, <1>3, <1>4, <1>5

\* sendDone ends a request only if nothing is left to do, or after an abort.
LEMMA EndsWhenDone ==
    ASSUME Inv, NEW p \in OkToSend, NEW aborted \in BOOLEAN, ~aborted, ~MoreAfter(p, aborted)
    PROVE  /\ pushed = nextSendSequence + NewOf(p)
           /\ givenUp \/ KeptOf(p).entries = {}
  <1>0. PICK k, next : k = NewOf(p) /\ next = nextSendSequence
    OBVIOUS
  <1>1. k \in Nat /\ next \in 0 .. pushed /\ pushed \in Nat /\ k <= pushed - next
    BY <1>0, PermitFacts, Ranges DEF Inv, Types
  <1>2. CASE ~requestActive
    <2>1. k = 0 /\ pushed = next /\ (givenUp \/ KeptOf(p).entries = {})
      BY <1>0, <1>2, EndedIsEmpty
    <2> QED  BY <1>0, <1>1, <2>1
  <1>3. CASE requestActive
    <2>1. /\ ~(pushed > next + k /\ CanRecordEntry(KeptOf(p), (next + k) % SeqSpace))
          /\ KeptOf(p).entries = {}
      BY <1>0, <1>3 DEF MoreAfter, DataRemaining
    <2>2. CanRecordEntry(KeptOf(p), (next + k) % SeqSpace)
      BY <2>1 DEF CanRecordEntry
    <2>3. ~(pushed > next + k)
      BY <2>1, <2>2
    <2>4. pushed = next + k
      BY <1>1, <2>3
    <2> QED  BY <1>0, <2>1, <2>4
  <1> QED  BY <1>2, <1>3

\* Nothing lies between a number and itself.
LEMMA NoneLeft == \A a \in Int : a - a = 0
  OBVIOUS

\* A permit that is used releases only what has been delivered.
LEMMA UsePermitInv ==
    ASSUME Inv, NEW p \in OkToSend, PermitSound(p.seen, delivered),
           NEW aborted \in BOOLEAN, UsePermit(p, aborted),
           permitSocket' \in Seq(OkToSend), AllSound(permitSocket', delivered)
    PROVE  Inv'
  <1>0. PICK k : k = NewOf(p)
    OBVIOUS
  <1>1. k \in Nat /\ nextSendSequence \in 0 .. pushed /\ pushed \in 0 .. MaxSend
        /\ k <= pushed - nextSendSequence /\ activeFlowSequence \in Sequence
    BY <1>0, PermitFacts, Ranges DEF Inv, Types
  <1>2. pushed' = (IF aborted THEN nextSendSequence + k ELSE pushed) /\ nextSendSequence' = nextSendSequence + k /\ resendList' = KeptOf(p)
        /\ requestActive' = MoreAfter(p, aborted) /\ givenUp' = (givenUp \/ aborted)
        /\ UNCHANGED receiverVars
    BY <1>0, UsePermitIs
  <1>3. DoneMsg(p, aborted) \in FlowMessage
    BY <1>1 DEF DoneMsg, FlowMsg, FlowMessage
  <1>4. dataSocket' \in Seq(Message) /\ WireOrdered(dataSocket', delivered, nextSendSequence')
    <2>1. dataSocket' = dataSocket \o SentBy(p) \o <<DoneMsg(p, aborted)>>
      BY UsePermitIs
    <2> QED  BY <1>0, <1>2, <1>3, <2>1, SentOrdered
  <1>5. flowSocket' \in Seq(FlowMessage) /\ activeFlowSequence' \in Sequence
    <2>1. NextFlow(activeFlowSequence) \in Sequence
      BY <1>1, NextFlowType
    <2>2. FlowMsg("request_to_send", NextFlow(activeFlowSequence)) \in FlowMessage
      BY <2>1 DEF FlowMsg, FlowMessage
    <2>3. flowSocket \in Seq(FlowMessage)
      BY InvNet
    <2>4. flowSocket' = flowSocket
          \/ flowSocket' = Append(flowSocket, FlowMsg("request_to_send", NextFlow(activeFlowSequence)))
      BY UsePermitIs
    <2>5. flowSocket' \in Seq(FlowMessage)
      BY <2>2, <2>3, <2>4
    <2>6. activeFlowSequence' = NextFlow(activeFlowSequence) \/ activeFlowSequence' = activeFlowSequence
      BY UsePermitIs
    <2> QED  BY <1>1, <2>1, <2>5, <2>6
  <1>6. requestActive' \in BOOLEAN /\ givenUp' \in BOOLEAN
    BY <1>2 DEF MoreAfter
  <1>7. Types'
    <2>1. pushed' \in 0 .. MaxSend /\ nextSendSequence' \in 0 .. pushed'
      BY <1>1, <1>2, Ranges
    <2>2. entry' \in Entries
      BY <1>2, InvNet DEF receiverVars
    <2> QED  BY <1>4, <1>5, <1>6, <2>1, <2>2 DEF Types
  <1>8. SenderInv'
    <2>1. Window(resendList', nextSendSequence')
      BY <1>0, <1>2, PermitFacts
    <2>2. ASSUME pushed' = nextSendSequence' PROVE pushed' - nextSendSequence' = 0
      <3>1. nextSendSequence' \in Int
        BY <1>1, <1>2, Ranges
      <3> QED  BY <2>2, <3>1, NoneLeft, Zenon
    <2>3. CASE aborted
      <3>1. pushed' = nextSendSequence'
        BY <1>2, <2>3
      <3>2. pushed' - nextSendSequence' = 0
        BY <2>2, <3>1, Zenon
      <3>3. givenUp'
        BY <1>2, <2>3, Zenon
      <3> QED  BY <2>1, <3>2, <3>3, Zenon DEF SenderInv, AsksUntilDone, PacketsQueued
    <2>4. CASE ~aborted /\ ~MoreAfter(p, aborted)
      <3>1. pushed = nextSendSequence + k /\ (givenUp \/ KeptOf(p).entries = {})
        BY <1>0, <2>4, EndsWhenDone
      <3>2. pushed' = nextSendSequence'
        BY <1>2, <2>4, <3>1
      <3>3. pushed' - nextSendSequence' = 0
        BY <2>2, <3>2, Zenon
      <3>4. givenUp' \/ resendList'.entries = {}
        BY <1>2, <3>1, Zenon
      <3> QED  BY <2>1, <3>3, <3>4, Zenon DEF SenderInv, AsksUntilDone, PacketsQueued
    <2>5. CASE MoreAfter(p, aborted)
      BY <1>2, <2>1, <2>5 DEF SenderInv, AsksUntilDone
    <2> QED  BY <2>3, <2>4, <2>5
  <1>9. KeptInv'
    <2>1. delivered' = delivered /\ delivered \subseteq 0 .. nextSendSequence - 1
          /\ \A n \in 0 .. nextSendSequence - 1 : n \in delivered \/ n \in resendList.entries
      BY <1>2 DEF receiverVars, Inv, KeptInv
    <2>2. delivered \subseteq 0 .. (nextSendSequence + k) - 1
      BY <1>1, <2>1
    <2>3. PICK C \in SUBSET delivered, B \in 0 .. MaxSend : Records(p.seen, C, B)
      BY DEF PermitSound
    <2>4. ASSUME NEW n \in 0 .. (nextSendSequence + k) - 1
          PROVE  n \in delivered \/ n \in KeptOf(p).entries
      <3>1. KeptOf(p).entries = ListOf(p).entries \cup (nextSendSequence .. nextSendSequence + k - 1)
        BY <1>0, PermitFacts
      <3>2. CASE nextSendSequence <= n
        BY <1>1, <3>1, <3>2
      <3>3. CASE ~(nextSendSequence <= n)
        <4>1. n \in 0 .. nextSendSequence - 1 /\ n \in 0 .. MaxSend - 1
          BY <1>1, <3>3, Ranges
        <4>2. CASE n \in delivered
          BY <4>2
        <4>3. CASE n \notin delivered
          <5>1. n \in resendList.entries /\ n \notin C
            BY <2>1, <4>1, <4>3
          <5>2. ~HasSeen(p.seen, n)
            BY <2>3, <4>1, <5>1, HasSeenExact
          <5>3. n \notin Confirmed(resendList, p.seen, p.max_data, resendList.entries)
            BY <5>2 DEF Confirmed
          <5>4. n \in ListOf(p).entries
            BY <5>1, <5>3, PermitFacts
          <5> QED  BY <3>1, <5>4
        <4> QED  BY <4>2, <4>3
      <3> QED  BY <3>2, <3>3
    <2> QED  BY <1>2, <2>1, <2>2, <2>4 DEF KeptInv
  <1>10. TrackedInv'
    BY <1>2 DEF receiverVars, Inv, TrackedInv
  <1>11. NetInv'
    BY <1>2, <1>4 DEF receiverVars, NetInv
  <1> QED  BY <1>7, <1>8, <1>9, <1>10, <1>11 DEF Inv

\* A permit arrives at the sender, which uses it or drops it.
LEMMA PermitArrivesInv == Inv /\ PermitArrives => Inv'
  <1> SUFFICES ASSUME Inv, PermitArrives PROVE Inv'
    OBVIOUS
  <1>1. PICK i \in Next1(permitSocket) :
           /\ permitSocket' = RemoveAt(permitSocket, i)
           /\ IF permitSocket[i].flowSeq = activeFlowSequence
              THEN \E aborted \in BOOLEAN :
                       /\ aborted => requestActive /\ aborts < MaxAborts
                       /\ UsePermit(permitSocket[i], aborted)
              ELSE UNCHANGED <<senderVars, receiverVars, flowSocket, dataSocket, losses>>
    BY DEF PermitArrives
  <1>2. PICK p : p = permitSocket[i]
    OBVIOUS
  <1>3. permitSocket \in Seq(OkToSend) /\ AllSound(permitSocket, delivered) /\ i \in DOMAIN permitSocket
    BY InvNet DEF Next1
  <1>4. i \in 1 .. Len(permitSocket) /\ p \in OkToSend /\ PermitSound(p.seen, delivered)
    BY <1>2, <1>3 DEF AllSound
  <1>5. permitSocket' \in Seq(OkToSend) /\ AllSound(permitSocket', delivered)
    BY <1>1, <1>3, <1>4, SoundRemove
  <1>6. CASE p.flowSeq = activeFlowSequence
    <2>1. PICK aborted \in BOOLEAN : UsePermit(p, aborted)
      BY <1>1, <1>2, <1>6
    <2> QED  BY <1>4, <1>5, <2>1, UsePermitInv
  <1>7. CASE p.flowSeq # activeFlowSequence
    <2>1. UNCHANGED <<senderVars, receiverVars, flowSocket, dataSocket, losses>>
      BY <1>1, <1>2, <1>7
    <2> QED  BY <1>5, <2>1, InvNet, FrameInv DEF receiverVars
  <1> QED  BY <1>6, <1>7

\* Stuttering.
LEMMA StutterInv == Inv /\ UNCHANGED vars => Inv'
  BY InvNet, FrameInv DEF vars, receiverVars, netVars

\* Every step keeps the invariant.
THEOREM InvInductive == TransportSpec => []Inv
  <1>1. Inv /\ [TransportNext]_vars => Inv'
    BY PushDataInv, ResendRequestInv, GiveUpInv, RemoveDataInv, PermitArrivesInv, FlowArrivesInv, GrantPermitInv,
       ExpirePermitInv, RedirectFlowMsgInv, DataArrivesInv, LoseInv, StutterInv DEF TransportNext
  <1> QED  BY InitInv, <1>1, PTL DEF TransportSpec

\* AsksUntilDone: with either setting of udpAllowAsyncPermits, whatever permits
\* come late or again and whenever an abort() comes between, packets are queued
\* only while a request for them is active, and while packets wait to be
\* confirmed the request only ends because the sender has given it up.
THEOREM SenderAsksUntilDone == TransportSpec => []AsksUntilDone
  <1>1. Inv => AsksUntilDone
    BY DEF Inv, SenderInv
  <1> QED  BY InvInductive, <1>1, PTL

\* NothingForgotten: noteRead never releases the copy of a packet that has not
\* been handed to the collators, with the permits the flow control really
\* issues.
THEOREM NothingIsForgotten == TransportSpec => []NothingForgotten
  <1>1. Inv => NothingForgotten
    <2> SUFFICES ASSUME Inv, NEW n \in 0 .. nextSendSequence - 1, n \notin delivered
                 PROVE  \E e \in resendList.entries : PacketOf(e) = n
      BY DEF NothingForgotten
    <2>1. n \in resendList.entries
      BY DEF Inv, KeptInv
    <2>2. Delta(nextSendSequence, n) = nextSendSequence - n
      BY <2>1, EntryIs DEF Inv, SenderInv
    <2>3. PacketOf(n) = n
      BY <2>2 DEF PacketOf, Inv, Types
    <2> QED  BY <2>1, <2>3
  <1> QED  BY InvInductive, <1>1, PTL


-----------------------------------------------------------------------------
(* Flow sequence numbers, as long as they do not wrap around.                 *)

\* Nothing on its way is for a later request than the current one; a
\* request_to_send_more is for the one before.
FlowUpTo(A)   == {m \in FlowMessage : m.flowSeq <= A /\ (m.cmd = "request_to_send_more" => m.flowSeq < A)}
PermitUpTo(A) == {p \in OkToSend : p.flowSeq <= A}

FlowNumbers ==
    /\ activeFlowSequence <= MaxFlow
    /\ entry.flowSeq <= activeFlowSequence
    /\ flowSocket \in Seq(FlowUpTo(activeFlowSequence))
    /\ dataSocket \in Seq(FlowUpTo(activeFlowSequence) \cup DataMessage)
    /\ permitSocket \in Seq(PermitUpTo(activeFlowSequence))

\* The number after one that is not the last.
LEMMA NextFlowIs ==
    ASSUME MaxFlow < SeqSpace - 1, NEW f \in Sequence, f <= MaxFlow
    PROVE  NextFlow(f) = f + 1
  <1>1. PICK a : a = f + 1
    OBVIOUS
  <1>2. a \in 1 .. SeqSpace - 1 /\ SeqSpace \in Nat
    BY <1>1, Ranges DEF Sequence
  <1>3. a % SeqSpace = a /\ a # 0
    BY <1>2
  <1> QED  BY <1>1, <1>3 DEF NextFlow

\* A later request leaves everything behind.
LEMMA UpToGrows ==
    ASSUME NEW A \in Int, NEW C \in Int, A <= C
    PROVE  /\ \A s : s \in Seq(FlowUpTo(A)) => s \in Seq(FlowUpTo(C))
           /\ \A s : s \in Seq(FlowUpTo(A) \cup DataMessage) => s \in Seq(FlowUpTo(C) \cup DataMessage)
           /\ \A s : s \in Seq(PermitUpTo(A)) => s \in Seq(PermitUpTo(C))
  <1>1. FlowUpTo(A) \subseteq FlowUpTo(C)
    BY DEF FlowUpTo, FlowMessage, Sequence
  <1>2. PermitUpTo(A) \subseteq PermitUpTo(C)
    BY DEF PermitUpTo, OkToSend, Sequence
  <1>3. FlowUpTo(A) \cup DataMessage \subseteq FlowUpTo(C) \cup DataMessage
    BY <1>1
  <1>4. ASSUME NEW S, NEW T, S \subseteq T PROVE \A s : s \in Seq(S) => s \in Seq(T)
    BY <1>4
  <1> QED  BY <1>1, <1>2, <1>3, <1>4

\* What FlowNumbers needs of a step that does not make a new request.
LEMMA SameRequest ==
    ASSUME Inv, FlowNumbers, activeFlowSequence' = activeFlowSequence,
           entry'.flowSeq <= activeFlowSequence,
           flowSocket' \in Seq(FlowUpTo(activeFlowSequence)),
           dataSocket' \in Seq(FlowUpTo(activeFlowSequence) \cup DataMessage),
           permitSocket' \in Seq(PermitUpTo(activeFlowSequence))
    PROVE  FlowNumbers'
  BY DEF FlowNumbers

\* The sender makes a new request.
LEMMA PushDataFlow ==
    ASSUME MaxFlow < SeqSpace - 1, Inv, FlowNumbers, PushData
    PROVE  FlowNumbers'
  <1>1. PICK A : A = activeFlowSequence
    OBVIOUS
  <1>2. A \in Sequence /\ A \in Int /\ A <= MaxFlow /\ entry.flowSeq \in Sequence
    BY <1>1, InvNet DEF FlowNumbers, Sequence, Entries
  <1>3. entry' = entry /\ dataSocket' = dataSocket /\ permitSocket' = permitSocket
    BY DEF PushData, receiverVars
  <1>4. CASE PacketsQueued = 0 /\ ~requestActive
    <2>1. activeFlowSequence' = A + 1 /\ A + 1 <= MaxFlow /\ A + 1 \in Sequence
      <3>1. NextFlow(A) = A + 1 /\ NextFlow(A) \in Sequence
        BY <1>2, NextFlowIs, NextFlowType
      <3> QED  BY <1>1, <1>4, <3>1 DEF PushData
    <2>2. PICK C : C = A + 1
      OBVIOUS
    <2>3. C \in Int /\ A <= C /\ C \in Sequence
      BY <1>2, <2>1, <2>2
    <2>4. FlowMsg("request_to_send", C) \in FlowUpTo(C)
      BY <2>3 DEF FlowMsg, FlowUpTo, FlowMessage
    <2>5. flowSocket \in Seq(FlowUpTo(C)) /\ dataSocket \in Seq(FlowUpTo(C) \cup DataMessage)
          /\ permitSocket \in Seq(PermitUpTo(C))
      BY <1>1, <1>2, <2>3, UpToGrows DEF FlowNumbers
    <2>6. flowSocket' = Append(flowSocket, FlowMsg("request_to_send", C))
      BY <1>4, <2>1, <2>2 DEF PushData
    <2>7. flowSocket' \in Seq(FlowUpTo(C))
      BY <2>4, <2>5, <2>6
    <2>8. entry.flowSeq <= C
      BY <1>1, <1>2, <2>3 DEF FlowNumbers, Sequence
    <2> QED  BY <1>3, <2>1, <2>2, <2>5, <2>7, <2>8 DEF FlowNumbers
  <1>5. CASE ~(PacketsQueued = 0 /\ ~requestActive)
    <2>1. UNCHANGED <<activeFlowSequence, flowSocket>>
      BY <1>5 DEF PushData
    <2> QED  BY <1>3, <2>1 DEF FlowNumbers
  <1> QED  BY <1>4, <1>5

\* A permit is used: the completion is for the request it ends.
LEMMA UsePermitFlow ==
    ASSUME MaxFlow < SeqSpace - 1, Inv, FlowNumbers, NEW p \in OkToSend,
           NEW aborted, UsePermit(p, aborted),
           permitSocket' \in Seq(PermitUpTo(activeFlowSequence))
    PROVE  FlowNumbers'
  <1>1. PICK A : A = activeFlowSequence
    OBVIOUS
  <1>2. A \in Sequence /\ A \in Int /\ A <= MaxFlow /\ entry.flowSeq \in Sequence
    BY <1>1, InvNet DEF FlowNumbers, Sequence, Entries
  <1>3. NextFlow(A) = A + 1 /\ NextFlow(A) \in Sequence
    BY <1>2, NextFlowIs, NextFlowType
  <1>4. PICK C : C = IF MoreAfter(p, aborted) THEN A + 1 ELSE A
    OBVIOUS
  <1>5. C \in Sequence /\ C \in Int /\ A <= C /\ (MoreAfter(p, aborted) => A < C /\ C = A + 1)
    BY <1>2, <1>3, <1>4
  <1>6. activeFlowSequence' = C /\ C <= MaxFlow
    BY <1>1, <1>2, <1>3, <1>4, UsePermitIs
  <1>7. flowSocket \in Seq(FlowUpTo(C)) /\ dataSocket \in Seq(FlowUpTo(C) \cup DataMessage)
        /\ permitSocket' \in Seq(PermitUpTo(C))
    <2>1. flowSocket \in Seq(FlowUpTo(A)) /\ dataSocket \in Seq(FlowUpTo(A) \cup DataMessage)
          /\ permitSocket' \in Seq(PermitUpTo(A))
      BY <1>1 DEF FlowNumbers
    <2> QED  BY <1>2, <1>5, <2>1, UpToGrows
  <1>8. flowSocket' \in Seq(FlowUpTo(C))
    <2>1. CASE MoreAfter(p, aborted) /\ AllowAsyncPermits
      <3>1. flowSocket' = Append(flowSocket, FlowMsg("request_to_send", C))
        BY <1>1, <1>3, <1>5, <2>1, UsePermitIs
      <3>2. FlowMsg("request_to_send", C) \in FlowUpTo(C)
        BY <1>5 DEF FlowMsg, FlowUpTo, FlowMessage
      <3> QED  BY <1>7, <3>1, <3>2
    <2>2. CASE ~(MoreAfter(p, aborted) /\ AllowAsyncPermits)
      <3>1. flowSocket' = flowSocket
        BY <2>2, UsePermitIs
      <3> QED  BY <1>7, <3>1
    <2> QED  BY <2>1, <2>2
  <1>9. dataSocket' \in Seq(FlowUpTo(C) \cup DataMessage)
    <2>1. DoneMsg(p, aborted) \in FlowUpTo(C)
      <3>1. CASE MoreAfter(p, aborted)
        BY <1>1, <1>2, <1>5, <3>1 DEF DoneMsg, FlowMsg, FlowUpTo, FlowMessage
      <3>2. CASE ~MoreAfter(p, aborted)
        BY <1>1, <1>2, <1>5, <3>2 DEF DoneMsg, FlowMsg, FlowUpTo, FlowMessage
      <3> QED  BY <3>1, <3>2
    <2>2. PICK T : T = FlowUpTo(C) \cup DataMessage
      OBVIOUS
    <2>3. SentBy(p) \in Seq(DataMessage)
      BY SentIs
    <2>4. SentBy(p) \in Seq(T) /\ dataSocket \in Seq(T) /\ DoneMsg(p, aborted) \in T
      BY <1>7, <2>1, <2>2, <2>3
    <2>5. PICK v : v = SentBy(p)
      OBVIOUS
    <2>6. dataSocket \o v \in Seq(T)
      BY <2>4, <2>5
    <2>7. (dataSocket \o v) \o <<DoneMsg(p, aborted)>> \in Seq(T)
      BY <2>4, <2>6
    <2>8. dataSocket' = (dataSocket \o v) \o <<DoneMsg(p, aborted)>>
      BY <2>5, UsePermitIs
    <2> QED  BY <2>2, <2>7, <2>8
  <1>10. entry'.flowSeq <= C
    <2>1. entry' = entry
      BY UsePermitIs DEF receiverVars
    <2>2. entry.flowSeq <= A
      BY <1>1 DEF FlowNumbers
    <2> QED  BY <1>2, <1>5, <2>1, <2>2 DEF Sequence
  <1> QED  BY <1>6, <1>7, <1>8, <1>9, <1>10 DEF FlowNumbers

\* A permit that arrives may start the next request, with a greater number.
LEMMA PermitArrivesFlow ==
    ASSUME MaxFlow < SeqSpace - 1, Inv, FlowNumbers, PermitArrives
    PROVE  FlowNumbers'
  <1>1. PICK i \in Next1(permitSocket) :
           /\ permitSocket' = RemoveAt(permitSocket, i)
           /\ IF permitSocket[i].flowSeq = activeFlowSequence
              THEN \E aborted \in BOOLEAN :
                       /\ aborted => requestActive /\ aborts < MaxAborts
                       /\ UsePermit(permitSocket[i], aborted)
              ELSE UNCHANGED <<senderVars, receiverVars, flowSocket, dataSocket, losses>>
    BY DEF PermitArrives
  <1>2. permitSocket \in Seq(PermitUpTo(activeFlowSequence)) /\ i \in DOMAIN permitSocket
    BY DEF FlowNumbers, Next1
  <1>3. i \in 1 .. Len(permitSocket) /\ permitSocket[i] \in OkToSend
    BY <1>2 DEF PermitUpTo
  <1>4. permitSocket' \in Seq(PermitUpTo(activeFlowSequence))
    BY <1>1, <1>2, <1>3, RemoveAtIs
  <1>5. CASE permitSocket[i].flowSeq = activeFlowSequence
    <2>1. PICK aborted \in BOOLEAN : UsePermit(permitSocket[i], aborted)
      BY <1>1, <1>5
    <2> QED  BY <1>3, <1>4, <2>1, UsePermitFlow
  <1>6. CASE permitSocket[i].flowSeq # activeFlowSequence
    <2>1. UNCHANGED <<senderVars, receiverVars, flowSocket, dataSocket, losses>>
      BY <1>1, <1>6
    <2> QED  BY <1>4, <2>1, SameRequest DEF senderVars, receiverVars, FlowNumbers
  <1> QED  BY <1>5, <1>6

\* A permit is written for the request of the entry.
LEMMA NewPermitFlow ==
    ASSUME Inv, FlowNumbers, NEW f \in Sequence, f <= activeFlowSequence,
           NEW max \in 0 .. MaxStart, SendPermitToSend(f, max)
    PROVE  permitSocket' \in Seq(PermitUpTo(activeFlowSequence))
  <1>1. packetsSeen \in Tracker
    BY DEF Inv, TrackedInv, Records
  <1>2. [flowSeq |-> f, max_data |-> max, seen |-> packetsSeen] \in PermitUpTo(activeFlowSequence)
    BY <1>1 DEF PermitUpTo, OkToSend
  <1> QED  BY <1>2 DEF SendPermitToSend, FlowNumbers

\* A request is noted, with the latest number that is possible.
LEMMA NoteRequestFlow ==
    ASSUME Inv, FlowNumbers, NEW e \in Entries, e.flowSeq <= activeFlowSequence,
           NEW f \in Sequence, f <= activeFlowSequence, NoteRequest(e, f)
    PROVE  /\ entry'.flowSeq <= activeFlowSequence
           /\ permitSocket' \in Seq(PermitUpTo(activeFlowSequence))
  <1>1. entry'.flowSeq <= activeFlowSequence
    <2>1. entry' = e \/ entry' = [e EXCEPT !.state = "requested", !.flowSeq = f]
      BY DEF NoteRequest, AfterRequest
    <2> QED  BY <2>1 DEF Entries
  <1>2. CASE PermitsOf(e, f) # {}
    <2>1. PICK max \in 0 .. MaxStart : SendPermitToSend(e.flowSeq, max)
      BY <1>2 DEF NoteRequest
    <2>2. e.flowSeq \in Sequence
      BY DEF Entries
    <2> QED  BY <1>1, <2>1, <2>2, NewPermitFlow
  <1>3. CASE PermitsOf(e, f) = {}
    BY <1>1, <1>3 DEF NoteRequest, FlowNumbers
  <1> QED  BY <1>2, <1>3

\* A flow message that arrives bears no number the sender has not reached.
LEMMA FlowArrivesFlow ==
    ASSUME MaxFlow < SeqSpace - 1, Inv, FlowNumbers, FlowArrives
    PROVE  FlowNumbers'
  <1>1. PICK i \in Next1(flowSocket) :
           /\ DoFlowRequest(flowSocket[i])
           /\ flowSocket' = RemoveAt(flowSocket, i)
           /\ UNCHANGED <<senderVars, packetsSeen, delivered, twice, dataSocket, losses>>
    BY DEF FlowArrives
  <1>2. PICK m, A : m = flowSocket[i] /\ A = activeFlowSequence
    OBVIOUS
  <1>3. flowSocket \in Seq(FlowUpTo(A)) /\ i \in DOMAIN flowSocket
    BY <1>2 DEF FlowNumbers, Next1
  <1>4. i \in 1 .. Len(flowSocket) /\ m \in FlowUpTo(A)
    BY <1>2, <1>3
  <1>5. m \in FlowMessage /\ m.flowSeq \in Sequence /\ m.flowSeq <= A
        /\ (m.cmd = "request_to_send_more" => m.flowSeq < A)
    BY <1>4 DEF FlowUpTo, FlowMessage
  <1>6. entry \in Entries /\ entry.flowSeq <= A /\ A \in Sequence /\ A <= MaxFlow
    BY <1>2, InvNet DEF FlowNumbers
  <1>7. flowSocket' \in Seq(FlowUpTo(A))
    BY <1>1, <1>3, <1>4, RemoveAtIs
  <1>8. entry'.flowSeq <= A /\ permitSocket' \in Seq(PermitUpTo(A))
    <2>1. CASE m.cmd = "request_to_send"
      <3>1. NoteRequest(entry, m.flowSeq)
        BY <1>1, <1>2, <2>1 DEF DoFlowRequest
      <3> QED  BY <1>2, <1>5, <1>6, <3>1, NoteRequestFlow
    <2>2. CASE m.cmd = "send_completed"
      <3>1. entry' = AfterDone(entry, m.flowSeq) /\ UNCHANGED permitSocket
        BY <1>1, <1>2, <2>2 DEF DoFlowRequest
      <3>2. entry'.flowSeq = entry.flowSeq
        BY <1>6, <3>1 DEF AfterDone, Entries
      <3> QED  BY <1>2, <1>6, <3>1, <3>2 DEF FlowNumbers
    <2>3. CASE m.cmd = "request_to_send_more"
      <3>1. NoteRequest(AfterDone(entry, m.flowSeq), NextFlow(m.flowSeq))
        BY <1>1, <1>2, <2>3 DEF DoFlowRequest
      <3>2. AfterDone(entry, m.flowSeq) \in Entries /\ AfterDone(entry, m.flowSeq).flowSeq = entry.flowSeq
        <4>1. AfterDone(entry, m.flowSeq) \in Entries
          BY <1>6, DoneType
        <4>2. AfterDone(entry, m.flowSeq).flowSeq = entry.flowSeq
          BY <1>6 DEF AfterDone, Entries
        <4> QED  BY <4>1, <4>2
      <3>3. NextFlow(m.flowSeq) = m.flowSeq + 1 /\ NextFlow(m.flowSeq) \in Sequence
            /\ m.flowSeq + 1 <= A
        <4>1. m.flowSeq \in Int /\ A \in Int /\ m.flowSeq < A /\ m.flowSeq <= MaxFlow
          BY <1>5, <1>6, <2>3, Ranges DEF Sequence
        <4> QED  BY <1>5, <4>1, NextFlowIs, NextFlowType
      <3> QED  BY <1>2, <1>6, <3>1, <3>2, <3>3, NoteRequestFlow
    <2> QED  BY <1>5, <2>1, <2>2, <2>3 DEF FlowMessage
  <1> QED  BY <1>1, <1>2, <1>7, <1>8, SameRequest DEF senderVars, FlowNumbers

\* A new permit bears the number of the entry.
LEMMA GrantPermitFlow ==
    ASSUME Inv, FlowNumbers, GrantPermit
    PROVE  FlowNumbers'
  <1>1. PICK n \in 1 .. MaxSlotsPerSender : entry' = AfterGrant(entry, n) /\ SendPermitToSend(entry.flowSeq, n)
    BY DEF GrantPermit
  <1>2. UNCHANGED <<senderVars, flowSocket, dataSocket>>
    BY DEF GrantPermit
  <1>3. entry \in Entries /\ entry.flowSeq <= activeFlowSequence
    BY InvNet DEF FlowNumbers
  <1>4. entry.flowSeq \in Sequence /\ n \in 0 .. MaxStart /\ entry'.flowSeq = entry.flowSeq
    BY <1>1, <1>3, Ranges DEF Entries, AfterGrant
  <1>5. permitSocket' \in Seq(PermitUpTo(activeFlowSequence))
    BY <1>1, <1>3, <1>4, NewPermitFlow
  <1> QED  BY <1>2, <1>3, <1>4, <1>5, SameRequest DEF senderVars, FlowNumbers

\* Steps that move or drop messages, or empty the queues.
LEMMA OtherFlow ==
    ASSUME Inv, FlowNumbers,
           ResendRequest \/ GiveUp \/ RemoveData \/ ExpirePermit \/ DataArrives \/ RedirectFlowMsg
    PROVE  FlowNumbers'
  <1>1. PICK A : A = activeFlowSequence
    OBVIOUS
  <1>2. A \in Sequence /\ entry \in Entries /\ entry.flowSeq <= A /\ dataSocket \in Seq(Message)
        /\ flowSocket \in Seq(FlowUpTo(A)) /\ dataSocket \in Seq(FlowUpTo(A) \cup DataMessage)
        /\ permitSocket \in Seq(PermitUpTo(A))
    BY <1>1, InvNet DEF FlowNumbers
  <1>3. CASE ResendRequest
    <2>1. FlowMsg("request_to_send", A) \in FlowUpTo(A)
      BY <1>2 DEF FlowMsg, FlowUpTo, FlowMessage, Sequence
    <2>2. flowSocket' \in Seq(FlowUpTo(A))
      BY <1>1, <1>2, <1>3, <2>1 DEF ResendRequest
    <2> QED  BY <1>1, <1>2, <1>3, <2>2, SameRequest DEF ResendRequest, senderVars, receiverVars
  <1>4. CASE ExpirePermit
    <2>1. PICK abandon \in BOOLEAN : entry' = AfterExpiry(entry, abandon)
      BY <1>4 DEF ExpirePermit
    <2>2. entry'.flowSeq = entry.flowSeq
      BY <1>2, <2>1 DEF AfterExpiry, Entries
    <2> QED  BY <1>1, <1>2, <1>4, <2>2, SameRequest DEF ExpirePermit, senderVars, netVars
  <1>5. ASSUME dataSocket # <<>> PROVE Tail(dataSocket) \in Seq(FlowUpTo(A) \cup DataMessage)
    <2>1. PICK T : T = FlowUpTo(A) \cup DataMessage
      OBVIOUS
    <2>2. dataSocket \in Seq(T)
      BY <1>2, <2>1
    <2>3. Tail(dataSocket) \in Seq(T)
      BY <1>5, <2>2
    <2> QED  BY <2>1, <2>3
  <1>6. CASE DataArrives
    <2>1. dataSocket' \in Seq(FlowUpTo(A) \cup DataMessage)
          /\ UNCHANGED <<senderVars, entry, flowSocket, permitSocket>>
      BY <1>5, <1>6 DEF DataArrives
    <2> QED  BY <1>1, <1>2, <2>1, SameRequest DEF senderVars
  <1>7. CASE RedirectFlowMsg
    <2>1. dataSocket # <<>> /\ Head(dataSocket).cmd # "data" /\ dataSocket' = Tail(dataSocket)
          /\ flowSocket' = Append(flowSocket, Head(dataSocket))
          /\ UNCHANGED <<senderVars, receiverVars, permitSocket>>
      BY <1>7 DEF RedirectFlowMsg
    <2>2. Head(dataSocket) \in FlowUpTo(A) \cup DataMessage
      BY <1>2, <2>1, TailIs
    <2>3. Head(dataSocket) \in FlowUpTo(A)
      BY <2>1, <2>2 DEF DataMessage
    <2>4. flowSocket' \in Seq(FlowUpTo(A))
      BY <1>2, <2>1, <2>3
    <2> QED  BY <1>1, <1>2, <1>5, <2>1, <2>4, SameRequest DEF senderVars, receiverVars
  <1>8. CASE GiveUp \/ RemoveData
    <2>1. UNCHANGED <<activeFlowSequence, entry, flowSocket, dataSocket, permitSocket>>
      BY <1>8 DEF GiveUp, RemoveData, receiverVars, netVars
    <2> QED  BY <2>1 DEF FlowNumbers
  <1> QED  BY <1>3, <1>4, <1>6, <1>7, <1>8

\* Losing a message leaves the numbers in order.
LEMMA LoseFlow ==
    ASSUME Inv, FlowNumbers, Lose
    PROVE  FlowNumbers'
  <1>1. UNCHANGED <<senderVars, receiverVars>>
    BY DEF Lose
  <1>2. PICK A : A = activeFlowSequence
    OBVIOUS
  <1>3. entry.flowSeq <= A /\ flowSocket \in Seq(FlowUpTo(A))
        /\ dataSocket \in Seq(FlowUpTo(A) \cup DataMessage) /\ permitSocket \in Seq(PermitUpTo(A))
    BY <1>2 DEF FlowNumbers
  <1>4. CASE LoseFrom(flowSocket, flowSocket') /\ UNCHANGED <<dataSocket, permitSocket>>
    <2>1. PICK i \in 1 .. Len(flowSocket) : flowSocket' = RemoveAt(flowSocket, i)
      BY <1>3, <1>4 DEF LoseFrom
    <2>2. flowSocket' \in Seq(FlowUpTo(A))
      BY <1>3, <2>1, RemoveAtIs
    <2> QED  BY <1>1, <1>2, <1>3, <1>4, <2>2, SameRequest DEF senderVars, receiverVars
  <1>5. CASE LoseFrom(dataSocket, dataSocket') /\ UNCHANGED <<flowSocket, permitSocket>>
    <2>1. PICK i \in 1 .. Len(dataSocket) : dataSocket' = RemoveAt(dataSocket, i)
      BY <1>3, <1>5 DEF LoseFrom
    <2>2. dataSocket' \in Seq(FlowUpTo(A) \cup DataMessage)
      BY <1>3, <2>1, RemoveAtIs
    <2> QED  BY <1>1, <1>2, <1>3, <1>5, <2>2, SameRequest DEF senderVars, receiverVars
  <1>6. CASE LoseFrom(permitSocket, permitSocket') /\ UNCHANGED <<flowSocket, dataSocket>>
    <2>1. PICK i \in 1 .. Len(permitSocket) : permitSocket' = RemoveAt(permitSocket, i)
      BY <1>3, <1>6 DEF LoseFrom
    <2>2. permitSocket' \in Seq(PermitUpTo(A))
      BY <1>3, <2>1, RemoveAtIs
    <2> QED  BY <1>1, <1>2, <1>3, <1>6, <2>2, SameRequest DEF senderVars, receiverVars
  <1> QED  BY <1>4, <1>5, <1>6 DEF Lose

\* They are in order at first.
LEMMA InitFlow == TransportInit => FlowNumbers
  <1> SUFFICES ASSUME TransportInit PROVE FlowNumbers
    OBVIOUS
  <1>1. activeFlowSequence <= MaxFlow /\ entry.flowSeq <= activeFlowSequence
    BY Ranges DEF TransportInit, Init, NewEntry
  <1>2. flowSocket = <<>> /\ dataSocket = <<>> /\ permitSocket = <<>>
    BY DEF TransportInit
  <1> QED  BY <1>1, <1>2 DEF FlowNumbers

\* Flow sequence numbers that do not wrap around only go up.
LEMMA FlowStep ==
    ASSUME MaxFlow < SeqSpace - 1, Inv, FlowNumbers, [TransportNext]_vars
    PROVE  FlowNumbers'
  <1>1. CASE UNCHANGED vars
    BY <1>1 DEF vars, senderVars, receiverVars, netVars, FlowNumbers
  <1>2. CASE TransportNext
    BY <1>2, PushDataFlow, PermitArrivesFlow, FlowArrivesFlow, GrantPermitFlow, OtherFlow, LoseFlow
    DEF TransportNext
  <1> QED  BY <1>1, <1>2


-----------------------------------------------------------------------------
(* What UdpDataStream sees of the sockets.                                    *)

Plain(m)    == [n |-> m.n, resent |-> m.resent]
PlainPacket == [n : 0 .. MaxSend - 1, resent : BOOLEAN]

\* Any list of the positions of the packets tells which they are.
LEMMA PacketsIs ==
    ASSUME NEW w \in Seq(Message), NEW h, NEW m, Enumerates(h, m, DataAt(w))
    PROVE  /\ m \in Nat
           /\ \A j \in 1 .. m : h[j] \in DataAt(w) /\ h[j] \in 1 .. Len(w)
           /\ Packets(w) = [j \in 1 .. m |-> Plain(w[h[j]])]
           /\ Packets(w) \in Seq(PlainPacket) /\ Len(Packets(w)) = m
  <1>1. PICK I : I = DataAt(w)
    OBVIOUS
  <1>2. I \in SUBSET (1 .. Len(w)) /\ Len(w) \in Nat /\ \A i \in I : w[i].cmd = "data"
    BY <1>1 DEF DataAt
  <1>3. PICK d : d = KeepAt(w, I)
    OBVIOUS
  <1>4. d = Through(w, h, m) /\ Enumerates(h, m, I)
    <2>1. I \in SUBSET Int /\ IsFiniteSet(I)
      BY <1>2, Positions
    <2>2. Enumerates(h, m, I)
      BY <1>1
    <2>3. KeepAt(w, I) = Through(w, h, m)
      BY <2>1, <2>2, KeepAtIs
    <2> QED  BY <1>3, <2>2, <2>3
  <1>5. /\ d \in Seq(Message) /\ Len(d) = m /\ m \in Nat
        /\ \A j \in 1 .. m : h[j] \in I /\ h[j] \in 1 .. Len(w) /\ d[j] = w[h[j]]
    <2>1. I \in SUBSET (1 .. Len(w)) /\ Enumerates(h, m, I)
      BY <1>2, <1>4
    <2>2. Selects(Message, w, I, h, m)
      BY <2>1, ThroughIs
    <2> QED  BY <1>4, <2>2 DEF Selects
  <1>6. \A j \in 1 .. m : w[h[j]] \in DataMessage
    <2>1. \A i \in 1 .. Len(w) : w[i] \in Message
      OBVIOUS
    <2> QED  BY <1>2, <1>5, <2>1, MessageIs
  <1>7. Packets(w) = [j \in 1 .. m |-> Plain(w[h[j]])]
    <2>1. Packets(w) = [j \in DOMAIN d |-> Plain(d[j])]
      BY <1>1, <1>3 DEF Packets, Plain
    <2>2. DOMAIN d = 1 .. m
      BY <1>5
    <2> QED  BY <1>5, <2>1, <2>2
  <1>8. \A j \in 1 .. m : Plain(w[h[j]]) \in PlainPacket
    BY <1>6 DEF Plain, PlainPacket, DataMessage
  <1>9. PICK r : r = Packets(w)
    OBVIOUS
  <1>10. r \in [1 .. m -> PlainPacket]
    BY <1>7, <1>8, <1>9
  <1>11. r \in Seq(PlainPacket) /\ Len(r) = m
    BY <1>5, <1>10
  <1> QED  BY <1>1, <1>5, <1>7, <1>9, <1>11

\* The same by name.
PlainAt(w, h, m) == [j \in 1 .. m |-> Plain(w[h[j]])]

\* Any list of the positions of the packets tells them.
LEMMA PacketsAre ==
    ASSUME NEW w \in Seq(Message), NEW h, NEW m, Enumerates(h, m, DataAt(w))
    PROVE  Packets(w) = PlainAt(w, h, m)
  <1>1. Packets(w) = [j \in 1 .. m |-> Plain(w[h[j]])]
    BY PacketsIs
  <1> QED  BY <1>1 DEF PlainAt

\* There is such a list, and there are no more packets than messages.
LEMMA PacketsListed ==
    ASSUME NEW w \in Seq(Message)
    PROVE  \E h, m : Enumerates(h, m, DataAt(w))
  <1>1. DataAt(w) \in SUBSET (1 .. Len(w)) /\ Len(w) \in Nat
    BY DEF DataAt
  <1> QED  BY <1>1, Positions, Listed

\* There are no more packets on the wire than there is on it.
LEMMA PacketsShort ==
    ASSUME NEW w \in Seq(Message)
    PROVE  Packets(w) \in Seq(PlainPacket) /\ Len(Packets(w)) <= Len(w)
  <1>1. DataAt(w) \in SUBSET (1 .. Len(w)) /\ Len(w) \in Nat
    BY DEF DataAt
  <1>2. PICK I : I = DataAt(w)
    OBVIOUS
  <1>3. I \in SUBSET Int /\ IsFiniteSet(I) /\ Cardinality(I) <= Len(w)
    BY <1>1, <1>2, Positions
  <1>4. PICK h : Enumerates(h, Cardinality(I), I)
    BY <1>3, Listed
  <1>5. Packets(w) \in Seq(PlainPacket) /\ Len(Packets(w)) = Cardinality(I)
    BY <1>2, <1>4, PacketsIs
  <1> QED  BY <1>3, <1>5

\* Packets, and a flow message, are put behind the others.
LEMMA PacketsConcat ==
    ASSUME NEW w \in Seq(Message), NEW v \in Seq(DataMessage), NEW f \in FlowMessage
    PROVE  Packets((w \o v) \o <<f>>) = Packets(w) \o [j \in 1 .. Len(v) |-> Plain(v[j])]
  <1>0. PICK u : u = (w \o v) \o <<f>>
    OBVIOUS
  <1>1. PICK x, y : x = Len(w) /\ y = Len(v)
    OBVIOUS
  <1>2. x \in Nat /\ y \in Nat /\ DOMAIN w = 1 .. x
    BY <1>1
  <1>3. v \in Seq(Message) /\ f \in Message /\ f.cmd # "data"
    BY DEF Message, FlowMessage
  <1>4. u \in Seq(Message) /\ DOMAIN u = 1 .. x + y + 1
    BY <1>0, <1>1, <1>3
  <1>5. /\ \A i \in 1 .. x : u[i] = w[i]
        /\ \A i \in 1 .. y : u[x + i] = v[i]
        /\ u[x + y + 1] = f
    BY <1>0, <1>1, <1>3
  <1>6. \A i \in 1 .. y : v[i].cmd = "data"
    <2>1. \A i \in 1 .. y : v[i] \in DataMessage
      BY <1>1
    <2> QED  BY <2>1 DEF DataMessage
  <1>7. PICK h, m : Enumerates(h, m, DataAt(w))
    BY PacketsListed
  <1>8. m \in Nat /\ (\A j \in 1 .. m : h[j] \in DataAt(w) /\ h[j] \in 1 .. x)
        /\ Packets(w) = [j \in 1 .. m |-> Plain(w[h[j]])]
        /\ Packets(w) \in Seq(PlainPacket) /\ Len(Packets(w)) = m
    BY <1>1, <1>7, PacketsIs
  <1>9. PICK g : g = [j \in 1 .. m + y |-> IF j <= m THEN h[j] ELSE x + (j - m)]
    OBVIOUS
  <1>10. \A j \in 1 .. m + y : g[j] = IF j <= m THEN h[j] ELSE x + (j - m)
    BY <1>9
  <1>11. Enumerates(g, m + y, DataAt(u))
    <2>1. m + y \in Nat
      BY <1>2, <1>8
    <2>2. ASSUME NEW j \in 1 .. m + y PROVE g[j] \in DataAt(u)
      <3>1. CASE j <= m
        <4>1. g[j] = h[j] /\ j \in 1 .. m
          BY <1>10, <2>2, <3>1
        <4>2. h[j] \in 1 .. x /\ w[h[j]].cmd = "data"
          BY <1>8, <4>1 DEF DataAt
        <4>3. h[j] \in DOMAIN u /\ u[h[j]] = w[h[j]]
          BY <1>2, <1>4, <1>5, <4>2
        <4> QED  BY <4>1, <4>2, <4>3 DEF DataAt
      <3>2. CASE ~(j <= m)
        <4>1. PICK i : i = j - m
          OBVIOUS
        <4>2. i \in 1 .. y /\ g[j] = x + i
          BY <1>2, <1>8, <1>10, <3>2, <4>1
        <4>3. x + i \in DOMAIN u /\ u[x + i] = v[i] /\ v[i].cmd = "data"
          BY <1>2, <1>4, <1>5, <1>6, <4>2
        <4> QED  BY <4>2, <4>3 DEF DataAt
      <3> QED  BY <3>1, <3>2
    <2>3. g \in [1 .. m + y -> DataAt(u)]
      BY <1>9, <2>2
    <2>4. ASSUME NEW j \in 1 .. m + y, NEW k \in 1 .. m + y, j < k PROVE g[j] < g[k]
      <3>1. CASE k <= m
        <4>1. j \in 1 .. m /\ k \in 1 .. m /\ g[j] = h[j] /\ g[k] = h[k]
          BY <1>8, <1>10, <2>4, <3>1
        <4> QED  BY <1>7, <2>4, <4>1 DEF Enumerates
      <3>2. CASE ~(k <= m) /\ j <= m
        <4>1. j \in 1 .. m /\ g[j] = h[j] /\ g[k] = x + (k - m)
          BY <1>8, <1>10, <3>2
        <4>2. h[j] \in 1 .. x
          BY <1>8, <4>1
        <4> QED  BY <1>2, <1>8, <3>2, <4>1, <4>2
      <3>3. CASE ~(k <= m) /\ ~(j <= m)
        BY <1>2, <1>8, <1>10, <2>4, <3>3
      <3> QED  BY <3>1, <3>2, <3>3
    <2>5. ASSUME NEW i \in DataAt(u) PROVE \E j \in 1 .. m + y : g[j] = i
      <3>1. i \in 1 .. x + y + 1 /\ u[i].cmd = "data"
        BY <1>4 DEF DataAt
      <3>2. i # x + y + 1
        BY <1>3, <1>5, <3>1
      <3>3. CASE i <= x
        <4>1. i \in 1 .. x /\ u[i] = w[i]
          BY <1>2, <1>5, <3>1, <3>3
        <4>2. i \in DataAt(w)
          BY <1>2, <3>1, <4>1 DEF DataAt
        <4>3. PICK j \in 1 .. m : h[j] = i
          BY <1>7, <4>2 DEF Enumerates
        <4>4. j \in 1 .. m + y /\ g[j] = h[j]
          BY <1>2, <1>8, <1>10
        <4> QED  BY <4>3, <4>4
      <3>4. CASE ~(i <= x)
        <4>1. PICK j : j = m + (i - x)
          OBVIOUS
        <4>2. j \in 1 .. m + y /\ g[j] = x + (j - m) /\ x + (j - m) = i
          <5>1. j \in 1 .. m + y /\ ~(j <= m) /\ x + (j - m) = i
            BY <1>2, <1>8, <3>1, <3>2, <3>4, <4>1
          <5> QED  BY <1>10, <5>1
        <4> QED  BY <4>2
      <3> QED  BY <3>3, <3>4
    <2> QED  BY <2>1, <2>3, <2>4, <2>5 DEF Enumerates
  <1>12. Packets(u) = [j \in 1 .. m + y |-> Plain(u[g[j]])]
    BY <1>4, <1>11, PacketsIs, ZenonT(60)
  <1>13. PICK a, b : a = Packets(w) /\ b = [j \in 1 .. y |-> Plain(v[j])]
    OBVIOUS
  <1>14. b \in Seq(PlainPacket) /\ Len(b) = y /\ \A j \in 1 .. y : b[j] = Plain(v[j])
    <2>1. \A j \in 1 .. y : v[j] \in DataMessage
      BY <1>1
    <2>2. \A j \in 1 .. y : Plain(v[j]) \in PlainPacket
      BY <2>1 DEF Plain, PlainPacket, DataMessage
    <2>3. b \in [1 .. y -> PlainPacket]
      BY <1>13, <2>2
    <2> QED  BY <1>2, <1>13, <2>3
  <1>15. a \in Seq(PlainPacket) /\ Len(a) = m /\ \A j \in 1 .. m : a[j] = Plain(w[h[j]])
    BY <1>8, <1>13
  <1>16. a \o b = [j \in 1 .. m + y |-> IF j <= m THEN a[j] ELSE b[j - m]]
    <2>1. PICK c : c = a \o b
      OBVIOUS
    <2>2. a \o b \in Seq(PlainPacket) /\ Len(a \o b) = Len(a) + Len(b)
          /\ \A j \in 1 .. Len(a) + Len(b) : (a \o b)[j] = IF j <= Len(a) THEN a[j] ELSE b[j - Len(a)]
      BY <1>14, <1>15, ConcatProperties
    <2>3. c \in Seq(PlainPacket) /\ Len(c) = m + y
          /\ \A j \in 1 .. m + y : c[j] = IF j <= m THEN a[j] ELSE b[j - m]
      BY <1>14, <1>15, <2>1, <2>2
    <2>4. DOMAIN c = 1 .. m + y /\ c = [j \in DOMAIN c |-> c[j]]
      BY <2>3
    <2> QED  BY <2>1, <2>3, <2>4
  <1>17. ASSUME NEW j \in 1 .. m + y
         PROVE  Plain(u[g[j]]) = IF j <= m THEN a[j] ELSE b[j - m]
    <2>1. CASE j <= m
      <3>1. j \in 1 .. m /\ g[j] = h[j] /\ h[j] \in 1 .. x
        BY <1>8, <1>10, <2>1
      <3> QED  BY <1>5, <1>15, <2>1, <3>1
    <2>2. CASE ~(j <= m)
      <3>1. PICK i : i = j - m
        OBVIOUS
      <3>2. i \in 1 .. y /\ g[j] = x + i
        BY <1>2, <1>8, <1>10, <2>2, <3>1
      <3> QED  BY <1>5, <1>14, <2>2, <3>1, <3>2
    <2> QED  BY <2>1, <2>2
  <1>18. Packets(u) = a \o b
    BY <1>12, <1>16, <1>17
  <1> QED  BY <1>0, <1>1, <1>13, <1>18

\* What the positions are after one message is taken away.
LEMMA RemoveFacts ==
    ASSUME NEW w \in Seq(Message), NEW i \in 1 .. Len(w), NEW r, r = RemoveAt(w, i),
           NEW x, x = Len(w)
    PROVE  /\ x \in Nat /\ r \in Seq(Message) /\ DOMAIN r = 1 .. x - 1 /\ DOMAIN w = 1 .. x
           /\ \A k \in 1 .. x : k < i => k \in 1 .. x - 1 /\ r[k] = w[k]
           /\ \A k \in 1 .. x : k > i => k - 1 \in 1 .. x - 1 /\ r[k - 1] = w[k]
           /\ \A k \in 1 .. x - 1 : IF k < i THEN r[k] = w[k] ELSE r[k] = w[k + 1]
  <1>1. x \in Nat /\ r \in Seq(Message) /\ Len(r) = x - 1
        /\ \A k \in 1 .. x - 1 : r[k] = IF k < i THEN w[k] ELSE w[k + 1]
    <2>1. RemoveAt(w, i) \in Seq(Message) /\ Len(RemoveAt(w, i)) = Len(w) - 1
          /\ \A k \in 1 .. Len(w) - 1 : RemoveAt(w, i)[k] = IF k < i THEN w[k] ELSE w[k + 1]
      BY RemoveAtIs
    <2>2. x \in Nat
      OBVIOUS
    <2> QED  BY <2>1, <2>2
  <1>2. DOMAIN r = 1 .. x - 1 /\ DOMAIN w = 1 .. x
    BY <1>1
  <1>3. \A k \in 1 .. x : k < i => k \in 1 .. x - 1 /\ r[k] = w[k]
    BY <1>1
  <1>4. \A k \in 1 .. x : k > i => k - 1 \in 1 .. x - 1 /\ r[k - 1] = w[k]
    <2>1. SUFFICES ASSUME NEW k \in 1 .. x, k > i PROVE k - 1 \in 1 .. x - 1 /\ r[k - 1] = w[k]
      OBVIOUS
    <2>2. PICK j : j = k - 1
      OBVIOUS
    <2>3. j \in 1 .. x - 1 /\ ~(j < i) /\ j + 1 = k
      BY <1>1, <2>1, <2>2
    <2>4. r[j] = w[j + 1]
      BY <1>1, <2>3
    <2> QED  BY <2>2, <2>3, <2>4
  <1> QED  BY <1>1, <1>2, <1>3, <1>4

\* A flow message is taken away: the packets are the same.
LEMMA PacketsDrop ==
    ASSUME NEW w \in Seq(Message), NEW i \in 1 .. Len(w), w[i].cmd # "data"
    PROVE  Packets(RemoveAt(w, i)) = Packets(w)
  <1>0. PICK r, x : r = RemoveAt(w, i) /\ x = Len(w)
    OBVIOUS
  <1>1. /\ x \in Nat /\ r \in Seq(Message) /\ DOMAIN r = 1 .. x - 1 /\ DOMAIN w = 1 .. x
        /\ \A k \in 1 .. x : k < i => k \in 1 .. x - 1 /\ r[k] = w[k]
        /\ \A k \in 1 .. x : k > i => k - 1 \in 1 .. x - 1 /\ r[k - 1] = w[k]
        /\ \A k \in 1 .. x - 1 : IF k < i THEN r[k] = w[k] ELSE r[k] = w[k + 1]
    BY <1>0, RemoveFacts
  <1>2. PICK h, m : Enumerates(h, m, DataAt(w))
    BY PacketsListed
  <1>3. m \in Nat /\ (\A j \in 1 .. m : h[j] \in DataAt(w) /\ h[j] \in 1 .. x)
        /\ Packets(w) = [j \in 1 .. m |-> Plain(w[h[j]])]
    BY <1>0, <1>2, PacketsIs
  <1>4. \A j \in 1 .. m : h[j] # i /\ h[j] \in Int
    BY <1>3 DEF DataAt
  <1>5. PICK g : g = [j \in 1 .. m |-> IF h[j] < i THEN h[j] ELSE h[j] - 1]
    OBVIOUS
  <1>6. ASSUME NEW j \in 1 .. m
        PROVE  g[j] \in DataAt(r) /\ r[g[j]] = w[h[j]]
    <2>1. g[j] = (IF h[j] < i THEN h[j] ELSE h[j] - 1) /\ h[j] \in 1 .. x /\ w[h[j]].cmd = "data"
      BY <1>3, <1>5 DEF DataAt
    <2>2. CASE h[j] < i
      BY <1>1, <2>1, <2>2 DEF DataAt
    <2>3. CASE ~(h[j] < i)
      <3>1. h[j] > i
        BY <1>4, <2>3
      <3> QED  BY <1>1, <2>1, <2>3, <3>1 DEF DataAt
    <2> QED  BY <2>2, <2>3
  <1>7. Enumerates(g, m, DataAt(r))
    <2>1. g \in [1 .. m -> DataAt(r)]
      BY <1>5, <1>6
    <2>2. ASSUME NEW j \in 1 .. m, NEW k \in 1 .. m, j < k PROVE g[j] < g[k]
      <3>1. h[j] < h[k]
        BY <1>2, <2>2 DEF Enumerates
      <3>2. g[j] = (IF h[j] < i THEN h[j] ELSE h[j] - 1) /\ g[k] = (IF h[k] < i THEN h[k] ELSE h[k] - 1)
        BY <1>5
      <3>3. h[j] \in Int /\ h[k] \in Int /\ h[j] # i /\ h[k] # i
        BY <1>4
      <3> QED  BY <3>1, <3>2, <3>3
    <2>3. ASSUME NEW k \in DataAt(r) PROVE \E j \in 1 .. m : g[j] = k
      <3>1. k \in 1 .. x - 1 /\ r[k].cmd = "data"
        BY <1>1 DEF DataAt
      <3>2. PICK a : a = IF k < i THEN k ELSE k + 1
        OBVIOUS
      <3>3. a \in 1 .. x /\ w[a] = r[k]
        BY <1>1, <3>1, <3>2
      <3>4. a \in DataAt(w)
        BY <1>1, <3>1, <3>3 DEF DataAt
      <3>5. PICK j \in 1 .. m : h[j] = a
        BY <1>2, <3>4 DEF Enumerates
      <3>6. g[j] = IF h[j] < i THEN h[j] ELSE h[j] - 1
        BY <1>5
      <3>7. (IF a < i THEN a ELSE a - 1) = k
        BY <1>1, <3>1, <3>2
      <3>8. g[j] = k
        BY <3>5, <3>6, <3>7
      <3> QED  BY <3>8
    <2> QED  BY <1>3, <2>1, <2>2, <2>3 DEF Enumerates
  <1>8. Packets(r) = [j \in 1 .. m |-> Plain(r[g[j]])]
    <2>1. r \in Seq(Message)
      BY <1>1
    <2> QED  BY <1>7, <2>1, PacketsIs
  <1>9. Packets(r) = Packets(w)
    BY <1>3, <1>6, <1>8
  <1> QED  BY <1>0, <1>9

\* A packet is taken away: the one that is p-th among the packets.
LEMMA PacketsRemove ==
    ASSUME NEW w \in Seq(Message), NEW i \in 1 .. Len(w), w[i].cmd = "data"
    PROVE  \E p \in 1 .. Len(Packets(w)) :
              /\ Packets(RemoveAt(w, i)) = RemoveAt(Packets(w), p)
              /\ Packets(w)[p] = Plain(w[i])
              /\ i = 1 => p = 1
  <1>0. PICK r, x : r = RemoveAt(w, i) /\ x = Len(w)
    OBVIOUS
  <1>1. /\ x \in Nat /\ r \in Seq(Message) /\ DOMAIN r = 1 .. x - 1 /\ DOMAIN w = 1 .. x
        /\ \A k \in 1 .. x : k < i => k \in 1 .. x - 1 /\ r[k] = w[k]
        /\ \A k \in 1 .. x : k > i => k - 1 \in 1 .. x - 1 /\ r[k - 1] = w[k]
        /\ \A k \in 1 .. x - 1 : IF k < i THEN r[k] = w[k] ELSE r[k] = w[k + 1]
    BY <1>0, RemoveFacts
  <1>2. PICK h, m : Enumerates(h, m, DataAt(w))
    BY PacketsListed
  <1>3. m \in Nat /\ (\A j \in 1 .. m : h[j] \in DataAt(w) /\ h[j] \in 1 .. x)
        /\ Packets(w) = [j \in 1 .. m |-> Plain(w[h[j]])]
        /\ Packets(w) \in Seq(PlainPacket) /\ Len(Packets(w)) = m
    BY <1>0, <1>2, PacketsIs, ZenonT(60)
  <1>4. \A j, k \in 1 .. m : j < k => h[j] < h[k]
    BY <1>2 DEF Enumerates
  <1>5. PICK p \in 1 .. m : h[p] = i
    <2>1. i \in DataAt(w)
      BY <1>0, <1>1 DEF DataAt
    <2> QED  BY <1>2, <2>1 DEF Enumerates
  <1>6. \A j \in 1 .. m : h[j] \in Int /\ (j < p => h[j] < i) /\ (j > p => h[j] > i)
    BY <1>3, <1>4, <1>5
  <1>7. i = 1 => p = 1
    <2>1. SUFFICES ASSUME i = 1, p # 1 PROVE FALSE
      OBVIOUS
    <2>2. 1 \in 1 .. m /\ 1 < p
      BY <1>3, <1>5, <2>1
    <2>3. h[1] < i /\ h[1] \in 1 .. x
      BY <1>3, <1>6, <2>2
    <2> QED  BY <2>1, <2>3
  <1>8. PICK g : g = [j \in 1 .. m - 1 |-> IF j < p THEN h[j] ELSE h[j + 1] - 1]
    OBVIOUS
  <1>9. ASSUME NEW j \in 1 .. m - 1
        PROVE  /\ g[j] \in DataAt(r) /\ g[j] \in Int
               /\ r[g[j]] = IF j < p THEN w[h[j]] ELSE w[h[j + 1]]
    <2>1. CASE j < p
      <3>1. j \in 1 .. m /\ g[j] = h[j]
        BY <1>3, <1>8, <2>1
      <3>2. h[j] \in 1 .. x /\ w[h[j]].cmd = "data" /\ h[j] < i
        BY <1>3, <1>6, <2>1, <3>1 DEF DataAt
      <3> QED  BY <1>1, <2>1, <3>1, <3>2 DEF DataAt
    <2>2. CASE ~(j < p)
      <3>1. PICK k : k = j + 1
        OBVIOUS
      <3>2. k \in 1 .. m /\ k > p /\ g[j] = h[k] - 1
        BY <1>3, <1>8, <2>2, <3>1
      <3>3. h[k] \in 1 .. x /\ w[h[k]].cmd = "data" /\ h[k] > i
        BY <1>3, <1>6, <3>2 DEF DataAt
      <3>4. h[k] - 1 \in 1 .. x - 1 /\ r[h[k] - 1] = w[h[k]]
        BY <1>1, <3>3
      <3> QED  BY <1>1, <2>2, <3>1, <3>2, <3>3, <3>4 DEF DataAt
    <2> QED  BY <2>1, <2>2
  <1>10. m - 1 \in Nat
    BY <1>3, <1>5
  <1>11. Enumerates(g, m - 1, DataAt(r))
    <2>1. g \in [1 .. m - 1 -> DataAt(r)]
      BY <1>8, <1>9
    <2>2. ASSUME NEW j \in 1 .. m - 1, NEW k \in 1 .. m - 1, j < k PROVE g[j] < g[k]
      <3>1. j \in 1 .. m /\ k \in 1 .. m /\ j + 1 \in 1 .. m /\ k + 1 \in 1 .. m
        BY <1>3
      <3>2. g[j] = (IF j < p THEN h[j] ELSE h[j + 1] - 1) /\ g[k] = (IF k < p THEN h[k] ELSE h[k + 1] - 1)
        BY <1>8
      <3>3. CASE k < p
        <4>1. g[j] = h[j] /\ g[k] = h[k] /\ h[j] < h[k]
          BY <1>4, <2>2, <3>1, <3>2, <3>3
        <4> QED  BY <4>1
      <3>4. CASE j < p /\ ~(k < p)
        <4>1. k + 1 > p
          BY <3>4
        <4>2. h[j] < i /\ h[k + 1] > i /\ h[j] \in Int /\ h[k + 1] \in Int
          BY <1>6, <3>1, <3>4, <4>1
        <4> QED  BY <3>2, <3>4, <4>2
      <3>5. CASE ~(j < p) /\ ~(k < p)
        <4>1. j + 1 < k + 1
          BY <2>2
        <4>2. h[j + 1] < h[k + 1] /\ h[j + 1] \in Int /\ h[k + 1] \in Int
          BY <1>4, <1>6, <3>1, <4>1
        <4> QED  BY <3>2, <3>5, <4>2
      <3>6. k < p \/ (j < p /\ ~(k < p)) \/ (~(j < p) /\ ~(k < p))
        BY <2>2
      <3> QED  BY <3>3, <3>4, <3>5, <3>6
    <2>3. ASSUME NEW k \in DataAt(r) PROVE \E j \in 1 .. m - 1 : g[j] = k
      <3>1. k \in 1 .. x - 1 /\ r[k].cmd = "data"
        BY <1>1 DEF DataAt
      <3>2. PICK a : a = IF k < i THEN k ELSE k + 1
        OBVIOUS
      <3>3. a \in 1 .. x /\ w[a] = r[k] /\ a # i /\ (IF a < i THEN a ELSE a - 1) = k
        BY <1>1, <3>1, <3>2
      <3>4. a \in DataAt(w)
        BY <1>1, <3>1, <3>3 DEF DataAt
      <3>5. PICK q \in 1 .. m : h[q] = a
        BY <1>2, <3>4 DEF Enumerates
      <3>6. CASE q < p
        <4>1. q \in 1 .. m - 1 /\ g[q] = h[q]
          BY <1>3, <1>5, <1>8, <3>6
        <4>2. a < i
          BY <1>6, <3>5, <3>6
        <4> QED  BY <3>3, <3>5, <4>1, <4>2
      <3>7. CASE q > p
        <4>1. PICK j : j = q - 1
          OBVIOUS
        <4>2. j \in 1 .. m - 1 /\ ~(j < p) /\ j + 1 = q
          BY <1>3, <1>5, <3>7, <4>1
        <4>3. g[j] = h[q] - 1
          BY <1>8, <4>2
        <4>4. a > i /\ a \in Int
          BY <1>6, <3>5, <3>7
        <4> QED  BY <3>3, <3>5, <4>2, <4>3, <4>4
      <3>8. q # p
        BY <1>5, <3>3, <3>5
      <3> QED  BY <1>3, <1>5, <3>6, <3>7, <3>8
    <2> QED  BY <1>10, <2>1, <2>2, <2>3 DEF Enumerates
  <1>12. Packets(r) = [j \in 1 .. m - 1 |-> Plain(r[g[j]])]
    <2>1. PICK k : k = m - 1
      OBVIOUS
    <2>2. Packets(r) = PlainAt(r, g, k)
      BY <1>1, <1>11, <2>1, PacketsAre
    <2> QED  BY <2>1, <2>2 DEF PlainAt
  <1>13. PICK b : b = Packets(w)
    OBVIOUS
  <1>14. b \in Seq(PlainPacket) /\ Len(b) = m /\ \A j \in 1 .. m : b[j] = Plain(w[h[j]])
    BY <1>3, <1>13
  <1>15. RemoveAt(b, p) \in Seq(PlainPacket) /\ Len(RemoveAt(b, p)) = m - 1
         /\ \A k \in 1 .. m - 1 : RemoveAt(b, p)[k] = IF k < p THEN b[k] ELSE b[k + 1]
    BY <1>14, RemoveAtIs
  <1>16. PICK c : c = RemoveAt(b, p)
    OBVIOUS
  <1>17. c = [k \in 1 .. m - 1 |-> IF k < p THEN b[k] ELSE b[k + 1]]
    <2>1. DOMAIN c = 1 .. m - 1 /\ c = [k \in DOMAIN c |-> c[k]]
      BY <1>15, <1>16
    <2> QED  BY <1>15, <1>16, <2>1
  <1>18. ASSUME NEW j \in 1 .. m - 1
         PROVE  Plain(r[g[j]]) = IF j < p THEN b[j] ELSE b[j + 1]
    <2>1. j \in 1 .. m /\ j + 1 \in 1 .. m
      BY <1>3
    <2> QED  BY <1>9, <1>14, <2>1
  <1>19. Packets(r) = c
    BY <1>12, <1>17, <1>18
  <1>20. b[p] = Plain(w[i]) /\ p \in 1 .. Len(b)
    BY <1>5, <1>14
  <1> QED  BY <1>0, <1>7, <1>13, <1>16, <1>19, <1>20


\* The trackers in the permits of ps for request A.
Current(ps, A) == {ps[i].seen : i \in {j \in DOMAIN ps : ps[j].flowSeq = A}}

\* What it is to be one of them.
LEMMA CurrentIs ==
    ASSUME NEW ps, NEW A, NEW t
    PROVE  t \in Current(ps, A) <=> \E i \in DOMAIN ps : ps[i].flowSeq = A /\ ps[i].seen = t
  BY DEF Current

\* A permit is taken from the socket,
LEMMA CurrentRemove ==
    ASSUME NEW ps \in Seq(OkToSend), NEW A, NEW i \in 1 .. Len(ps)
    PROVE  /\ Current(RemoveAt(ps, i), A) \in {Current(ps, A), Current(ps, A) \ {ps[i].seen}}
           /\ Current(RemoveAt(ps, i), A) \subseteq Current(ps, A)
           /\ ps[i].flowSeq # A => Current(RemoveAt(ps, i), A) = Current(ps, A)
  <1>0. PICK r, x : r = RemoveAt(ps, i) /\ x = Len(ps)
    OBVIOUS
  <1>1. RemoveAt(ps, i) \in Seq(OkToSend) /\ Len(RemoveAt(ps, i)) = Len(ps) - 1
        /\ \A k \in 1 .. Len(ps) - 1 : RemoveAt(ps, i)[k] = IF k < i THEN ps[k] ELSE ps[k + 1]
    BY RemoveAtIs
  <1>2. x \in Nat /\ DOMAIN r = 1 .. x - 1 /\ DOMAIN ps = 1 .. x
        /\ \A k \in 1 .. x - 1 : r[k] = IF k < i THEN ps[k] ELSE ps[k + 1]
    BY <1>0, <1>1
  <1>3. ASSUME NEW k \in DOMAIN r PROVE \E j \in DOMAIN ps : r[k] = ps[j]
    <2>1. k \in DOMAIN ps /\ k + 1 \in DOMAIN ps
      BY <1>2
    <2> QED  BY <1>2, <2>1
  <1>4. ASSUME NEW j \in DOMAIN ps, j # i PROVE \E k \in DOMAIN r : r[k] = ps[j]
    <2>1. CASE j < i
      BY <1>0, <1>2, <2>1
    <2>2. CASE ~(j < i)
      <3>1. PICK k : k = j - 1
        OBVIOUS
      <3>2. k \in DOMAIN r /\ ~(k < i) /\ k + 1 = j
        BY <1>2, <1>4, <2>2, <3>1
      <3> QED  BY <1>2, <3>2
    <2> QED  BY <2>1, <2>2
  <1>5. \A t \in Current(r, A) : t \in Current(ps, A)
    BY <1>3, CurrentIs
  <1>6. ASSUME NEW t \in Current(ps, A), t # ps[i].seen \/ ps[i].flowSeq # A PROVE t \in Current(r, A)
    <2>1. PICK j \in DOMAIN ps : ps[j].flowSeq = A /\ ps[j].seen = t
      BY CurrentIs
    <2>2. j # i
      BY <1>6, <2>1
    <2>3. PICK k \in DOMAIN r : r[k] = ps[j]
      BY <1>4, <2>2
    <2> QED  BY <2>1, <2>3, CurrentIs
  <1>7. Current(r, A) \subseteq Current(ps, A)
    BY <1>5
  <1>8. ps[i].flowSeq # A => Current(r, A) = Current(ps, A)
    BY <1>5, <1>6
  <1>9. Current(r, A) = Current(ps, A) \/ Current(r, A) = Current(ps, A) \ {ps[i].seen}
    <2>1. CASE ps[i].seen \in Current(r, A)
      BY <1>5, <1>6, <2>1
    <2>2. CASE ps[i].seen \notin Current(r, A)
      BY <1>5, <1>6, <2>2
    <2> QED  BY <2>1, <2>2
  <1> QED  BY <1>0, <1>7, <1>8, <1>9

\* one is put there,
LEMMA CurrentAppend ==
    ASSUME NEW ps \in Seq(OkToSend), NEW A, NEW p \in OkToSend
    PROVE  Current(Append(ps, p), A) = Current(ps, A) \cup (IF p.flowSeq = A THEN {p.seen} ELSE {})
  <1>0. PICK r, x : r = Append(ps, p) /\ x = Len(ps)
    OBVIOUS
  <1>1. x \in Nat /\ DOMAIN r = 1 .. x + 1 /\ DOMAIN ps = 1 .. x
        /\ (\A k \in 1 .. x : r[k] = ps[k]) /\ r[x + 1] = p
    BY <1>0
  <1>2. ASSUME NEW t \in Current(r, A)
        PROVE  t \in Current(ps, A) \/ (p.flowSeq = A /\ t = p.seen)
    <2>1. PICK k \in DOMAIN r : r[k].flowSeq = A /\ r[k].seen = t
      BY CurrentIs
    <2>2. CASE k = x + 1
      BY <1>1, <2>1, <2>2
    <2>3. CASE k # x + 1
      <3>1. k \in DOMAIN ps /\ r[k] = ps[k]
        BY <1>1, <2>3
      <3> QED  BY <2>1, <3>1, CurrentIs
    <2> QED  BY <2>2, <2>3
  <1>3. ASSUME NEW t \in Current(ps, A) PROVE t \in Current(r, A)
    <2>1. PICK k \in DOMAIN ps : ps[k].flowSeq = A /\ ps[k].seen = t
      BY CurrentIs
    <2>2. k \in DOMAIN r /\ r[k] = ps[k]
      BY <1>1
    <2> QED  BY <2>1, <2>2, CurrentIs
  <1>4. p.flowSeq = A => p.seen \in Current(r, A)
    <2>1. x + 1 \in DOMAIN r
      BY <1>1
    <2> QED  BY <1>1, <2>1, CurrentIs
  <1>5. Current(r, A) = Current(ps, A) \cup (IF p.flowSeq = A THEN {p.seen} ELSE {})
    BY <1>2, <1>3, <1>4
  <1> QED  BY <1>0, <1>5

\* and a new request leaves them all behind.
LEMMA CurrentNone ==
    ASSUME NEW A \in Int, NEW ps \in Seq(PermitUpTo(A)), NEW C \in Int, A < C
    PROVE  Current(ps, C) = {}
  <1>1. \A i \in DOMAIN ps : ps[i] \in PermitUpTo(A)
    OBVIOUS
  <1>2. \A i \in DOMAIN ps : ps[i].flowSeq # C
    BY <1>1 DEF PermitUpTo, OkToSend, Sequence
  <1> QED  BY <1>2, CurrentIs

\* There are no more of them than permits.
LEMMA CurrentFew ==
    ASSUME NEW ps \in Seq(OkToSend), NEW A
    PROVE  Cardinality(Current(ps, A)) <= Len(ps) /\ Cardinality(Current(ps, A)) \in Nat
  <1>1. PICK J : J = {j \in DOMAIN ps : ps[j].flowSeq = A}
    OBVIOUS
  <1>2. PICK T : T = Current(ps, A)
    OBVIOUS
  <1>3. J \in SUBSET (1 .. Len(ps)) /\ Len(ps) \in Nat
    BY <1>1
  <1>4. IsFiniteSet(J) /\ Cardinality(J) <= Len(ps)
    BY <1>3, Positions
  <1>5. T = {ps[j].seen : j \in J}
    BY <1>1, <1>2 DEF Current
  <1>6. PICK f : f = [j \in J |-> ps[j].seen]
    OBVIOUS
  <1>7. f \in Surjection(J, T)
    <2>1. f \in [J -> T]
      BY <1>5, <1>6
    <2>2. \A t \in T : \E j \in J : f[j] = t
      BY <1>5, <1>6
    <2> QED  BY <2>1, <2>2 DEF Surjection
  <1>8. IsFiniteSet(T) /\ Cardinality(T) <= Cardinality(J)
    BY <1>4, <1>7, FS_Surjection
  <1>9. Cardinality(T) \in Nat /\ Cardinality(J) \in Nat
    BY <1>4, <1>8, FS_CardinalityType
  <1> QED  BY <1>2, <1>3, <1>4, <1>8, <1>9

-----------------------------------------------------------------------------
(* Every step is a step of UdpDataStream, or none.                            *)

\* The definitions that UdpDataStream uses are the ones used here.
LEMMA SameDefinitions ==
    /\ \A t, s : Stream!CanRecord(t, s) <=> CanRecord(t, s)
    /\ \A t, s : Stream!HasSeen(t, s) <=> HasSeen(t, s)
    /\ \A t, s : Stream!Record(t, s) = Record(t, s)
    /\ \A t, s, b : Stream!NoteSeen(t, s, b) = NoteSeen(t, s, b)
    /\ \A t, s, b : Stream!IsDuplicate(t, s, b) <=> IsDuplicate(t, s, b)
  <1>1. \A a, b : Stream!Delta(a, b) = Delta(a, b)
    BY DEF Stream!Delta, Delta
  <1>2. \A a : Stream!Slot(a) = Slot(a)
    BY DEF Stream!Slot, Slot
  <1>3. \A t, s : Stream!CanRecord(t, s) <=> CanRecord(t, s)
    BY <1>1 DEF Stream!CanRecord, CanRecord
  <1>4. \A a, b : (Stream!IsEarlier(a, b) <=> IsEarlier(a, b)) /\ (Stream!IsLater(a, b) <=> IsLater(a, b))
    BY <1>1 DEF Stream!IsEarlier, IsEarlier, Stream!IsLater, IsLater
  <1>5. \A t, s : Stream!HasSeen(t, s) <=> HasSeen(t, s)
    BY <1>2, <1>3, <1>4 DEF Stream!HasSeen, HasSeen
  <1>6. \A S, b : Stream!SetRun(S, b) = SetRun(S, b)
    BY <1>2 DEF Stream!SetRun, SetRun
  <1>7. \A t, s : Stream!Advance(t, s) = Advance(t, s)
    BY <1>2, <1>6 DEF Stream!Advance, Advance
  <1>8. \A t, s : Stream!Record(t, s) = Record(t, s)
    BY <1>2, <1>4, <1>7 DEF Stream!Record, Record
  <1>9. \A s : Stream!Reset(s) = Reset(s)
    BY DEF Stream!Reset, Reset
  <1>10. \A t, s, b : Stream!NoteSeen(t, s, b) = NoteSeen(t, s, b)
    BY <1>3, <1>8, <1>9 DEF Stream!NoteSeen, NoteSeen
  <1>11. \A t, s, b : Stream!IsDuplicate(t, s, b) <=> IsDuplicate(t, s, b)
    BY <1>2, <1>3 DEF Stream!IsDuplicate, IsDuplicate
  <1> QED  BY <1>3, <1>5, <1>8, <1>10, <1>11

\* The operators on the resend list are the same in both specifications.
LEMMA SameListDefinitions ==
    /\ \A l, s, sp, due : Stream!NoteRead(l, s, sp, due) = NoteRead(l, s, sp, due)
    /\ \A l, s, sp, due : Stream!ToResend(l, s, sp, due) = ToResend(l, s, sp, due)
    /\ \A l, es : Stream!InOrder(l, es) = InOrder(l, es)
    /\ \A l, n, sp, x : Stream!NewPacketLimit(l, n, sp, x) = NewPacketLimit(l, n, sp, x)
    /\ \A l, n, k : Stream!AppendRange(l, n, k) = AppendRange(l, n, k)
    /\ \A l, n, k : Stream!AppendRangeFails(l, n, k) <=> AppendRangeFails(l, n, k)
    /\ \A S : Stream!Cardinality(S) = Cardinality(S)
    /\ \A s, i : Stream!RemoveAt(s, i) = RemoveAt(s, i)
    /\ \A e : Stream!PacketOf(e) = PacketOf(e)
  <1>1. \A a, b : Stream!Delta(a, b) = Delta(a, b)
    BY DEF Stream!Delta, Delta
  <1>2. \A a : Stream!Slot(a) = Slot(a)
    BY DEF Stream!Slot, Slot
  <1>3. \A S : Stream!Cardinality(S) = Cardinality(S)
    BY DEF Stream!Cardinality, Cardinality
  <1>4. \A l, e : Stream!Age(l, e) = Age(l, e)
    BY <1>1 DEF Stream!Age, Age
  <1>5. \A a, b : Stream!IsEarlier(a, b) <=> IsEarlier(a, b)
    BY <1>1 DEF Stream!IsEarlier, IsEarlier
  <1>6. \A l, s, due : Stream!Missing(l, s, due) = Missing(l, s, due)
    BY <1>5, SameDefinitions DEF Stream!Missing, Missing, Stream!LastSeen, LastSeen
  <1>7. \A l, s, sp, due : Stream!Visited(l, s, sp, due) = Visited(l, s, sp, due)
    BY <1>3, <1>4, <1>6, ZenonT(60) DEF Stream!Visited, Visited
  <1>8. \A l, s, sp, due : Stream!ToResend(l, s, sp, due) = ToResend(l, s, sp, due)
    BY <1>6, <1>7 DEF Stream!ToResend, ToResend
  <1>9. \A l, s, sp, due : Stream!Confirmed(l, s, sp, due) = Confirmed(l, s, sp, due)
    BY <1>7, SameDefinitions DEF Stream!Confirmed, Confirmed
  <1>10. \A l, s, sp, due : Stream!NoteRead(l, s, sp, due) = NoteRead(l, s, sp, due)
    <2>1. SUFFICES ASSUME NEW l, NEW s, NEW sp, NEW due
                   PROVE  Stream!NoteRead(l, s, sp, due) = NoteRead(l, s, sp, due)
      OBVIOUS
    <2>2. PICK left : left = l.entries \ Confirmed(l, s, sp, due)
      OBVIOUS
    <2>3. left = l.entries \ Stream!Confirmed(l, s, sp, due)
      BY <1>9, <2>2
    <2>4. PICK f : f = CHOOSE e \in left : \A x \in left : Age(l, e) <= Age(l, x)
      OBVIOUS
    <2>5. f = CHOOSE e \in left : \A x \in left : Stream!Age(l, e) <= Stream!Age(l, x)
      BY <1>4, <2>4
    <2>6. NoteRead(l, s, sp, due) = [first |-> IF left = {} THEN l.first ELSE f, entries |-> left]
      BY <2>2, <2>4 DEF NoteRead
    <2>7. Stream!NoteRead(l, s, sp, due) = [first |-> IF left = {} THEN l.first ELSE f, entries |-> left]
      BY <2>3, <2>5 DEF Stream!NoteRead
    <2> QED  BY <2>6, <2>7
  <1>11. \A l, es : Stream!InOrder(l, es) = InOrder(l, es)
    BY DEF Stream!InOrder, InOrder, Stream!Age, Age, Stream!Delta, Delta, Stream!Cardinality, Cardinality
  <1>12. \A l, n, sp, x : Stream!NewPacketLimit(l, n, sp, x) = NewPacketLimit(l, n, sp, x)
    BY <1>1 DEF Stream!NewPacketLimit, NewPacketLimit
  <1>13. \A l, n, k : Stream!AppendRange(l, n, k) = AppendRange(l, n, k)
    BY DEF Stream!AppendRange, AppendRange
  <1>14. \A l, s : Stream!AppendFails(l, s) <=> AppendFails(l, s)
    BY <1>1, <1>2 DEF Stream!AppendFails, AppendFails, Stream!CanRecordEntry, CanRecordEntry
  <1>15. \A l, n, k : Stream!AppendRangeFails(l, n, k) <=> AppendRangeFails(l, n, k)
    BY <1>13, <1>14 DEF Stream!AppendRangeFails, AppendRangeFails
  <1>16. \A s, i : Stream!RemoveAt(s, i) = RemoveAt(s, i)
    BY DEF Stream!RemoveAt, RemoveAt
  <1>17. \A e : Stream!PacketOf(e) = PacketOf(e)
    BY <1>1 DEF Stream!PacketOf, PacketOf
  <1> QED  BY <1>3, <1>8, <1>10, <1>11, <1>12, <1>13, <1>15, <1>16, <1>17


\* What the mapping makes of the variables.
LEMMA Mapped ==
    /\ CurrentPermits = Current(permitSocket, activeFlowSequence)
    /\ CurrentPermits' = Current(permitSocket', activeFlowSequence')
    /\ Packets(dataSocket)' = Packets(dataSocket')
  BY DEF CurrentPermits, Current

StreamStep == Stream!Next \/ UNCHANGED Stream!vars

\* A step that UdpDataStream does not see.
LEMMA Unseen ==
    ASSUME UNCHANGED <<nextSendSequence, resendList, requestActive, packetsSeen, delivered, twice>>,
           Packets(dataSocket') = Packets(dataSocket),
           Current(permitSocket', activeFlowSequence') = Current(permitSocket, activeFlowSequence)
    PROVE  StreamStep
  BY Mapped DEF StreamStep, Stream!vars

\* A new request makes the permits out of date.
LEMMA PushDataStep ==
    ASSUME MaxFlow < SeqSpace - 1, Inv, FlowNumbers, PushData
    PROVE  StreamStep
  <1>1. UNCHANGED <<nextSendSequence, resendList, packetsSeen, delivered, twice, dataSocket, permitSocket>>
    BY DEF PushData, receiverVars
  <1>2. CASE ~(PacketsQueued = 0 /\ ~requestActive)
    <2>1. UNCHANGED <<activeFlowSequence, requestActive>>
      BY <1>2 DEF PushData
    <2> QED  BY <1>1, <2>1, Unseen
  <1>3. CASE PacketsQueued = 0 /\ ~requestActive
    <2>1. PICK A : A = activeFlowSequence
      OBVIOUS
    <2>2. A \in Sequence /\ A \in Int /\ A <= MaxFlow /\ permitSocket \in Seq(PermitUpTo(A))
      BY <2>1, InvNet DEF FlowNumbers, Sequence
    <2>3. NextFlow(A) = A + 1
      BY <2>2, NextFlowIs
    <2>4. A + 1 \in Int /\ A < A + 1
      BY <2>2
    <2>5. Current(permitSocket, A + 1) = {}
      BY <2>2, <2>4, CurrentNone
    <2>6. activeFlowSequence' = A + 1 /\ requestActive' = TRUE /\ ~requestActive
      BY <1>3, <2>1, <2>3 DEF PushData
    <2>7. CurrentPermits' = {} /\ Packets(dataSocket)' = Packets(dataSocket)
      BY <1>1, <2>5, <2>6, Mapped
    <2>8. Stream!NewRequest
      BY <1>1, <2>6, <2>7 DEF Stream!NewRequest
    <2> QED  BY <2>8 DEF StreamStep, Stream!Next
  <1> QED  BY <1>2, <1>3

\* The sender gives up.
LEMMA GiveUpStep ==
    ASSUME GiveUp
    PROVE  StreamStep
  <1>1. UNCHANGED <<nextSendSequence, resendList, activeFlowSequence, packetsSeen, delivered, twice,
                    dataSocket, permitSocket>>
        /\ requestActive /\ requestActive' = FALSE
    BY DEF GiveUp, receiverVars, netVars
  <1>2. CurrentPermits' = CurrentPermits /\ Packets(dataSocket)' = Packets(dataSocket)
    BY <1>1, Mapped
  <1>3. Stream!GiveUp
    BY <1>1, <1>2 DEF Stream!GiveUp
  <1> QED  BY <1>3 DEF StreamStep, Stream!Next

\* A permit is issued, or one that the sender will ignore.
LEMMA PermitIssued ==
    ASSUME Inv, UNCHANGED <<senderVars, packetsSeen, delivered, twice, dataSocket>>,
           NEW f \in Sequence, NEW max \in 0 .. MaxStart, SendPermitToSend(f, max)
    PROVE  StreamStep
  <1>1. PICK A, ps : A = activeFlowSequence /\ ps = permitSocket
    OBVIOUS
  <1>2. PICK p : p = [flowSeq |-> f, max_data |-> max, seen |-> packetsSeen]
    OBVIOUS
  <1>3. ps \in Seq(OkToSend) /\ p \in OkToSend /\ permitSocket' = Append(ps, p) /\ Len(ps) < MaxFlowMsgs
        /\ p.flowSeq = f /\ p.seen = packetsSeen /\ activeFlowSequence' = A
    <2>1. packetsSeen \in Tracker
      BY DEF Inv, TrackedInv, Records
    <2> QED  BY <1>1, <1>2, <2>1, InvNet DEF SendPermitToSend, HasRoom, OkToSend, senderVars
  <1>4. Current(Append(ps, p), A) = Current(ps, A) \cup (IF p.flowSeq = A THEN {p.seen} ELSE {})
    BY <1>3, CurrentAppend
  <1>5. UNCHANGED <<nextSendSequence, resendList, requestActive, packetsSeen, delivered, twice, dataSocket>>
    BY DEF senderVars
  <1>6. CASE f = A
    <2>1. Current(permitSocket', activeFlowSequence') = Current(ps, A) \cup {packetsSeen}
      BY <1>3, <1>4, <1>6
    <2>2. Cardinality(Current(ps, A)) <= Len(ps) /\ Cardinality(Current(ps, A)) \in Nat
      BY <1>3, CurrentFew
    <2>3. Len(ps) \in Nat
      BY <1>3
    <2>4. Cardinality(Current(ps, A)) < MaxFlowMsgs
      BY <1>3, <2>2, <2>3, Ranges
    <2>5. CurrentPermits = Current(ps, A) /\ CurrentPermits' = CurrentPermits \cup {packetsSeen}
      BY <1>1, <2>1, Mapped
    <2>6. Stream!Cardinality(CurrentPermits) < MaxFlowMsgs
      BY <2>4, <2>5, SameListDefinitions
    <2>7. Packets(dataSocket)' = Packets(dataSocket)
      BY <1>5, Mapped
    <2>8. Stream!IssuePermit
      BY <1>5, <2>5, <2>6, <2>7 DEF Stream!IssuePermit
    <2> QED  BY <2>8 DEF StreamStep, Stream!Next
  <1>7. CASE f # A
    <2>1. Current(permitSocket', activeFlowSequence') = Current(ps, A)
      BY <1>3, <1>4, <1>7
    <2> QED  BY <1>1, <1>5, <2>1, Unseen
  <1> QED  BY <1>6, <1>7

\* noteRequest sends a permit or an acknowledgement; the data stream sees at
\* most the permit.
LEMMA NoteRequestStep ==
    ASSUME Inv, UNCHANGED <<senderVars, packetsSeen, delivered, twice, dataSocket>>,
           NEW e \in Entries, NEW f, NoteRequest(e, f)
    PROVE  StreamStep
  <1>1. CASE PermitsOf(e, f) # {}
    <2>1. PICK max \in 0 .. MaxStart : SendPermitToSend(e.flowSeq, max)
      BY <1>1 DEF NoteRequest
    <2>2. e.flowSeq \in Sequence
      BY DEF Entries
    <2> QED  BY <2>1, <2>2, PermitIssued
  <1>2. CASE PermitsOf(e, f) = {}
    <2>1. permitSocket' = permitSocket
      BY <1>2 DEF NoteRequest
    <2> QED  BY <2>1, Unseen DEF senderVars
  <1> QED  BY <1>1, <1>2

\* A flow message changes the entry and at most sends a permit.
LEMMA FlowArrivesStep ==
    ASSUME Inv, FlowArrives
    PROVE  StreamStep
  <1>1. PICK i \in Next1(flowSocket) :
           /\ DoFlowRequest(flowSocket[i])
           /\ UNCHANGED <<senderVars, packetsSeen, delivered, twice, dataSocket, losses>>
    BY DEF FlowArrives
  <1>2. PICK m : m = flowSocket[i]
    OBVIOUS
  <1>3. m \in FlowMessage
    <2>1. flowSocket \in Seq(FlowMessage) /\ i \in DOMAIN flowSocket
      BY InvNet DEF Next1
    <2> QED  BY <1>2, <2>1
  <1>4. CASE m.cmd = "request_to_send"
    <2>1. NoteRequest(entry, m.flowSeq)
      BY <1>1, <1>2, <1>4 DEF DoFlowRequest
    <2> QED  BY <1>1, <2>1, InvNet, NoteRequestStep
  <1>5. CASE m.cmd = "send_completed"
    <2>1. permitSocket' = permitSocket
      BY <1>1, <1>2, <1>5 DEF DoFlowRequest
    <2> QED  BY <1>1, <2>1, Unseen DEF senderVars
  <1>6. CASE m.cmd = "request_to_send_more"
    <2>1. NoteRequest(AfterDone(entry, m.flowSeq), NextFlow(m.flowSeq))
      BY <1>1, <1>2, <1>6 DEF DoFlowRequest
    <2>2. AfterDone(entry, m.flowSeq) \in Entries
      BY InvNet, DoneType
    <2> QED  BY <1>1, <2>1, <2>2, NoteRequestStep
  <1> QED  BY <1>3, <1>4, <1>5, <1>6 DEF FlowMessage

\* A new permit is one for the data stream if it is for the current request.
LEMMA GrantPermitStep ==
    ASSUME Inv, GrantPermit
    PROVE  StreamStep
  <1>1. PICK n \in 1 .. MaxSlotsPerSender : SendPermitToSend(entry.flowSeq, n)
    BY DEF GrantPermit
  <1>2. UNCHANGED <<senderVars, packetsSeen, delivered, twice, dataSocket>>
    BY DEF GrantPermit
  <1>3. entry.flowSeq \in Sequence /\ n \in 0 .. MaxStart
    BY InvNet, Ranges DEF Entries
  <1> QED  BY <1>1, <1>2, <1>3, PermitIssued

\* The data thread passes a flow message on.
LEMMA RedirectFlowMsgStep ==
    ASSUME Inv, RedirectFlowMsg
    PROVE  StreamStep
  <1>1. UNCHANGED <<senderVars, receiverVars, permitSocket>> /\ dataSocket # <<>>
        /\ dataSocket' = Tail(dataSocket) /\ Head(dataSocket).cmd # "data"
    BY DEF RedirectFlowMsg
  <1>2. Len(dataSocket) \in Nat \ {0} /\ dataSocket' = RemoveAt(dataSocket, 1)
        /\ Head(dataSocket) = dataSocket[1]
    BY <1>1, InvNet, TailIs
  <1>3. 1 \in 1 .. Len(dataSocket) /\ dataSocket[1].cmd # "data"
    BY <1>1, <1>2
  <1>4. Packets(RemoveAt(dataSocket, 1)) = Packets(dataSocket)
    BY <1>3, InvNet, PacketsDrop
  <1> QED  BY <1>1, <1>2, <1>4, Unseen DEF senderVars, receiverVars

\* A packet arrives.
LEMMA DataArrivesStep ==
    ASSUME Inv, DataArrives
    PROVE  StreamStep
  <1>1. dataSocket # <<>> /\ dataSocket' = Tail(dataSocket) /\ Head(dataSocket).cmd = "data"
        /\ UNCHANGED <<senderVars, entry, flowSocket, permitSocket, losses>>
    BY DEF DataArrives
  <1>2. Len(dataSocket) \in Nat \ {0} /\ dataSocket' = RemoveAt(dataSocket, 1)
        /\ Head(dataSocket) = dataSocket[1]
    BY <1>1, InvNet, TailIs
  <1>3. 1 \in 1 .. Len(dataSocket) /\ dataSocket[1].cmd = "data"
    BY <1>1, <1>2
  <1>4. PICK w : w = Packets(dataSocket)
    OBVIOUS
  <1>5. PICK j \in 1 .. Len(w) : /\ Packets(RemoveAt(dataSocket, 1)) = RemoveAt(w, j)
                                 /\ w[j] = Plain(dataSocket[1]) /\ j = 1
    BY <1>3, <1>4, InvNet, PacketsRemove
  <1>6. w \in Seq(PlainPacket)
    BY <1>4, InvNet, PacketsShort
  <1>7. w # <<>>
    BY <1>5, <1>6
  <1>8. Tail(w) = RemoveAt(w, 1) /\ Head(w) = w[1]
    BY <1>6, <1>7, TailIs
  <1>9. Packets(dataSocket)' = Tail(w) /\ Head(w) = Plain(dataSocket[1])
    BY <1>2, <1>5, <1>8, Mapped
  <1>10. PICK n, resent : n = dataSocket[1].n /\ resent = dataSocket[1].resent
    OBVIOUS
  <1>11. Head(w).n = n /\ Head(w).resent = resent
    BY <1>9, <1>10 DEF Plain
  <1>12. packetsSeen' = NoteSeen(packetsSeen, n % SeqSpace, resent)
         /\ delivered' = delivered \cup (IF IsDuplicate(packetsSeen, n % SeqSpace, resent) THEN {} ELSE {n})
         /\ twice' = twice \cup ((IF IsDuplicate(packetsSeen, n % SeqSpace, resent) THEN {} ELSE {n}) \cap delivered)
    BY <1>2, <1>10 DEF DataArrives
  <1>13. CurrentPermits' = CurrentPermits /\ UNCHANGED <<nextSendSequence, resendList, requestActive>>
    BY <1>1, Mapped DEF senderVars
  <1>14. Stream!NoteSeen(packetsSeen, n % SeqSpace, resent) = NoteSeen(packetsSeen, n % SeqSpace, resent)
         /\ (Stream!IsDuplicate(packetsSeen, n % SeqSpace, resent) <=> IsDuplicate(packetsSeen, n % SeqSpace, resent))
    BY SameDefinitions
  <1>15. Stream!Receive(Head(w))
    <2>1. CASE IsDuplicate(packetsSeen, n % SeqSpace, resent)
      <3>1. delivered' = delivered /\ twice' = twice
        BY <1>12, <2>1
      <3> QED  BY <1>11, <1>12, <1>13, <1>14, <2>1, <3>1 DEF Stream!Receive
    <2>2. CASE ~IsDuplicate(packetsSeen, n % SeqSpace, resent)
      <3>1. delivered' = delivered \cup {n} /\ twice' = twice \cup ({n} \cap delivered)
        BY <1>12, <2>2
      <3> QED  BY <1>11, <1>12, <1>13, <1>14, <2>2, <3>1 DEF Stream!Receive
    <2> QED  BY <2>1, <2>2
  <1>16. Stream!Arrive
    BY <1>4, <1>7, <1>9, <1>15 DEF Stream!Arrive
  <1> QED  BY <1>16 DEF StreamStep, Stream!Next

\* Something is lost.
LEMMA LoseStep ==
    ASSUME Inv, Lose
    PROVE  StreamStep
  <1>1. UNCHANGED <<senderVars, receiverVars>>
    BY DEF Lose
  <1>2. CASE UNCHANGED <<dataSocket, permitSocket>>
    BY <1>1, <1>2, Unseen DEF senderVars, receiverVars
  <1>3. CASE LoseFrom(dataSocket, dataSocket') /\ UNCHANGED <<flowSocket, permitSocket>>
    <2>1. PICK i \in 1 .. Len(dataSocket) : dataSocket' = RemoveAt(dataSocket, i)
      BY <1>3, InvNet DEF LoseFrom
    <2>2. CASE dataSocket[i].cmd # "data"
      <3>1. Packets(dataSocket') = Packets(dataSocket)
        BY <2>1, <2>2, InvNet, PacketsDrop
      <3> QED  BY <1>1, <1>3, <3>1, Unseen DEF senderVars, receiverVars
    <2>3. CASE dataSocket[i].cmd = "data"
      <3>1. PICK w : w = Packets(dataSocket)
        OBVIOUS
      <3>2. PICK j \in 1 .. Len(w) : Packets(RemoveAt(dataSocket, i)) = RemoveAt(w, j)
        BY <2>3, <3>1, InvNet, PacketsRemove
      <3>3. j \in DOMAIN w
        <4>1. w \in Seq(PlainPacket)
          BY <3>1, InvNet, PacketsShort
        <4> QED  BY <4>1
      <3>4. Packets(dataSocket)' = Stream!RemoveAt(w, j)
        BY <2>1, <3>2, Mapped, SameListDefinitions
      <3>5. CurrentPermits' = CurrentPermits
        BY <1>1, <1>3, Mapped DEF senderVars
      <3>6. Stream!LosePacket
        BY <1>1, <3>1, <3>3, <3>4, <3>5 DEF Stream!LosePacket, senderVars, receiverVars
      <3> QED  BY <3>6 DEF StreamStep, Stream!Next
    <2> QED  BY <2>2, <2>3
  <1>4. CASE LoseFrom(permitSocket, permitSocket') /\ UNCHANGED <<flowSocket, dataSocket>>
    <2>1. PICK i \in 1 .. Len(permitSocket) : permitSocket' = RemoveAt(permitSocket, i)
      BY <1>4, InvNet DEF LoseFrom
    <2>2. PICK A, ps : A = activeFlowSequence /\ ps = permitSocket
      OBVIOUS
    <2>3. ps \in Seq(OkToSend) /\ i \in 1 .. Len(ps) /\ activeFlowSequence' = A
      BY <1>1, <2>2, InvNet DEF senderVars
    <2>4. \/ Current(RemoveAt(ps, i), A) = Current(ps, A)
          \/ ps[i].flowSeq = A /\ Current(RemoveAt(ps, i), A) = Current(ps, A) \ {ps[i].seen}
      BY <2>3, CurrentRemove
    <2>5. CASE Current(RemoveAt(ps, i), A) = Current(ps, A)
      BY <1>1, <1>4, <2>1, <2>2, <2>3, <2>5, Unseen DEF senderVars, receiverVars
    <2>6. CASE ps[i].flowSeq = A /\ Current(RemoveAt(ps, i), A) = Current(ps, A) \ {ps[i].seen}
      <3>1. ps[i].seen \in Current(ps, A)
        <4>1. i \in DOMAIN ps
          BY <2>3
        <4> QED  BY <2>6, <4>1, CurrentIs
      <3>2. ps[i].seen \in CurrentPermits /\ CurrentPermits' = CurrentPermits \ {ps[i].seen}
            /\ Packets(dataSocket)' = Packets(dataSocket)
        BY <1>4, <2>1, <2>2, <2>3, <2>6, <3>1, Mapped
      <3>3. Stream!LosePermit
        BY <1>1, <3>2 DEF Stream!LosePermit, senderVars, receiverVars
      <3> QED  BY <3>3 DEF StreamStep, Stream!Next
    <2> QED  BY <2>4, <2>5, <2>6
  <1> QED  BY <1>2, <1>3, <1>4 DEF Lose

\* Steps that only write a flow message, change the entry or what is queued.
LEMMA OtherStep ==
    ASSUME ResendRequest \/ ExpirePermit \/ RemoveData
    PROVE  StreamStep
  <1>1. UNCHANGED <<nextSendSequence, resendList, requestActive, activeFlowSequence, packetsSeen,
                    delivered, twice, dataSocket, permitSocket>>
    BY DEF ResendRequest, ExpirePermit, RemoveData, senderVars, receiverVars, netVars
  <1> QED  BY <1>1, Unseen

\* What a packet on the wire says, whatever its number.
AnyPacket == [n : Nat, resent : BOOLEAN]

\* The packets sent in answer to a permit are the old ones, then the new ones.
SentAs(v, old, next, x, k) ==
    /\ x \in Nat /\ k \in Nat /\ next \in Nat
    /\ old \in Seq(Nat) /\ Len(old) = x /\ Len(v) = x + k
    /\ \A j \in 1 .. x + k :
          IF j <= x THEN v[j] = [cmd |-> "data", n |-> old[j], resent |-> TRUE]
                    ELSE v[j] = [cmd |-> "data", n |-> next + j - x - 1, resent |-> FALSE]

OldPackets(old)     == [j \in DOMAIN old |-> [n |-> old[j], resent |-> TRUE]]
NewPackets(next, k) == [j \in 1 .. k |-> [n |-> next + j - 1, resent |-> FALSE]]
Plains(v)           == [j \in 1 .. Len(v) |-> Plain(v[j])]

\* What one permit sends: the packets that are sent again, then the new ones.
LEMMA PlainSent ==
    ASSUME NEW v, NEW old, NEW next, NEW x, NEW k, SentAs(v, old, next, x, k), NEW w \in Seq(AnyPacket)
    PROVE  w \o Plains(v) = (w \o OldPackets(old)) \o NewPackets(next, k)
  <1>t. x \in Nat /\ k \in Nat /\ next \in Nat /\ old \in Seq(Nat) /\ Len(old) = x /\ Len(v) = x + k
    BY DEF SentAs
  <1> USE <1>t
  <1>h. PICK a, b, c : a = OldPackets(old) /\ b = NewPackets(next, k) /\ c = Plains(v)
    OBVIOUS
  <1>0. /\ \A j \in 1 .. x + k :
              IF j <= x THEN v[j] = [cmd |-> "data", n |-> old[j], resent |-> TRUE]
                        ELSE v[j] = [cmd |-> "data", n |-> next + j - x - 1, resent |-> FALSE]
        /\ a = [j \in DOMAIN old |-> [n |-> old[j], resent |-> TRUE]]
        /\ b = [j \in 1 .. k |-> [n |-> next + j - 1, resent |-> FALSE]]
        /\ c = [j \in 1 .. Len(v) |-> Plain(v[j])]
    BY <1>h DEF SentAs, OldPackets, NewPackets, Plains
  <1>1. DOMAIN old = 1 .. x /\ \A j \in 1 .. x : old[j] \in Nat
    OBVIOUS
  <1>2. \A j \in 1 .. x : a[j] = [n |-> old[j], resent |-> TRUE] /\ a[j] \in AnyPacket
    BY <1>0, <1>1 DEF AnyPacket
  <1>3. a \in [1 .. x -> AnyPacket]
    BY <1>0, <1>1, <1>2
  <1>4. a \in Seq(AnyPacket) /\ Len(a) = x
    BY <1>3
  <1>5. \A j \in 1 .. k : b[j] = [n |-> next + j - 1, resent |-> FALSE] /\ next + j - 1 \in Nat
    BY <1>0
  <1>6. ASSUME NEW j \in 1 .. k
        PROVE  b[j] \in AnyPacket
    <2>1. PICK m \in Nat : m = next + j - 1
      OBVIOUS
    <2>2. b[j] = [n |-> m, resent |-> FALSE]
      BY <1>5, <2>1
    <2> QED  BY <2>1, <2>2 DEF AnyPacket
  <1>7. b \in [1 .. k -> AnyPacket]
    BY <1>0, <1>6
  <1>8. b \in Seq(AnyPacket) /\ Len(b) = k
    BY <1>7
  <1>9. ASSUME NEW j \in 1 .. x + k
        PROVE  Plain(v[j]) = IF j <= x THEN a[j] ELSE b[j - x]
    <2>1. CASE j <= x
      <3>1. j \in 1 .. x
        BY <2>1
      <3>2. v[j] = [cmd |-> "data", n |-> old[j], resent |-> TRUE]
        BY <1>0, <2>1
      <3>3. Plain(v[j]) = [n |-> old[j], resent |-> TRUE]
        BY <3>2 DEF Plain
      <3> QED  BY <1>2, <2>1, <3>1, <3>3
    <2>2. CASE ~(j <= x)
      <3>1. PICK q : q = j - x
        OBVIOUS
      <3>2. PICK m : m = next + q - 1
        OBVIOUS
      <3>3. q \in 1 .. k /\ next + j - x - 1 = m
        BY <2>2, <3>1, <3>2
      <3>4. v[j] = [cmd |-> "data", n |-> m, resent |-> FALSE]
        BY <1>0, <2>2, <3>3
      <3>5. Plain(v[j]) = [n |-> m, resent |-> FALSE]
        BY <3>4 DEF Plain
      <3>6. b[q] = [n |-> m, resent |-> FALSE]
        BY <1>5, <3>2, <3>3
      <3> QED  BY <2>2, <3>1, <3>5, <3>6
    <2> QED  BY <2>1, <2>2
  <1>10. PICK d : d = a \o b
    OBVIOUS
  <1>11. PICK z \in Nat : z = x + k
    OBVIOUS
  <1>12. d \in Seq(AnyPacket) /\ Len(d) = z
         /\ \A j \in 1 .. z : d[j] = IF j <= x THEN a[j] ELSE b[j - x]
    <2>1. a \o b \in Seq(AnyPacket) /\ Len(a \o b) = Len(a) + Len(b)
          /\ \A j \in 1 .. Len(a) + Len(b) : (a \o b)[j] = IF j <= Len(a) THEN a[j] ELSE b[j - Len(a)]
      BY <1>4, <1>8, ConcatProperties
    <2> QED  BY <1>4, <1>8, <1>10, <1>11, <2>1
  <1>13. DOMAIN c = 1 .. z /\ c = [j \in 1 .. z |-> c[j]] /\ \A j \in 1 .. z : c[j] = d[j]
    BY <1>0, <1>9, <1>11, <1>12
  <1>14. d = [j \in 1 .. z |-> d[j]]
    BY <1>12
  <1>15. c = d
    BY <1>13, <1>14
  <1>16. (w \o a) \o b = w \o (a \o b)
    BY <1>4, <1>8, ConcatAssociative, SMTT(40)
  <1> QED  BY <1>h, <1>10, <1>15, <1>16

\* sendData and sendDone: UsePermit.
LEMMA UsePermitStep ==
    ASSUME MaxFlow < SeqSpace - 1, Inv, FlowNumbers, NEW i \in 1 .. Len(permitSocket),
           NEW p, p = permitSocket[i], p.flowSeq = activeFlowSequence,
           NEW aborted, UsePermit(p, aborted),
           permitSocket' = RemoveAt(permitSocket, i)
    PROVE  StreamStep
  <1>1. p \in OkToSend /\ permitSocket \in Seq(OkToSend)
    BY InvNet
  <1>2. PICK x, k, w : x = Len(OldOf(p)) /\ k = NewOf(p) /\ w = Packets(dataSocket)
    OBVIOUS
  <1>3. p.seen \in CurrentPermits /\ p.max_data \in 0 .. MaxStart /\ k \in 0 .. MaxStart
    <2>1. p.seen \in Current(permitSocket, activeFlowSequence)
      <3>1. i \in DOMAIN permitSocket
        BY <1>1
      <3> QED  BY <3>1, CurrentIs
    <2> QED  BY <1>1, <1>2, <2>1, Mapped, PermitFacts DEF OkToSend
  <1>4. /\ k <= Stream!NewPacketLimit(ListOf(p), nextSendSequence, p.max_data,
                   Stream!Cardinality(ToResend(resendList, p.seen, p.max_data, resendList.entries)))
        /\ nextSendSequence + k <= MaxSend
        /\ ~Stream!AppendRangeFails(ListOf(p), nextSendSequence, k)
        /\ Stream!AppendRange(ListOf(p), nextSendSequence, k) = KeptOf(p)
    <2>1. Stream!Cardinality(ToResend(resendList, p.seen, p.max_data, resendList.entries)) = x
      BY <1>1, <1>2, PermitFacts, SameListDefinitions
    <2>2. k <= LimitOf(p) /\ nextSendSequence + k <= MaxSend
      BY <1>1, <1>2, PermitFacts
    <2>3. ~AppendRangeFails(ListOf(p), nextSendSequence, k)
      BY <1>1, <1>2, PermitFacts, AppendNeverFails
    <2>4. Stream!NewPacketLimit(ListOf(p), nextSendSequence, p.max_data, x) = LimitOf(p)
      BY <1>2, SameListDefinitions DEF LimitOf
    <2>5. Stream!AppendRange(ListOf(p), nextSendSequence, k) = KeptOf(p)
      BY <1>2, SameListDefinitions DEF KeptOf
    <2> QED  BY <2>1, <2>2, <2>3, <2>4, <2>5, SameListDefinitions
  <1>5. nextSendSequence' = nextSendSequence + k /\ resendList' = KeptOf(p)
        /\ Len(dataSocket) + Len(SentBy(p)) + 1 <= MaxWire
        /\ dataSocket' = (dataSocket \o SentBy(p)) \o <<DoneMsg(p, aborted)>>
        /\ requestActive' = MoreAfter(p, aborted) /\ UNCHANGED <<packetsSeen, delivered, twice>>
    BY <1>2, UsePermitIs DEF receiverVars
  <1>6. x \in Nat /\ k \in Nat /\ nextSendSequence \in Nat /\ OldOf(p) \in Seq(Nat)
        /\ \A j \in 1 .. x : OldOf(p)[j] \in 0 .. nextSendSequence - 1 /\ PacketOf(OldOf(p)[j]) = OldOf(p)[j]
    <2>1. Window(resendList, nextSendSequence)
      BY DEF Inv, SenderInv
    <2>2. nextSendSequence \in Nat
      BY <2>1, Ranges DEF Window
    <2>3. k \in Nat
      BY <1>3, Ranges
    <2>4. OldOf(p) \in Seq(Nat) /\ Len(OldOf(p)) \in Nat
          /\ \A j \in 1 .. Len(OldOf(p)) :
                OldOf(p)[j] \in 0 .. nextSendSequence - 1 /\ PacketOf(OldOf(p)[j]) = OldOf(p)[j]
      BY <1>1, PermitFacts
    <2> QED  BY <1>2, <2>2, <2>3, <2>4
  <1>7. /\ SentBy(p) \in Seq(DataMessage) /\ Len(SentBy(p)) = x + k
        /\ \A j \in 1 .. x + k :
             IF j <= x THEN /\ SentBy(p)[j] = [cmd |-> "data", n |-> OldOf(p)[j], resent |-> TRUE]
                            /\ OldOf(p)[j] \in 0 .. nextSendSequence - 1
                       ELSE SentBy(p)[j] = [cmd |-> "data", n |-> nextSendSequence + j - x - 1, resent |-> FALSE]
    BY <1>1, <1>2, SentIs
  <1>8. w \in Seq(PlainPacket) /\ Len(w) + x + k <= MaxWire
    <2>1. w \in Seq(PlainPacket) /\ Len(w) <= Len(dataSocket)
      BY <1>2, InvNet, PacketsShort
    <2>2. Len(w) \in Nat /\ Len(dataSocket) \in Nat
      BY <2>1, InvNet
    <2> QED  BY <1>5, <1>6, <1>7, <2>1, <2>2, Ranges
  <1>9. PICK a, b : /\ a = [j \in DOMAIN OldOf(p) |-> [n |-> Stream!PacketOf(OldOf(p)[j]), resent |-> TRUE]]
                    /\ b = [j \in 1 .. k |-> [n |-> nextSendSequence + j - 1, resent |-> FALSE]]
    OBVIOUS
  <1>10. Packets(dataSocket)' = (w \o a) \o b
    <2>1. PICK old, v, next : old = OldOf(p) /\ v = SentBy(p) /\ next = nextSendSequence
      OBVIOUS
    <2>2. Packets((dataSocket \o v) \o <<DoneMsg(p, aborted)>>) = w \o Plains(v)
      <3>1. DoneMsg(p, aborted) \in FlowMessage
        BY InvNet DEF DoneMsg, FlowMsg, FlowMessage
      <3>2. dataSocket \in Seq(Message)
        BY InvNet
      <3>3. Packets((dataSocket \o v) \o <<DoneMsg(p, aborted)>>)
              = Packets(dataSocket) \o [j \in 1 .. Len(v) |-> Plain(v[j])]
        BY <1>7, <2>1, <3>1, <3>2, PacketsConcat
      <3> QED  BY <1>2, <3>3 DEF Plains
    <2>3. old \in Seq(Nat) /\ Len(old) = x /\ next \in Nat /\ Len(v) = x + k /\ x \in Nat /\ k \in Nat
      BY <1>2, <1>6, <1>7, <2>1
    <2>4. SentAs(v, old, next, x, k)
      BY <1>7, <2>1, <2>3 DEF SentAs
    <2>5. DOMAIN old = 1 .. x
      BY <2>3
    <2>6. \A j \in 1 .. x : Stream!PacketOf(old[j]) = old[j]
      BY <1>6, <2>1, SameListDefinitions
    <2>7. a = OldPackets(old) /\ b = NewPackets(next, k)
      BY <1>9, <2>1, <2>5, <2>6 DEF OldPackets, NewPackets
    <2>8. w \in Seq(AnyPacket)
      <3>1. PlainPacket \subseteq AnyPacket
        BY Ranges DEF PlainPacket, AnyPacket
      <3> QED  BY <1>8, <3>1, SeqDef
    <2>9. w \o Plains(v) = (w \o OldPackets(old)) \o NewPackets(next, k)
      BY <2>4, <2>8, PlainSent, SMTT(40)
    <2>10. Packets(dataSocket)' = Packets((dataSocket \o v) \o <<DoneMsg(p, aborted)>>)
      BY <1>5, <2>1, Mapped
    <2> QED  BY <2>2, <2>7, <2>9, <2>10
  <1>11. Stream!SendData(p.seen, p.max_data, resendList.entries, k)
    <2>1. Stream!NoteRead(resendList, p.seen, p.max_data, resendList.entries) = ListOf(p)
          /\ Stream!ToResend(resendList, p.seen, p.max_data, resendList.entries)
               = ToResend(resendList, p.seen, p.max_data, resendList.entries)
          /\ Stream!InOrder(resendList, ToResend(resendList, p.seen, p.max_data, resendList.entries)) = OldOf(p)
      BY SameListDefinitions DEF ListOf, OldOf
    <2> QED  BY <1>2, <1>4, <1>5, <1>8, <1>9, <1>10, <2>1 DEF Stream!SendData
  <1>12. k > 0 => requestActive
    <2>1. ~requestActive => k = 0
      BY <1>1, <1>2, EndedIsEmpty
    <2> QED  BY <2>1
  <1>13. PICK A : A = activeFlowSequence
    OBVIOUS
  <1>14. A \in Sequence /\ A \in Int /\ A <= MaxFlow /\ permitSocket \in Seq(PermitUpTo(A))
    BY <1>13, InvNet DEF FlowNumbers, Sequence
  <1>15. requestActive' \in BOOLEAN
    BY <1>5 DEF MoreAfter
  <1>16. requestActive' => requestActive /\ CurrentPermits' = {}
    <2>1. SUFFICES ASSUME requestActive' PROVE requestActive /\ CurrentPermits' = {}
      OBVIOUS
    <2>2. MoreAfter(p, aborted)
      BY <1>5, <2>1
    <2>3. activeFlowSequence' = A + 1
      BY <1>13, <1>14, <2>2, NextFlowIs, UsePermitIs
    <2>4. permitSocket' \in Seq(PermitUpTo(A))
      BY <1>14, RemoveAtIs
    <2>5. A + 1 \in Int /\ A < A + 1
      BY <1>14
    <2>6. PICK qs : qs = permitSocket'
      OBVIOUS
    <2>7. Current(qs, A + 1) = {}
      BY <1>14, <2>4, <2>5, <2>6, CurrentNone
    <2> QED  BY <2>2, <2>3, <2>6, <2>7, Mapped DEF MoreAfter
  <1>17. ~requestActive' => CurrentPermits' \in {CurrentPermits, CurrentPermits \ {p.seen}}
    <2>1. SUFFICES ASSUME ~requestActive' PROVE CurrentPermits' \in {CurrentPermits, CurrentPermits \ {p.seen}}
      OBVIOUS
    <2>2. activeFlowSequence' = A
      BY <1>5, <1>13, <2>1, UsePermitIs
    <2>3. Current(RemoveAt(permitSocket, i), A) \in {Current(permitSocket, A), Current(permitSocket, A) \ {permitSocket[i].seen}}
      BY <1>1, CurrentRemove
    <2>4. CurrentPermits = Current(permitSocket, A) /\ CurrentPermits' = Current(RemoveAt(permitSocket, i), A)
      BY <1>13, <2>2, Mapped
    <2> QED  BY <2>3, <2>4
  <1>18. Stream!UsePermit
    <2>1. (IF FALSE THEN SUBSET resendList.entries ELSE {resendList.entries}) = {resendList.entries}
      OBVIOUS
    <2> QED  BY <1>3, <1>11, <1>12, <1>15, <1>16, <1>17, <2>1 DEF Stream!UsePermit
  <1> QED  BY <1>18 DEF StreamStep, Stream!Next

\* A permit that arrives is used in both, or in neither.
LEMMA PermitArrivesStep ==
    ASSUME MaxFlow < SeqSpace - 1, Inv, FlowNumbers, PermitArrives
    PROVE  StreamStep
  <1>1. PICK i \in Next1(permitSocket) :
           /\ permitSocket' = RemoveAt(permitSocket, i)
           /\ IF permitSocket[i].flowSeq = activeFlowSequence
              THEN \E aborted \in BOOLEAN :
                       /\ aborted => requestActive /\ aborts < MaxAborts
                       /\ UsePermit(permitSocket[i], aborted)
              ELSE UNCHANGED <<senderVars, receiverVars, flowSocket, dataSocket, losses>>
    BY DEF PermitArrives
  <1>2. i \in 1 .. Len(permitSocket)
    BY InvNet DEF Next1
  <1>3. PICK p : p = permitSocket[i]
    OBVIOUS
  <1>4. CASE p.flowSeq = activeFlowSequence
    <2>1. PICK aborted \in BOOLEAN : UsePermit(p, aborted)
      BY <1>1, <1>3, <1>4
    <2> QED  BY <1>1, <1>2, <1>3, <1>4, <2>1, UsePermitStep
  <1>5. CASE p.flowSeq # activeFlowSequence
    <2>1. UNCHANGED <<senderVars, receiverVars, dataSocket>>
      BY <1>1, <1>3, <1>5
    <2>2. Current(RemoveAt(permitSocket, i), activeFlowSequence) = Current(permitSocket, activeFlowSequence)
      BY <1>2, <1>3, <1>5, InvNet, CurrentRemove
    <2> QED  BY <1>1, <2>1, <2>2, Unseen DEF senderVars, receiverVars
  <1> QED  BY <1>4, <1>5

\* The initial states.
LEMMA InitStream == TransportInit => Stream!Init
  <1> SUFFICES ASSUME TransportInit PROVE Stream!Init
    OBVIOUS
  <1>1. dataSocket = <<>> /\ permitSocket = <<>>
    BY DEF TransportInit
  <1>2. Packets(dataSocket) = <<>>
    <2>1. dataSocket \in Seq(Message) /\ Len(dataSocket) = 0
      BY <1>1
    <2>2. Packets(dataSocket) \in Seq(PlainPacket) /\ Len(Packets(dataSocket)) <= 0
      BY <2>1, PacketsShort
    <2> QED  BY <2>2
  <1>3. CurrentPermits = {}
    BY <1>1 DEF CurrentPermits
  <1>4. Stream!EmptyResendList = EmptyResendList /\ Stream!NewTracker = NewTracker
    BY DEF Stream!EmptyResendList, EmptyResendList, Stream!NewTracker, NewTracker
  <1> QED  BY <1>2, <1>3, <1>4 DEF TransportInit, Stream!Init

\* Every step.
LEMMA StreamNext ==
    ASSUME MaxFlow < SeqSpace - 1, Inv, FlowNumbers, [TransportNext]_vars
    PROVE  StreamStep
  <1>1. CASE UNCHANGED vars
    BY <1>1, Unseen DEF vars, senderVars, receiverVars, netVars
  <1>2. CASE TransportNext
    BY <1>2, PushDataStep, GiveUpStep, PermitArrivesStep, FlowArrivesStep, GrantPermitStep, RedirectFlowMsgStep,
       DataArrivesStep, LoseStep, OtherStep DEF TransportNext
  <1> QED  BY <1>1, <1>2

\* ImplementsDataStream: whatever requests, permits and completions are lost,
\* late, repeated or reordered, the transport only does what UdpDataStream
\* allows, so all that is proved there for any permits holds for the permits
\* that the flow control really issues.  The flow sequence numbers must not wrap
\* around while an old permit is on its way: the code ignores a permit only
\* because its number differs.
THEOREM TransportImplementsStream ==
    ASSUME MaxFlow < SeqSpace - 1
    PROVE  TransportSpec => ImplementsDataStream
  <1>1. TransportInit => FlowNumbers /\ Stream!Init
    BY InitFlow, InitStream
  <1>2. Inv /\ FlowNumbers /\ [TransportNext]_vars => FlowNumbers'
    BY FlowStep
  <1>3. Inv /\ FlowNumbers /\ [TransportNext]_vars => [Stream!Next]_(Stream!vars)
    BY StreamNext DEF StreamStep
  <1> QED  BY InvInductive, <1>1, <1>2, <1>3, PTL DEF TransportSpec, ImplementsDataStream, Stream!Spec
=============================================================================
