----------------------- MODULE UdpDataStream_proofs -----------------------
(* The tracker, the resend list and the packets on the wire agree, for any    *)
(* size of the bitmap, any range of sequence numbers and any bounds.          *)
EXTENDS MCUdpDataStream, SequenceTheorems, FiniteSetTheorems, WellFoundedInduction, TLAPS

-----------------------------------------------------------------------------
(* Numbers that wrap around.                                                  *)

\* The remainder lies below the modulus.
LEMMA ModRange ==
    ASSUME NEW N \in Nat \ {0}, NEW a \in Int
    PROVE  a % N \in 0 .. N - 1
  OBVIOUS

\* Every number is a multiple of the modulus and a remainder.
LEMMA ModSplit ==
    ASSUME NEW N \in Nat \ {0}, NEW a \in Int
    PROVE  \E q \in Int, r \in 0 .. N - 1 : a = N * q + r /\ a % N = r
  <1>1. ASSUME NEW x, x = a \div N, NEW y, y = a % N
        PROVE  x \in Int /\ y \in 0 .. N - 1 /\ a = N * x + y
    BY <1>1
  <1> DEFINE x == a \div N
             y == a % N
  <1>2. x \in Int /\ y \in 0 .. N - 1 /\ a = N * x + y
    BY <1>1
  <1>3. a % N = y
    OBVIOUS
  <1> HIDE DEF x, y
  <1> QED  BY <1>2, <1>3

\* The remainder is the only one.
LEMMA ModUnique ==
    ASSUME NEW N \in Nat \ {0}, NEW a \in Int, NEW q \in Int, NEW r \in 0 .. N - 1,
           a = N * q + r
    PROVE  a % N = r
  OBVIOUS

\* A number below the modulus is its own remainder.
LEMMA ModSmall ==
    ASSUME NEW N \in Nat \ {0}, NEW a \in 0 .. N - 1
    PROVE  a % N = a
  OBVIOUS

\* A multiple of the modulus does not change the remainder.
LEMMA ModMultiple ==
    ASSUME NEW N \in Nat \ {0}, NEW a \in Int, NEW b \in Int, NEW k \in Int, b = N * k + a
    PROVE  b % N = a % N
  <1>1. PICK q \in Int, r \in 0 .. N - 1 : a = N * q + r /\ a % N = r
    BY ModSplit
  <1>2. k + q \in Int /\ N * (k + q) = N * k + N * q
    OBVIOUS
  <1>3. b = N * (k + q) + r
    BY <1>1, <1>2
  <1>4. b % N = r
    BY <1>2, <1>3, ModUnique
  <1> QED  BY <1>1, <1>4

\* Equal remainders of numbers less than the modulus apart: they are equal.
LEMMA ModSame ==
    ASSUME NEW N \in Nat \ {0}, NEW a \in Int, NEW b \in Int,
           a % N = b % N, a <= b, b < a + N
    PROVE  a = b
  <1>1. PICK p \in Int, r \in 0 .. N - 1 : a = N * p + r /\ a % N = r
    BY ModSplit
  <1>2. PICK q \in Int, t \in 0 .. N - 1 : b = N * q + t /\ b % N = t
    BY ModSplit
  <1>3. r = t
    BY <1>1, <1>2
  <1> DEFINE d == q - p
  <1>4. d \in Int /\ q = p + d
    OBVIOUS
  <1> HIDE DEF d
  <1>5. N * q = N * p + N * d
    BY <1>4
  <1>6. b - a = N * d
    BY <1>1, <1>2, <1>3, <1>4, <1>5
  <1>7. d >= 1 => N * d >= N
    BY <1>4
  <1>8. d <= 0 - 1 => N * d <= 0 - N
    BY <1>4
  <1>9. d = 0
    BY <1>4, <1>6, <1>7, <1>8
  <1> QED  BY <1>4, <1>6, <1>9

\* Adding before or after the wrap around is the same.
LEMMA ModAdd ==
    ASSUME NEW N \in Nat \ {0}, NEW a \in Int, NEW b \in Int
    PROVE  ((a % N) + b) % N = (a + b) % N
  <1>1. PICK q \in Int, r \in 0 .. N - 1 : a = N * q + r /\ a % N = r
    BY ModSplit
  <1>2. a + b = N * q + (r + b) /\ r + b \in Int /\ a + b \in Int
    BY <1>1
  <1>3. (a + b) % N = (r + b) % N
    BY <1>2, ModMultiple
  <1> QED  BY <1>1, <1>3

\* The remainder by a divisor of the modulus can be taken after the wrap around.
LEMMA ModDivisor ==
    ASSUME NEW N \in Nat \ {0}, NEW K \in Nat \ {0}, N % K = 0, NEW a \in Int
    PROVE  (a % N) % K = a % K
  <1>1. PICK q \in Int, m \in 0 .. N - 1 : a = N * q + m /\ a % N = m
    BY ModSplit
  <1>0. N \in Int
    OBVIOUS
  <1>2. PICK k \in Int, r \in 0 .. K - 1 : N = K * k + r /\ N % K = r
    BY <1>0, ModSplit
  <1>3. N = K * k
    BY <1>2
  <1> DEFINE j == k * q
  <1>4. j \in Int /\ N * q = K * j
    BY <1>3
  <1> HIDE DEF j
  <1>5. m \in Int /\ a = K * j + m
    BY <1>1, <1>4
  <1>6. a % K = m % K
    BY <1>4, <1>5, ModMultiple
  <1> QED  BY <1>1, <1>6

-----------------------------------------------------------------------------
(* Least and greatest numbers.                                                *)

\* A set of numbers that is not empty has a least one.
LEMMA LeastNumber ==
    ASSUME NEW S, S \subseteq Nat, S # {}
    PROVE  \E n \in S : \A k \in S : n <= k
  <1> DEFINE R == OpToRel(<, Nat)
  <1>1. IsWellFoundedOn(R, Nat)
    BY NatLessThanWellFounded
  <1>2. ASSUME NEW x \in Nat, NEW y \in Nat, y < x PROVE <<y, x>> \in R
    BY <1>2 DEF OpToRel
  <1> HIDE DEF R
  <1>3. \E x \in S : \A y \in S : ~(<<y, x>> \in R)
    BY <1>1, WFMin
  <1>4. PICK n \in S : \A y \in S : ~(<<y, n>> \in R)
    BY <1>3
  <1>5. ASSUME NEW k \in S PROVE n <= k
    <2>1. k \in Nat /\ n \in Nat
      OBVIOUS
    <2>2. ~(k < n)
      BY <1>2, <1>4, <2>1
    <2> QED  BY <2>1, <2>2
  <1> QED  BY <1>5

-----------------------------------------------------------------------------
(* Sequence numbers of packets that are close to each other.                  *)

\* The range of the sequence numbers, as the lemmas on remainders need it.
LEMMA Ranges ==
    /\ SeqSpace \in Nat \ {0} /\ TrackerBits \in Nat \ {0}
    /\ 2 * TrackerBits < SeqSpace /\ SeqSpace % TrackerBits = 0
    /\ SeqSpace \div 2 \in Nat /\ TrackerBits < SeqSpace \div 2
    /\ SeqSpace = 2 * (SeqSpace \div 2)
  BY SequenceAssumption, TrackerAssumption

\* Sequence numbers are remainders.
LEMMA SequenceType == \A a \in Int : a % SeqSpace \in Sequence
  BY Ranges, ModRange DEF Sequence

\* The difference of two sequence numbers is that of the packets.
LEMMA DeltaOfPackets ==
    ASSUME NEW a \in Int, NEW b \in Int
    PROVE  /\ Delta(a, b % SeqSpace) = (a - b) % SeqSpace
           /\ Delta(a % SeqSpace, b % SeqSpace) = (a - b) % SeqSpace
  <1> DEFINE S == SeqSpace
  <1>0. S \in Nat \ {0}
    BY Ranges
  <1> HIDE DEF S
  <1>1. PICK p \in Int, r \in 0 .. S - 1 : a = S * p + r /\ a % S = r
    BY <1>0, ModSplit
  <1>2. PICK q \in Int, t \in 0 .. S - 1 : b = S * q + t /\ b % S = t
    BY <1>0, ModSplit
  <1> DEFINE x == a - t
             y == r - t
             z == a - b
  <1>3. x \in Int /\ y \in Int /\ z \in Int /\ p - q \in Int /\ p \in Int /\ q \in Int
    OBVIOUS
  <1>4. S * (0 - q) = 0 - S * q /\ S * (p - q) = S * p - S * q /\ 0 - q \in Int /\ q - p \in Int
        /\ S * (q - p) = S * q - S * p
    BY <1>0
  <1>5. x = S * q + z /\ y = S * (q - p) + z
    BY <1>0, <1>1, <1>2, <1>4
  <1> HIDE DEF x, y, z
  <1>6. x % S = z % S
    BY <1>0, <1>3, <1>5, ModMultiple
  <1>7. y % S = z % S
    BY <1>0, <1>3, <1>4, <1>5, ModMultiple
  <1>8. Delta(a, b % S) = x % S /\ Delta(a % S, b % S) = y % S
    BY <1>1, <1>2 DEF Delta, x, y, S
  <1> QED  BY <1>6, <1>7, <1>8 DEF z, S

\* A packet that is not before the other, but by less than the range.
LEMMA DeltaAfter ==
    ASSUME NEW a \in Int, NEW b \in Int, b <= a, a < b + SeqSpace
    PROVE  Delta(a % SeqSpace, b % SeqSpace) = a - b /\ Delta(a, b % SeqSpace) = a - b
  <1> DEFINE d == a - b
  <1>1. d \in 0 .. SeqSpace - 1
    BY Ranges
  <1> HIDE DEF d
  <1>2. d % SeqSpace = d
    BY <1>1, Ranges, ModSmall
  <1> QED  BY <1>2, DeltaOfPackets DEF d

\* A packet that is before the other, by at most the range.
LEMMA DeltaBefore ==
    ASSUME NEW a \in Int, NEW b \in Int, a < b, b <= a + SeqSpace
    PROVE  Delta(a % SeqSpace, b % SeqSpace) = a - b + SeqSpace
  <1> DEFINE d == a - b
             e == d + SeqSpace
  <1>1. d \in Int /\ e \in 0 .. SeqSpace - 1 /\ d = SeqSpace * (0 - 1) + e /\ 0 - 1 \in Int
    BY Ranges
  <1> HIDE DEF d, e
  <1>2. d % SeqSpace = e
    BY <1>1, Ranges, ModUnique
  <1> QED  BY <1>2, DeltaOfPackets DEF d, e

\* Comparing sequence numbers compares the packets, as long as these are no
\* more than the size of the bitmap apart.
LEMMA CompareNear ==
    ASSUME NEW a \in Int, NEW b \in Int, a - b <= TrackerBits, b - a <= TrackerBits
    PROVE  /\ IsLater(a % SeqSpace, b % SeqSpace) <=> a > b
           /\ IsEarlier(a % SeqSpace, b % SeqSpace) <=> a < b
  <1>1. CASE b <= a
    <2>1. a < b + SeqSpace
      BY Ranges
    <2>2. Delta(a % SeqSpace, b % SeqSpace) = a - b
      BY <1>1, <2>1, DeltaAfter
    <2> QED  BY <1>1, <2>2, Ranges DEF IsLater, IsEarlier
  <1>2. CASE a < b
    <2>1. b <= a + SeqSpace
      BY Ranges
    <2>2. Delta(a % SeqSpace, b % SeqSpace) = a - b + SeqSpace
      BY <1>2, <2>1, DeltaBefore
    <2> QED  BY <1>2, <2>2, Ranges DEF IsLater, IsEarlier
  <1> QED  BY <1>1, <1>2

\* The slot of a packet does not depend on the lap of the sequence numbers.
LEMMA SlotOfPacket ==
    ASSUME NEW a \in Int
    PROVE  Slot(a % SeqSpace) = Slot(a) /\ Slot(a) \in Slots
  BY Ranges, ModDivisor, ModRange DEF Slot, Slots

\* Packets of one window have slots of their own.
LEMMA SlotsDiffer ==
    ASSUME NEW a \in Int, NEW b \in Int, a < b, b < a + TrackerBits
    PROVE  Slot(a) # Slot(b)
  <1>1. TrackerBits \in Nat \ {0}
    BY Ranges
  <1>2. SUFFICES ASSUME a % TrackerBits = b % TrackerBits PROVE FALSE
    BY DEF Slot
  <1>3. a <= b
    OBVIOUS
  <1>4. a = b
    BY <1>1, <1>2, <1>3, ModSame
  <1> QED  BY <1>4

\* Counting on from a sequence number counts on from the packet.
LEMMA SlotFromBase ==
    ASSUME NEW b \in Int, NEW i \in Int
    PROVE  Slot((b % SeqSpace) + i) = Slot(b + i)
  <1> DEFINE x == (b % SeqSpace) + i
             y == b + i
  <1>1. x \in Int /\ y \in Int
    BY SequenceType DEF Sequence
  <1>2. x % SeqSpace = y % SeqSpace
    BY Ranges, ModAdd
  <1> HIDE DEF x, y
  <1>3. Slot(x % SeqSpace) = Slot(x) /\ Slot(y % SeqSpace) = Slot(y)
    BY <1>1, SlotOfPacket
  <1>4. Slot(x) = Slot(y)
    BY <1>2, <1>3
  <1> QED  BY <1>4 DEF x, y

-----------------------------------------------------------------------------
(* What the tracker stands for.                                               *)

\* The tracker t says that the packets of D have been seen: packet B is the
\* first one missing and none is further ahead than the bitmap reaches.
Records(t, D, B) ==
    /\ t \in Tracker
    /\ B \in Nat /\ B \notin D
    /\ 0 .. B - 1 \subseteq D
    /\ D \subseteq 0 .. B + TrackerBits - 1
    /\ t.base = B % SeqSpace
    /\ \E h \in D \cup {-1} : (\A d \in D : d <= h) /\ t.hwm = h % SeqSpace
    /\ t.seen = {Slot(d) : d \in {m \in D : m > B}}

\* A new tracker has seen nothing.
LEMMA NewRecords == Records(NewTracker, {}, 0)
  <1>1. 0 % SeqSpace = 0
    BY Ranges, ModSmall
  <1>2. (-1) % SeqSpace = SeqSpace - 1
    <2>1. -1 \in Int /\ SeqSpace - 1 \in 0 .. SeqSpace - 1 /\ -1 = SeqSpace * (-1) + (SeqSpace - 1)
      BY Ranges
    <2> QED  BY <2>1, Ranges, ModUnique
  <1>3. NewTracker \in Tracker
    BY Ranges DEF NewTracker, Tracker, Sequence
  <1> QED  BY <1>1, <1>2, <1>3 DEF Records, NewTracker

\* A packet inside the window is recorded, and its bit says whether it has
\* been seen.
LEMMA InsideWindow ==
    ASSUME NEW t, NEW D, NEW B, Records(t, D, B),
           NEW n \in B .. B + TrackerBits - 1
    PROVE  CanRecord(t, n % SeqSpace) /\ (Slot(n % SeqSpace) \in t.seen <=> n \in D)
  <1>1. B \in Nat /\ n \in Int /\ t.base = B % SeqSpace
    BY DEF Records
  <1>2. CanRecord(t, n % SeqSpace)
    <2>1. n < B + SeqSpace /\ B <= n
      BY <1>1, Ranges
    <2>2. Delta(n % SeqSpace, B % SeqSpace) = n - B
      BY <1>1, <2>1, DeltaAfter
    <2> QED  BY <1>1, <2>2, Ranges DEF CanRecord
  <1>3. Slot(n % SeqSpace) = Slot(n)
    BY <1>1, SlotOfPacket
  <1>4. ASSUME n \in D PROVE Slot(n) \in t.seen
    BY <1>1, <1>4 DEF Records
  <1>5. ASSUME Slot(n) \in t.seen PROVE n \in D
    <2>1. PICK d \in D : d > B /\ Slot(n) = Slot(d)
      BY <1>5 DEF Records
    <2>2. d \in Int /\ d < B + TrackerBits
      BY <1>1, Ranges DEF Records
    <2>3. ~(d < n)
      BY <1>1, <2>1, <2>2, SlotsDiffer, Ranges
    <2>4. ~(n < d)
      BY <1>1, <2>1, <2>2, SlotsDiffer, Ranges
    <2> QED  BY <1>1, <2>1, <2>2, <2>3, <2>4
  <1> QED  BY <1>2, <1>3, <1>4, <1>5

\* A packet before the window, by no more than the size of the bitmap, cannot
\* be recorded, and is earlier than the base.
LEMMA BeforeWindow ==
    ASSUME NEW t, NEW D, NEW B, Records(t, D, B),
           NEW n \in 0 .. B - 1, B <= n + TrackerBits
    PROVE  ~CanRecord(t, n % SeqSpace) /\ IsEarlier(n % SeqSpace, t.base) /\ n \in D
  <1>1. B \in Nat /\ n \in Int /\ t.base = B % SeqSpace /\ n \in D
    BY DEF Records
  <1>2. n < B /\ B <= n + SeqSpace /\ n - B <= TrackerBits /\ B - n <= TrackerBits
    BY <1>1, Ranges
  <1>3. Delta(n % SeqSpace, B % SeqSpace) = n - B + SeqSpace
    BY <1>1, <1>2, DeltaBefore
  <1>4. ~CanRecord(t, n % SeqSpace)
    BY <1>1, <1>2, <1>3, Ranges DEF CanRecord
  <1>5. IsEarlier(n % SeqSpace, t.base)
    BY <1>1, <1>2, CompareNear
  <1> QED  BY <1>1, <1>4, <1>5

\* For a packet near the window hasSeen says whether it has been seen.
LEMMA HasSeenExact ==
    ASSUME NEW t, NEW D, NEW B, Records(t, D, B),
           NEW n \in Nat, n < B + TrackerBits, B <= n + TrackerBits
    PROVE  HasSeen(t, n % SeqSpace) <=> n \in D
  <1>1. B \in Nat
    BY DEF Records
  <1>2. CASE n < B
    <2>1. n \in 0 .. B - 1
      BY <1>1, <1>2
    <2> QED  BY <2>1, BeforeWindow DEF HasSeen
  <1>3. CASE n >= B
    <2>1. n \in B .. B + TrackerBits - 1
      BY <1>1, <1>3, Ranges
    <2> QED  BY <2>1, InsideWindow DEF HasSeen
  <1> QED  BY <1>1, <1>2, <1>3

\* A packet beyond the window, by no more than the size of the bitmap, has not
\* been seen, and hasSeen says so: the comparison does not wrap around.
LEMMA HasSeenBeyond ==
    ASSUME NEW t, NEW D, NEW B, Records(t, D, B),
           NEW n \in Nat, B + TrackerBits <= n, n < B + 2 * TrackerBits
    PROVE  ~HasSeen(t, n % SeqSpace)
  <1>1. B \in Nat /\ t.base = B % SeqSpace
    BY DEF Records
  <1>2. 4 * TrackerBits <= SeqSpace
    BY StreamAssumption
  <1>3. B <= n /\ n < B + SeqSpace
    BY <1>1, <1>2, Ranges
  <1>4. Delta(n % SeqSpace, B % SeqSpace) = n - B
    BY <1>1, <1>3, DeltaAfter
  <1>5. n - B >= TrackerBits /\ n - B < SeqSpace \div 2 /\ n - B \in Nat
    BY <1>1, <1>2, Ranges
  <1>6. ~CanRecord(t, n % SeqSpace)
    BY <1>1, <1>4, <1>5, Ranges DEF CanRecord
  <1>7. ~IsEarlier(n % SeqSpace, t.base)
    BY <1>1, <1>4, <1>5, Ranges DEF IsEarlier
  <1> QED  BY <1>6, <1>7 DEF HasSeen

\* The loop in noteSeen stops at the first slot that is not set.
LEMMA SetRunIs ==
    ASSUME NEW seen, NEW base \in Int, NEW n \in 0 .. TrackerBits,
           \A i \in 0 .. n - 1 : Slot(base + i) \in seen,
           n < TrackerBits => Slot(base + n) \notin seen
    PROVE  SetRun(seen, base) = n
  <1> DEFINE P(m) == /\ \A i \in 0 .. m - 1 : Slot(base + i) \in seen
                     /\ m < TrackerBits => Slot(base + m) \notin seen
  <1>1. P(n)
    OBVIOUS
  <1>2. ASSUME NEW m \in 0 .. TrackerBits, P(m) PROVE m = n
    <2>1. ~(m < n)
      <3>1. SUFFICES ASSUME m < n PROVE FALSE
        OBVIOUS
      <3>2. m \in 0 .. n - 1 /\ m < TrackerBits
        BY <3>1, Ranges
      <3> QED  BY <1>2, <3>2
    <2>2. ~(n < m)
      <3>1. SUFFICES ASSUME n < m PROVE FALSE
        OBVIOUS
      <3>2. n \in 0 .. m - 1 /\ n < TrackerBits
        BY <3>1, Ranges
      <3> QED  BY <1>1, <1>2, <3>2
    <2> QED  BY <2>1, <2>2, Ranges
  <1>3. SetRun(seen, base) = CHOOSE m \in 0 .. TrackerBits : P(m)
    BY DEF SetRun
  <1> HIDE DEF P
  <1> QED  BY <1>1, <1>2, <1>3

\* How far recording packet n moves the base: to the first packet missing.
LEMMA AdvanceIs ==
    ASSUME NEW t, NEW D, NEW B, Records(t, D, B), NEW n \in B .. B + TrackerBits - 1
    PROVE  \E a \in 0 .. TrackerBits :
              /\ Advance(t, n % SeqSpace) = a
              /\ B + a \notin D \cup {n}
              /\ 0 .. B + a - 1 \subseteq D \cup {n}
  <1>1. B \in Nat /\ n \in Int /\ t.base = B % SeqSpace /\ t.base \in Int /\ TrackerBits \in Nat
        /\ D \subseteq 0 .. B + TrackerBits - 1 /\ 0 .. B - 1 \subseteq D /\ B \notin D
    BY Ranges DEF Records, Tracker, Sequence
  <1>2. CASE n # B
    <2>1. n % SeqSpace # B % SeqSpace
      <3>1. B <= n /\ n < B + SeqSpace
        BY <1>1, Ranges
      <3>2. SeqSpace \in Nat \ {0} /\ B \in Int
        BY <1>1, Ranges
      <3>3. B % SeqSpace = n % SeqSpace => B = n
        BY <1>1, <3>1, <3>2, ModSame
      <3> QED  BY <1>2, <3>3
    <2>2. Advance(t, n % SeqSpace) = 0
      BY <1>1, <2>1 DEF Advance
    <2>3. B + 0 \notin D \cup {n} /\ 0 .. B + 0 - 1 \subseteq D \cup {n} /\ 0 \in 0 .. TrackerBits
      BY <1>1, <1>2
    <2> QED  BY <2>2, <2>3
  <1>3. CASE n = B
    <2> DEFINE E == D \cup {n}
               A == {a \in 0 .. TrackerBits : B + a \notin E}
               seen == t.seen \cup {Slot(n % SeqSpace)}
    <2>1. A \subseteq Nat /\ A # {}
      <3>1. B + TrackerBits \notin E
        BY <1>1, <1>3, Ranges
      <3>2. TrackerBits \in 0 .. TrackerBits
        BY <1>1
      <3>3. TrackerBits \in A
        BY <3>1, <3>2
      <3>4. A \subseteq Nat
        BY <1>1
      <3> HIDE DEF A
      <3> QED  BY <3>3, <3>4
    <2>2. PICK a \in A : \A k \in A : a <= k
      <3> HIDE DEF A
      <3> QED  BY <2>1, LeastNumber
    <2>3. a \in 0 .. TrackerBits /\ B + a \notin E
      OBVIOUS
    <2>4. \A i \in 0 .. a - 1 : B + i \in E
      <3>1. SUFFICES ASSUME NEW i \in 0 .. a - 1, B + i \notin E PROVE FALSE
        OBVIOUS
      <3>2. i \in 0 .. TrackerBits /\ i < a
        BY <1>1, <2>3
      <3>3. i \in A
        BY <3>1, <3>2
      <3> QED  BY <2>2, <3>2, <3>3
    <2> HIDE DEF A
    <2>5. 0 .. B + a - 1 \subseteq E
      <3>1. SUFFICES ASSUME NEW m \in 0 .. B + a - 1 PROVE m \in E
        OBVIOUS
      <3>2. CASE m < B
        BY <1>1, <3>2
      <3>3. CASE m >= B
        <4>1. m - B \in 0 .. a - 1 /\ B + (m - B) = m
          BY <1>1, <2>3, <3>3
        <4> QED  BY <2>4, <4>1
      <3> QED  BY <1>1, <2>3, <3>2, <3>3
    <2>6. \A i \in 0 .. TrackerBits - 1 : Slot(t.base + i) \in seen <=> B + i \in E
      <3>1. SUFFICES ASSUME NEW i \in 0 .. TrackerBits - 1
                     PROVE  Slot(t.base + i) \in seen <=> B + i \in E
        OBVIOUS
      <3>2. Slot(t.base + i) = Slot(B + i) /\ Slot(n % SeqSpace) = Slot(B)
        BY <1>1, <1>3, SlotFromBase, SlotOfPacket
      <3>3. CASE i = 0
        BY <1>1, <1>3, <3>2, <3>3
      <3>4. CASE i # 0
        <4> DEFINE m == B + i
        <4>1. m \in B .. B + TrackerBits - 1 /\ m \in Int /\ B < m /\ m < B + TrackerBits /\ B \in Int
          BY <1>1, <3>4
        <4> HIDE DEF m
        <4>2. Slot(m) \in t.seen <=> m \in D
          BY <4>1, InsideWindow, SlotOfPacket
        <4>3. Slot(m) # Slot(B)
          BY <4>1, SlotsDiffer
        <4>4. m # n
          BY <4>1, <1>3
        <4>5. Slot(m) \in seen <=> m \in E
          BY <4>2, <4>3, <4>4, <3>2
        <4> QED  BY <4>5, <3>2 DEF m
      <3> QED  BY <3>3, <3>4
    <2> HIDE DEF E, seen
    <2>7. \A i \in 0 .. a - 1 : Slot(t.base + i) \in seen
      <3>1. \A i \in 0 .. a - 1 : i \in 0 .. TrackerBits - 1
        BY <1>1, <2>3
      <3> QED  BY <2>4, <2>6, <3>1
    <2>8. a < TrackerBits => Slot(t.base + a) \notin seen
      <3>1. a < TrackerBits => a \in 0 .. TrackerBits - 1
        BY <1>1, <2>3
      <3> QED  BY <2>3, <2>6, <3>1
    <2>9. SetRun(seen, t.base) = a
      BY <1>1, <2>3, <2>7, <2>8, SetRunIs
    <2>10. Advance(t, n % SeqSpace) = a
      BY <1>1, <1>3, <2>9 DEF Advance, seen
    <2> QED  BY <2>3, <2>5, <2>10 DEF E
  <1> QED  BY <1>2, <1>3

\* The bits that are left when the base has moved past a packets.
LEMMA BitsAfter ==
    ASSUME NEW t, NEW D, NEW B, Records(t, D, B), NEW n \in B .. B + TrackerBits - 1,
           NEW a \in 0 .. TrackerBits, B + a \notin D \cup {n}
    PROVE  (t.seen \cup {Slot(n % SeqSpace)}) \ {Slot(t.base + i) : i \in 0 .. a - 1}
           = {Slot(d) : d \in {m \in D \cup {n} : m > B + a}}
  <1>1. B \in Nat /\ n \in Int /\ t.base = B % SeqSpace /\ TrackerBits \in Nat
        /\ D \subseteq 0 .. B + TrackerBits - 1 /\ B \notin D
    BY Ranges DEF Records
  <1>2. Slot(n % SeqSpace) = Slot(n) /\ \A i \in Int : Slot(t.base + i) = Slot(B + i)
    <2>1. B \in Int
      BY <1>1
    <2> QED  BY <1>1, <2>1, SlotFromBase, SlotOfPacket
  <1> DEFINE Old == {Slot(t.base + i) : i \in 0 .. a - 1}
             New == {Slot(d) : d \in {m \in D \cup {n} : m > B + a}}
  <1>3. ASSUME NEW d \in D \cup {n}, d > B + a PROVE Slot(d) \in t.seen \cup {Slot(n)} /\ Slot(d) \notin Old
    <2>1. d \in Int /\ d < B + TrackerBits /\ d > B
      BY <1>1, <1>3
    <2>2. Slot(d) \in t.seen \cup {Slot(n)}
      <3>1. CASE d \in D
        BY <2>1, <3>1 DEF Records
      <3>2. CASE d = n
        BY <3>2
      <3> QED  BY <3>1, <3>2
    <2>3. ASSUME NEW i \in 0 .. a - 1 PROVE Slot(d) # Slot(t.base + i)
      <3> DEFINE m == B + i
      <3>1. m \in Int /\ m < d /\ d < m + TrackerBits /\ i \in Int
        BY <1>1, <1>3, <2>1
      <3> HIDE DEF m
      <3>2. Slot(m) # Slot(d)
        BY <2>1, <3>1, SlotsDiffer
      <3> QED  BY <1>2, <3>1, <3>2 DEF m
    <2> QED  BY <2>2, <2>3
  <1>4. ASSUME NEW d \in D \cup {n}, d >= B, Slot(d) \notin Old PROVE d > B + a
    <2>1. d \in Int /\ d # B + a
      BY <1>1
    <2>2. SUFFICES ASSUME d < B + a PROVE FALSE
      BY <1>1, <2>1
    <2>3. d - B \in 0 .. a - 1 /\ d - B \in Int /\ B + (d - B) = d
      BY <1>1, <1>4, <2>1, <2>2
    <2>4. Slot(d) = Slot(t.base + (d - B))
      BY <1>2, <2>3
    <2> QED  BY <1>4, <2>3, <2>4
  <1>5. \A s \in t.seen \cup {Slot(n)} : \E d \in D \cup {n} : d >= B /\ s = Slot(d)
    <2>1. SUFFICES ASSUME NEW s \in t.seen \cup {Slot(n)}
                   PROVE  \E d \in D \cup {n} : d >= B /\ s = Slot(d)
      OBVIOUS
    <2>2. CASE s = Slot(n)
      BY <1>1, <2>2
    <2>3. CASE s \in t.seen
      <3>1. PICK d \in D : d > B /\ s = Slot(d)
        BY <2>3 DEF Records
      <3>2. d >= B
        BY <1>1, <3>1
      <3> QED  BY <3>1, <3>2
    <2> QED  BY <2>1, <2>2, <2>3
  <1>6. New \subseteq (t.seen \cup {Slot(n)}) \ Old
    BY <1>3
  <1>7. (t.seen \cup {Slot(n)}) \ Old \subseteq New
    BY <1>4, <1>5
  <1> QED  BY <1>2, <1>6, <1>7

\* The high water mark is the last packet seen or just before the first one
\* missing.
LEMMA MarkNear ==
    ASSUME NEW t, NEW D, NEW B, Records(t, D, B)
    PROVE  \E h \in Int : /\ h \in D \cup {-1}
                          /\ \A d \in D : d <= h
                          /\ t.hwm = h % SeqSpace
                          /\ B - 1 <= h /\ h < B + TrackerBits
  <1>1. PICK h \in D \cup {-1} : (\A d \in D : d <= h) /\ t.hwm = h % SeqSpace
    BY DEF Records
  <1>2. B \in Nat /\ D \subseteq 0 .. B + TrackerBits - 1 /\ 0 .. B - 1 \subseteq D
    BY DEF Records
  <1>3. h \in Int /\ h < B + TrackerBits /\ h >= -1
    BY <1>2, Ranges
  <1>4. B - 1 <= h
    <2>1. CASE B = 0
      BY <1>3, <2>1
    <2>2. CASE B > 0
      <3>1. B - 1 \in 0 .. B - 1
        BY <1>2, <2>2
      <3> QED  BY <1>1, <1>2, <3>1
    <2> QED  BY <1>2, <2>1, <2>2
  <1> QED  BY <1>1, <1>3, <1>4

\* Recording a packet inside the window adds it to what the tracker says.
LEMMA RecordExact ==
    ASSUME NEW t, NEW D, NEW B, Records(t, D, B), NEW n \in B .. B + TrackerBits - 1
    PROVE  \E b \in Nat : b >= B /\ Records(Record(t, n % SeqSpace), D \cup {n}, b)
  <1>1. B \in Nat /\ n \in Int /\ t.base = B % SeqSpace /\ TrackerBits \in Nat /\ n >= 0
        /\ D \subseteq 0 .. B + TrackerBits - 1 /\ t \in Tracker
    BY Ranges DEF Records
  <1>2. PICK a \in 0 .. TrackerBits :
              /\ Advance(t, n % SeqSpace) = a
              /\ B + a \notin D \cup {n}
              /\ 0 .. B + a - 1 \subseteq D \cup {n}
    BY AdvanceIs
  <1> DEFINE r == Record(t, n % SeqSpace)
             E == D \cup {n}
             b == B + a
  <1>3. b \in Nat /\ b >= B /\ E \subseteq 0 .. b + TrackerBits - 1
    BY <1>1
  <1>4. r.base = b % SeqSpace
    BY <1>1, <1>2, Ranges, ModAdd DEF Record
  <1>5. r.seen = {Slot(d) : d \in {m \in E : m > b}}
    BY <1>2, BitsAfter DEF Record
  <1>6. \E h \in E \cup {-1} : (\A d \in E : d <= h) /\ r.hwm = h % SeqSpace
    <2>1. PICK h \in Int : /\ h \in D \cup {-1}
                           /\ \A d \in D : d <= h
                           /\ t.hwm = h % SeqSpace
                           /\ B - 1 <= h /\ h < B + TrackerBits
      BY MarkNear
    <2>2. IsLater(n % SeqSpace, t.hwm) <=> n > h
      <3>1. n - h <= TrackerBits /\ h - n <= TrackerBits
        BY <1>1, <2>1
      <3> QED  BY <1>1, <2>1, <3>1, CompareNear
    <2>3. CASE n > h
      <3>1. r.hwm = n % SeqSpace
        BY <2>2, <2>3 DEF Record
      <3>2. \A d \in E : d <= n
        BY <1>1, <2>1, <2>3
      <3> QED  BY <3>1, <3>2
    <2>4. CASE ~(n > h)
      <3>1. r.hwm = h % SeqSpace
        BY <2>1, <2>2, <2>4 DEF Record
      <3>2. \A d \in E : d <= h
        BY <1>1, <2>1, <2>4
      <3> QED  BY <2>1, <3>1, <3>2
    <2> QED  BY <2>3, <2>4
  <1>7. r \in Tracker
    <2>1. r.base \in Sequence
      BY <1>3, <1>4, SequenceType
    <2>2. r.hwm \in Sequence
      <3>1. PICK h \in E \cup {-1} : r.hwm = h % SeqSpace
        BY <1>6
      <3>2. h \in Int
        BY <1>1
      <3> QED  BY <3>1, <3>2, SequenceType
    <2>3. r.seen \subseteq Slots
      <3>1. \A d \in E : d \in Int
        BY <1>1
      <3> QED  BY <1>5, <3>1, SlotOfPacket
    <2>4. r = [base |-> r.base, hwm |-> r.hwm, seen |-> r.seen]
      BY DEF Record
    <2> HIDE DEF r
    <2> QED  BY <2>1, <2>2, <2>3, <2>4 DEF Tracker
  <1>8. b \notin E /\ 0 .. b - 1 \subseteq E
    <2>1. b \notin E
      BY <1>2
    <2>2. ASSUME NEW m \in 0 .. b - 1 PROVE m \in E
      <3>1. m \in 0 .. B + a - 1
        BY <1>1
      <3> QED  BY <1>2, <3>1
    <2> QED  BY <2>1, <2>2
  <1> HIDE DEF r, E, b
  <1>9. Records(r, E, b)
    BY <1>3, <1>4, <1>5, <1>6, <1>7, <1>8 DEF Records
  <1> QED  BY <1>3, <1>9 DEF r, E

-----------------------------------------------------------------------------
(* What the resend list stands for.                                           *)

\* The list l of a sender that is about to send packet next holds copies of
\* the packets of K.  The oldest one is F, and the window reaches from it to
\* next (from next itself if there is none).
Holds(l, next, K, F) ==
    /\ next \in Nat /\ F \in Nat
    /\ F <= next /\ next <= F + TrackerBits
    /\ K \subseteq F .. next - 1
    /\ K = {} => F = next
    /\ K # {} => F \in K /\ l.first = F % SeqSpace
    /\ l.entries = {n % SeqSpace : n \in K}
    /\ l \in ResendList

\* How far ahead of packet p another one can be that was sent before it: an
\* original packet is the newest when it is sent, a resent one is in the window.
Slack(p) == IF p.resent THEN TrackerBits ELSE 0

\* While the order is kept, the wire w holds packets before next, and no packet
\* that is ahead of another one, or that has arrived, is too far ahead of it.
WireOrdered(w, D, next) ==
    /\ \A i \in DOMAIN w :
          /\ w[i].n < next
          /\ \A d \in D : d < w[i].n + Slack(w[i])
    /\ \A i, j \in DOMAIN w : i < j => w[i].n < w[j].n + Slack(w[j])

\* How far behind the sender a permit that counts can be: one window, and a
\* second one if the request was given up while its permit was in use.
Lag(active) == IF active THEN TrackerBits ELSE 2 * TrackerBits

\* A permit that counts: it says of packets that have been handed on that they
\* have been seen, and is not too old to be compared with.
PermitSound(t) ==
    \E D \in SUBSET delivered, B \in 0 .. nextSendSequence :
        Records(t, D, B) /\ nextSendSequence <= B + Lag(requestActive)

\* The state of the stream while the order is kept.
StreamInOrder(K, F) ==
    /\ twice = {}
    /\ delivered \subseteq 0 .. nextSendSequence - 1
    /\ \A n \in 0 .. nextSendSequence - 1 : n \in K \/ n \in delivered
    /\ \E B \in 0 .. nextSendSequence : Records(packetsSeen, delivered, B)
    /\ \A t \in permits : PermitSound(t)
    /\ WireOrdered(wire, delivered, nextSendSequence)

\* The inductive invariant.
Inv ==
    /\ TypeOK
    /\ ~appendFailed
    /\ \E K \in SUBSET (0 .. nextSendSequence - 1), F \in 0 .. nextSendSequence :
          /\ Holds(resendList, nextSendSequence, K, F)
          /\ Orderly => StreamInOrder(K, F)

\* An entry stands for a single packet, and PacketOf finds it.
LEMMA EntryOfPacket ==
    ASSUME NEW l, NEW next, NEW K, NEW F, Holds(l, next, K, F), NEW n \in K
    PROVE  /\ n \in Nat /\ F <= n /\ n < next /\ next <= n + TrackerBits
           /\ next - Delta(next, n % SeqSpace) = n
           /\ Age(l, n % SeqSpace) = n - F
           /\ n % SeqSpace \in l.entries
  <1>1. next \in Nat /\ F \in Nat /\ n \in F .. next - 1 /\ next <= F + TrackerBits
        /\ l.first = F % SeqSpace
    BY DEF Holds
  <1>2. n \in Int /\ next \in Int /\ F \in Int /\ n <= next /\ next < n + SeqSpace
        /\ F <= n /\ n < F + SeqSpace
    BY <1>1, Ranges
  <1>3. Delta(next, n % SeqSpace) = next - n
    BY <1>2, DeltaAfter
  <1>4. Delta(n % SeqSpace, F % SeqSpace) = n - F
    BY <1>2, DeltaAfter
  <1>5. n % SeqSpace \in l.entries
    BY DEF Holds
  <1> QED  BY <1>1, <1>2, <1>3, <1>4, <1>5, Ranges DEF Age

\* The packets of K that noteRead does not release.
Unconfirmed(l, K, seen, space, due) ==
    {n \in K : n % SeqSpace \notin Confirmed(l, seen, space, due)}

\* noteRead releases the confirmed packets and finds the oldest one left.
LEMMA NoteReadHolds ==
    ASSUME NEW l, NEW next, NEW K, NEW F, Holds(l, next, K, F),
           NEW seen, NEW space, NEW due
    PROVE  \E G \in F .. next : Holds(NoteRead(l, seen, space, due), next,
                                     Unconfirmed(l, K, seen, space, due), G)
  <1> DEFINE gone == Confirmed(l, seen, space, due)
             left == Unconfirmed(l, K, seen, space, due)
             es   == l.entries \ gone
             r    == NoteRead(l, seen, space, due)
  <1>1. next \in Nat /\ F \in Nat /\ F <= next /\ next <= F + TrackerBits
        /\ K \subseteq F .. next - 1 /\ l.entries = {n % SeqSpace : n \in K} /\ l \in ResendList
    BY DEF Holds
  <1>2. es = {n % SeqSpace : n \in left}
    BY <1>1 DEF Unconfirmed
  <1>3. r = [first |-> IF es = {} THEN l.first
                       ELSE CHOOSE e \in es : \A x \in es : Age(l, e) <= Age(l, x),
             entries |-> es]
    BY DEF NoteRead
  <1>4. l.first \in Sequence /\ es \subseteq Sequence
    BY <1>1 DEF ResendList
  <1>5. \A n \in left : n \in K /\ n \in Nat /\ Age(l, n % SeqSpace) = n - F /\ n < next
    BY EntryOfPacket DEF Unconfirmed
  <1>6. left = {} <=> es = {}
    BY <1>2
  <1> HIDE DEF es, r, left
  <1>7. CASE left = {}
    <2>1. r.entries = es /\ r.first = l.first /\ r \in ResendList
      BY <1>3, <1>4, <1>6, <1>7 DEF ResendList
    <2>2. Holds(r, next, left, next)
      BY <1>1, <1>2, <1>7, <2>1, Ranges DEF Holds
    <2>3. next \in F .. next
      BY <1>1
    <2> QED  BY <2>2, <2>3 DEF r, left
  <1>8. CASE left # {}
    <2>1. left \subseteq Nat
      BY <1>5
    <2>2. PICK G \in left : \A n \in left : G <= n
      BY <1>8, <2>1, LeastNumber
    <2>3. G % SeqSpace \in es /\ \A x \in es : Age(l, G % SeqSpace) <= Age(l, x)
      BY <1>1, <1>2, <1>5, <2>2
    <2>4. ASSUME NEW e \in es, \A x \in es : Age(l, e) <= Age(l, x) PROVE e = G % SeqSpace
      <3>1. PICK n \in left : e = n % SeqSpace
        BY <1>2
      <3>2. n - F <= G - F
        BY <1>5, <2>3, <2>4, <3>1
      <3>3. n = G
        BY <1>1, <1>5, <2>2, <3>2
      <3> QED  BY <3>1, <3>3
    <2>5. r.first = G % SeqSpace /\ r.entries = es
      <3>1. es # {}
        BY <2>3
      <3> QED  BY <1>3, <2>3, <2>4, <3>1
    <2>6. r \in ResendList
      <3>1. r = [first |-> r.first, entries |-> r.entries]
        BY <1>3
      <3>2. r.first \in Sequence /\ r.entries \subseteq Sequence
        BY <1>4, <2>3, <2>5
      <3> QED  BY <3>1, <3>2 DEF ResendList
    <2>7. G \in F .. next /\ next <= G + TrackerBits /\ left \subseteq G .. next - 1 /\ G \in Nat
      BY <1>1, <1>5, <2>2, Ranges, EntryOfPacket
    <2>8. Holds(r, next, left, G)
      BY <1>1, <1>2, <1>8, <2>2, <2>5, <2>6, <2>7 DEF Holds
    <2> QED  BY <2>7, <2>8 DEF r, left
  <1> QED  BY <1>7, <1>8

\* Appending packets that fit into the window.
LEMMA AppendHolds ==
    ASSUME NEW l, NEW next, NEW K, NEW F, Holds(l, next, K, F),
           NEW k \in Nat, next + k <= F + TrackerBits
    PROVE  Holds(AppendRange(l, next, k), next + k, K \cup (next .. next + k - 1), F)
  <1>1. next \in Nat /\ F \in Nat /\ F <= next /\ K \subseteq F .. next - 1
        /\ l.entries = {n % SeqSpace : n \in K} /\ l \in ResendList
        /\ (K = {} => F = next) /\ (K # {} => F \in K /\ l.first = F % SeqSpace)
    BY DEF Holds
  <1> DEFINE r == AppendRange(l, next, k)
             new == next .. next + k - 1
             to == next + k
  <1>2. {(next + i) % SeqSpace : i \in 0 .. k - 1} = {n % SeqSpace : n \in new}
    <2>1. \A i \in 0 .. k - 1 : next + i \in new
      BY <1>1
    <2>2. ASSUME NEW n \in new PROVE n - next \in 0 .. k - 1 /\ next + (n - next) = n
      BY <1>1
    <2> QED  BY <2>1, <2>2
  <1>3. r.entries = {n % SeqSpace : n \in K \cup new}
    BY <1>1, <1>2 DEF AppendRange
  <1>4. r.first = IF l.entries = {} /\ k > 0 THEN next % SeqSpace ELSE l.first
    BY DEF AppendRange
  <1>5. l.entries = {} <=> K = {}
    BY <1>1
  <1>6. r \in ResendList
    <2>1. r.first \in Sequence
      <3>1. next \in Int /\ l.first \in Sequence
        BY <1>1 DEF ResendList
      <3> HIDE DEF r
      <3> QED  BY <1>4, <3>1, SequenceType
    <2>2. ASSUME NEW n \in K \cup new PROVE n \in Int
      <3>1. CASE n \in K
        BY <1>1, <3>1
      <3>2. CASE n \in new
        BY <1>1, <3>2
      <3> QED  BY <3>1, <3>2
    <2>3. r.entries \subseteq Sequence
      BY <1>3, <2>2, SequenceType
    <2>4. r = [first |-> r.first, entries |-> r.entries]
      BY DEF AppendRange
    <2> HIDE DEF r
    <2> QED  BY <2>1, <2>3, <2>4 DEF ResendList
  <1>7. K \cup new # {} => F \in K \cup new /\ r.first = F % SeqSpace
    <2>1. CASE K # {}
      BY <1>1, <1>4, <1>5, <2>1
    <2>2. CASE K = {} /\ k = 0
      BY <1>1, <2>2
    <2>3. CASE K = {} /\ k > 0
      BY <1>1, <1>4, <1>5, <2>3
    <2> QED  BY <2>1, <2>2, <2>3
  <1>8. K \cup new = {} => F = to
    <2>1. SUFFICES ASSUME K = {}, new = {} PROVE F = to
      OBVIOUS
    <2>2. k = 0
      BY <1>1, <2>1
    <2> QED  BY <1>1, <2>1, <2>2
  <1>9. to \in Nat /\ F <= to /\ to <= F + TrackerBits /\ K \cup new \subseteq F .. to - 1
    BY <1>1
  <1> HIDE DEF r, new, to
  <1>10. Holds(r, to, K \cup new, F)
    BY <1>1, <1>3, <1>6, <1>7, <1>8, <1>9 DEF Holds
  <1> QED  BY <1>10 DEF r, new, to

\* Neither of the checks of append fails while the window is respected.
LEMMA AppendNeverFails ==
    ASSUME NEW l, NEW next, NEW K, NEW F, Holds(l, next, K, F),
           NEW k \in Nat, next + k <= F + TrackerBits
    PROVE  ~AppendRangeFails(l, next, k)
  <1>1. SUFFICES ASSUME NEW i \in 0 .. k - 1,
                        AppendFails(AppendRange(l, next, i), (next + i) % SeqSpace)
                 PROVE  FALSE
    BY DEF AppendRangeFails
  <1>2. next \in Nat /\ F \in Nat /\ i \in Nat /\ i < k
    BY DEF Holds
  <1> DEFINE r == AppendRange(l, next, i)
             J == K \cup (next .. next + i - 1)
             to == next + i
  <1>3. next + i <= F + TrackerBits
    BY <1>2, Ranges
  <1>4. Holds(r, to, J, F)
    BY <1>2, <1>3, AppendHolds
  <1>5. to \in Int /\ F <= to /\ to < F + TrackerBits
    <2>1. F <= next
      BY DEF Holds
    <2> QED  BY <1>2, <2>1, Ranges
  <1> HIDE DEF r, J, to
  <1>6. CanRecordEntry(r, to % SeqSpace)
    <2>1. CASE J = {}
      BY <1>4, <2>1 DEF Holds, CanRecordEntry
    <2>2. CASE J # {}
      <3>1. r.first = F % SeqSpace
        BY <1>4, <2>2 DEF Holds
      <3>2. Delta(to % SeqSpace, F % SeqSpace) = to - F
        <4>1. to < F + SeqSpace /\ F \in Int
          BY <1>2, <1>5, Ranges
        <4> QED  BY <1>5, <4>1, DeltaAfter
      <3> QED  BY <1>2, <1>5, <3>1, <3>2, Ranges DEF CanRecordEntry
    <2> QED  BY <2>1, <2>2
  <1>7. \A e \in r.entries : Slot(e) # Slot(to % SeqSpace)
    <2>1. SUFFICES ASSUME NEW n \in J PROVE Slot(n % SeqSpace) # Slot(to % SeqSpace)
      BY <1>4 DEF Holds
    <2>2. n \in Int /\ n < to /\ to < n + TrackerBits
      BY <1>2, <1>4, <1>5, Ranges DEF Holds
    <2>3. Slot(n) # Slot(to)
      BY <1>5, <2>2, SlotsDiffer
    <2> QED  BY <1>5, <2>2, <2>3, SlotOfPacket
  <1>8. ~AppendFails(r, to % SeqSpace)
    BY <1>6, <1>7 DEF AppendFails
  <1> QED  BY <1>1, <1>8 DEF r, to

\* sendData never sends more new packets than the window has room for.
LEMMA LimitRespectsWindow ==
    ASSUME NEW l, NEW next, NEW K, NEW F, Holds(l, next, K, F),
           NEW space \in 0 .. MaxData, NEW r \in Nat, NEW k \in Nat,
           k <= NewPacketLimit(l, next, space, r)
    PROVE  next + k <= F + TrackerBits
  <1>1. next \in Nat /\ F \in Nat /\ F <= next /\ next <= F + TrackerBits
        /\ MaxData \in 0 .. TrackerBits
    BY StreamAssumption DEF Holds
  <1> DEFINE left == IF r <= space THEN space - r ELSE 0
  <1>2. left \in 0 .. TrackerBits
    BY <1>1, Ranges
  <1>3. CASE K = {}
    <2>1. l.entries = {} /\ F = next
      BY <1>3 DEF Holds
    <2>2. k <= left
      BY <2>1 DEF NewPacketLimit
    <2> QED  BY <1>1, <1>2, <2>1, <2>2, Ranges
  <1>4. CASE K # {}
    <2>1. l.entries # {} /\ l.first = F % SeqSpace
      BY <1>4 DEF Holds
    <2>2. Delta(next, F % SeqSpace) = next - F
      <3>1. next < F + SeqSpace /\ next \in Int /\ F \in Int
        BY <1>1, Ranges
      <3> QED  BY <1>1, <3>1, DeltaAfter
    <2> HIDE DEF left
    <2>3. k <= TrackerBits - (next - F)
      <3>1. k <= (IF left > TrackerBits - (next - F) THEN TrackerBits - (next - F) ELSE left)
        BY <2>1, <2>2 DEF NewPacketLimit, left
      <3> QED  BY <1>1, <1>2, <3>1, Ranges
    <2> QED  BY <1>1, <2>3, Ranges
  <1> QED  BY <1>3, <1>4

\* The packets resent: each has its place in the order, and none is missed.
LEMMA InOrderIsSequence ==
    ASSUME NEW l \in ResendList, NEW es \in SUBSET Sequence
    PROVE  /\ InOrder(l, es) \in Seq(es)
           /\ Len(InOrder(l, es)) = Cardinality(es)
           /\ Cardinality(es) \in Nat
  <1> DEFINE Older(e) == {x \in es : Age(l, x) < Age(l, e)}
             c == Cardinality(es)
             rank == [e \in es |-> Cardinality(Older(e))]
  <1>1. IsFiniteSet(es) /\ c \in Nat
    <2>1. IsFiniteSet(Sequence)
      BY Ranges, FS_Interval DEF Sequence
    <2> QED  BY <2>1, FS_Subset, FS_CardinalityType
  <1>2. \A x \in es : Age(l, x) \in Nat
    <2>1. SUFFICES ASSUME NEW x \in es PROVE Age(l, x) \in Nat
      OBVIOUS
    <2> DEFINE a == x - l.first
    <2>2. a \in Int
      BY DEF ResendList, Sequence
    <2> HIDE DEF a
    <2>3. a % SeqSpace \in Nat
      BY <2>2, Ranges, ModRange
    <2> QED  BY <2>3 DEF a, Age, Delta
  <1>3. ASSUME NEW x \in es, NEW y \in es, Age(l, x) = Age(l, y), x <= y PROVE x = y
    <2> DEFINE a == x - l.first
               b == y - l.first
    <2>1. a \in Int /\ b \in Int /\ a <= b /\ b < a + SeqSpace
      BY <1>3, Ranges DEF ResendList, Sequence
    <2>2. a % SeqSpace = b % SeqSpace
      BY <1>3 DEF Age, Delta
    <2>3. SeqSpace \in Nat \ {0}
      BY Ranges
    <2> HIDE DEF a, b
    <2>4. a = b
      BY <2>1, <2>2, <2>3, ModSame
    <2> QED  BY <2>4 DEF a, b, ResendList, Sequence
  <1>4. ASSUME NEW x \in es, NEW y \in es, x # y PROVE Age(l, x) < Age(l, y) \/ Age(l, y) < Age(l, x)
    <2>1. x \in Int /\ y \in Int
      BY DEF Sequence
    <2> QED  BY <1>2, <1>3, <1>4, <2>1
  <1>5. ASSUME NEW e \in es PROVE IsFiniteSet(Older(e)) /\ Cardinality(Older(e)) \in 0 .. c - 1
    <2>1. Older(e) \in SUBSET es /\ e \notin Older(e)
      BY <1>2
    <2>2. IsFiniteSet(Older(e)) /\ Cardinality(Older(e)) <= c /\ (c = Cardinality(Older(e)) => es = Older(e))
      BY <1>1, <2>1, FS_Subset
    <2>3. Cardinality(Older(e)) \in Nat
      BY <2>2, FS_CardinalityType
    <2> HIDE DEF Older
    <2> QED  BY <1>1, <2>1, <2>2, <2>3
  <1>6. ASSUME NEW x \in es, NEW y \in es, Age(l, x) < Age(l, y)
        PROVE  Cardinality(Older(x)) < Cardinality(Older(y))
    <2>1. Older(x) \in SUBSET Older(y) /\ x \in Older(y) /\ x \notin Older(x)
      BY <1>2, <1>6
    <2>2. IsFiniteSet(Older(y)) /\ Cardinality(Older(y)) \in Nat /\ Cardinality(Older(x)) \in Nat
      BY <1>5
    <2> HIDE DEF Older
    <2>3. Cardinality(Older(x)) <= Cardinality(Older(y))
          /\ (Cardinality(Older(y)) = Cardinality(Older(x)) => Older(y) = Older(x))
      BY <2>1, <2>2, FS_Subset
    <2> QED  BY <2>1, <2>2, <2>3
  <1>7. \A x, y \in es : x # y => Cardinality(Older(x)) # Cardinality(Older(y))
    <2>1. SUFFICES ASSUME NEW x \in es, NEW y \in es, x # y
                   PROVE  Cardinality(Older(x)) # Cardinality(Older(y))
      OBVIOUS
    <2> DEFINE p == Cardinality(Older(x))
               q == Cardinality(Older(y))
    <2>2. p \in 0 .. c - 1 /\ q \in 0 .. c - 1
      BY <1>5
    <2>3. p < q \/ q < p
      BY <1>4, <1>6, <2>1
    <2> HIDE DEF p, q
    <2>4. p # q
      BY <1>1, <2>2, <2>3
    <2> QED  BY <2>4 DEF p, q
  <1>8. ASSUME NEW i \in 0 .. c - 1 PROVE \E e \in es : Cardinality(Older(e)) = i
    <2>1. SUFFICES ASSUME \A e \in es : Cardinality(Older(e)) # i PROVE FALSE
      OBVIOUS
    <2> DEFINE T == (0 .. c - 1) \ {i}
    <2>2. rank \in [es -> T]
      BY <1>5, <2>1
    <2>3. IsFiniteSet(T) /\ Cardinality(T) < c
      <3>1. IsFiniteSet(0 .. c - 1) /\ Cardinality(0 .. c - 1) = c
        BY <1>1, FS_Interval
      <3>2. IsFiniteSet(T) /\ Cardinality(T) = Cardinality(0 .. c - 1) - 1
        BY <3>1, FS_RemoveElement
      <3> QED  BY <1>1, <3>1, <3>2
    <2>4. \A x, y \in es : x # y => rank[x] # rank[y]
      BY <1>7
    <2> HIDE DEF T, rank
    <2>5. \E x, y \in es : x # y /\ rank[x] = rank[y]
      BY <1>1, <2>2, <2>3, FS_PigeonHole
    <2> QED  BY <2>4, <2>5
  <1>9. InOrder(l, es) = [i \in 1 .. c |-> CHOOSE e \in es : Cardinality(Older(e)) = i - 1]
    BY DEF InOrder
  <1> HIDE DEF Older, c
  <1>10. ASSUME NEW i \in 1 .. c
         PROVE  (CHOOSE e \in es : Cardinality(Older(e)) = i - 1) \in es
    <2>1. i - 1 \in 0 .. c - 1
      BY <1>1
    <2>2. \E e \in es : Cardinality(Older(e)) = i - 1
      BY <1>8, <2>1
    <2> QED  BY <2>2
  <1>11. InOrder(l, es) \in [1 .. c -> es]
    BY <1>9, <1>10
  <1>12. InOrder(l, es) \in Seq(es) /\ Len(InOrder(l, es)) = c
    BY <1>1, <1>11
  <1> QED  BY <1>1, <1>12 DEF c

-----------------------------------------------------------------------------
(* The packets on the wire.                                                   *)

\* Packets and how far they can be behind are numbers.
LEMMA PacketNumbers ==
    ASSUME NEW p \in Packet
    PROVE  p.n \in Nat /\ p.n < MaxSend /\ Slack(p) \in Nat
  <1>1. MaxSend \in Nat
    BY StreamAssumption
  <1>2. p.n \in 0 .. MaxSend - 1
    BY DEF Packet
  <1>3. Slack(p) = TrackerBits \/ Slack(p) = 0
    BY DEF Slack
  <1> QED  BY <1>1, <1>2, <1>3, Ranges

\* Taking a packet off the wire shifts those behind it.
LEMMA RemoveAtIs ==
    ASSUME NEW S, NEW s \in Seq(S), NEW i \in 1 .. Len(s)
    PROVE  /\ RemoveAt(s, i) \in Seq(S)
           /\ Len(RemoveAt(s, i)) = Len(s) - 1
           /\ \A k \in 1 .. Len(s) - 1 : RemoveAt(s, i)[k] = IF k < i THEN s[k] ELSE s[k + 1]
  <1> DEFINE a == SubSeq(s, 1, i - 1)
             b == SubSeq(s, i + 1, Len(s))
  <1>0. Len(s) \in Nat /\ i \in Nat
    OBVIOUS
  <1>1. a \in Seq(S) /\ Len(a) = i - 1 /\ \A k \in 1 .. i - 1 : a[k] = s[k]
    OBVIOUS
  <1>2. b \in Seq(S) /\ Len(b) = Len(s) - i /\ \A k \in 1 .. Len(s) - i : b[k] = s[i + k]
    OBVIOUS
  <1>3. RemoveAt(s, i) = a \o b
    BY DEF RemoveAt
  <1> HIDE DEF a, b
  <1>4. a \o b \in Seq(S) /\ Len(a \o b) = Len(s) - 1
    <2>1. a \o b \in Seq(S) /\ Len(a \o b) = Len(a) + Len(b)
      BY <1>1, <1>2, ConcatProperties
    <2>2. Len(a) + Len(b) = Len(s) - 1
      BY <1>0, <1>1, <1>2
    <2> QED  BY <2>1, <2>2
  <1>5. ASSUME NEW k \in 1 .. Len(s) - 1 PROVE (a \o b)[k] = IF k < i THEN s[k] ELSE s[k + 1]
    <2>1. CASE k < i
      BY <1>1, <1>2, <2>1
    <2>2. CASE k >= i
      <3>1. (a \o b)[k] = b[k - (i - 1)]
        BY <1>1, <1>2, <2>2
      <3>2. k - (i - 1) \in 1 .. Len(s) - i /\ i + (k - (i - 1)) = k + 1
        BY <2>2
      <3>3. b[k - (i - 1)] = s[k + 1]
        BY <1>2, <3>2
      <3> QED  BY <2>2, <3>1, <3>3
    <2>3. k < i \/ k >= i
      BY <1>0
    <2> QED  BY <2>1, <2>2, <2>3
  <1> QED  BY <1>3, <1>4, <1>5

\* A wire that has lost a packet is still in order.
LEMMA RemoveKeepsOrder ==
    ASSUME NEW w \in Seq(Packet), NEW D, NEW next, WireOrdered(w, D, next), NEW i \in 1 .. Len(w)
    PROVE  WireOrdered(RemoveAt(w, i), D, next)
  <1> DEFINE r == RemoveAt(w, i)
             At(k) == IF k < i THEN k ELSE k + 1
  <1>1. DOMAIN r = 1 .. Len(w) - 1 /\ DOMAIN w = 1 .. Len(w) /\ Len(w) \in Nat
    BY RemoveAtIs
  <1>2. \A k \in DOMAIN r : At(k) \in DOMAIN w /\ r[k] = w[At(k)]
    <2>1. \A k \in 1 .. Len(w) - 1 : r[k] = IF k < i THEN w[k] ELSE w[k + 1]
      BY RemoveAtIs
    <2> HIDE DEF r
    <2> QED  BY <1>1, <2>1
  <1>3. \A j, k \in DOMAIN r : j < k => At(j) < At(k)
    BY <1>1
  <1> HIDE DEF r, At
  <1>4. WireOrdered(r, D, next)
    BY <1>2, <1>3 DEF WireOrdered
  <1> QED  BY <1>4 DEF r

\* A packet that is put behind the others keeps the order if it is not too far
\* behind the newest one.
LEMMA ConcatKeepsOrder ==
    ASSUME NEW w \in Seq(Packet), NEW v \in Seq(Packet), NEW next \in Nat, NEW to \in Nat,
           next <= to, NEW D, D \subseteq 0 .. next - 1, WireOrdered(w, D, next),
           \A j \in 1 .. Len(v) : v[j].n < to /\ next <= v[j].n + Slack(v[j]),
           \A i, j \in 1 .. Len(v) : i < j => v[i].n < v[j].n + Slack(v[j])
    PROVE  w \o v \in Seq(Packet) /\ WireOrdered(w \o v, D, to)
  <1> DEFINE u == w \o v
             x == Len(w)
             y == Len(v)
  <1>1. u \in Seq(Packet) /\ DOMAIN u = 1 .. x + y /\ x \in Nat /\ y \in Nat /\ DOMAIN w = 1 .. x
    OBVIOUS
  <1>2. \A i \in 1 .. x + y : IF i <= x THEN i \in 1 .. x /\ u[i] = w[i]
                              ELSE i - x \in 1 .. y /\ u[i] = v[i - x]
    OBVIOUS
  <1>3. \A i \in 1 .. x : w[i] \in Packet
    OBVIOUS
  <1>4. \A i \in 1 .. y : v[i] \in Packet
    OBVIOUS
  <1>5. \A i \in 1 .. x : w[i].n \in Nat /\ Slack(w[i]) \in Nat
    BY <1>3, PacketNumbers
  <1>6. \A i \in 1 .. y : v[i].n \in Nat /\ Slack(v[i]) \in Nat
    BY <1>4, PacketNumbers
  <1> HIDE DEF u, x, y
  <1>7. ASSUME NEW i \in 1 .. x + y
        PROVE  u[i].n < to /\ \A d \in D : d < u[i].n + Slack(u[i])
    <2>1. CASE i <= x
      <3>1. i \in DOMAIN w /\ u[i] = w[i]
        BY <1>1, <1>2, <2>1
      <3>2. w[i].n < next /\ \A d \in D : d < w[i].n + Slack(w[i])
        BY <3>1 DEF WireOrdered
      <3> QED  BY <1>1, <1>5, <3>1, <3>2
    <2>2. CASE ~(i <= x)
      <3>1. i - x \in 1 .. y /\ u[i] = v[i - x]
        BY <1>2, <2>2
      <3> DEFINE k == i - x
      <3>2. v[k].n < to /\ next <= v[k].n + Slack(v[k]) /\ v[k].n \in Nat /\ Slack(v[k]) \in Nat
        BY <1>6, <3>1 DEF y
      <3> HIDE DEF k
      <3>3. \A d \in D : d < v[k].n + Slack(v[k])
        BY <3>2
      <3> QED  BY <3>1, <3>2, <3>3 DEF k
    <2> QED  BY <2>1, <2>2
  <1>8. ASSUME NEW i \in 1 .. x + y, NEW j \in 1 .. x + y, i < j
        PROVE  u[i].n < u[j].n + Slack(u[j])
    <2>1. CASE j <= x
      <3>1. i \in DOMAIN w /\ j \in DOMAIN w /\ u[i] = w[i] /\ u[j] = w[j]
        BY <1>1, <1>2, <1>8, <2>1
      <3> QED  BY <1>8, <3>1 DEF WireOrdered
    <2>2. CASE ~(j <= x) /\ i <= x
      <3> DEFINE k == j - x
      <3>1. k \in 1 .. y /\ u[j] = v[k] /\ i \in DOMAIN w /\ u[i] = w[i]
        BY <1>1, <1>2, <2>2
      <3>2. next <= v[k].n + Slack(v[k]) /\ v[k].n \in Nat /\ Slack(v[k]) \in Nat
        BY <1>6, <3>1 DEF y
      <3>3. w[i].n < next /\ w[i].n \in Nat
        BY <1>1, <1>5, <3>1 DEF WireOrdered
      <3> HIDE DEF k
      <3> QED  BY <3>1, <3>2, <3>3
    <2>3. CASE ~(j <= x) /\ ~(i <= x)
      <3> DEFINE k == j - x
                 m == i - x
      <3>1. k \in 1 .. y /\ u[j] = v[k] /\ m \in 1 .. y /\ u[i] = v[m] /\ m < k
        BY <1>1, <1>2, <1>8, <2>3
      <3> HIDE DEF k, m
      <3> QED  BY <3>1 DEF y
    <2> QED  BY <2>1, <2>2, <2>3
  <1>9. WireOrdered(u, D, to)
    BY <1>1, <1>7, <1>8 DEF WireOrdered
  <1> QED  BY <1>1, <1>9 DEF u

\* The same for the packet that arrives.
LEMMA TailKeepsOrder ==
    ASSUME NEW w \in Seq(Packet), w # <<>>, NEW D, NEW next, WireOrdered(w, D, next)
    PROVE  /\ Tail(w) \in Seq(Packet) /\ Head(w) \in Packet
           /\ Head(w).n < next
           /\ \A d \in D : d < Head(w).n + Slack(Head(w))
           /\ WireOrdered(Tail(w), D \cup {Head(w).n}, next)
  <1> DEFINE r == Tail(w)
             p == Head(w)
  <1>1. r \in Seq(Packet) /\ p \in Packet /\ DOMAIN r = 1 .. Len(w) - 1 /\ DOMAIN w = 1 .. Len(w)
        /\ Len(w) \in Nat /\ p = w[1] /\ Len(w) >= 1
    OBVIOUS
  <1>2. \A k \in 1 .. Len(w) - 1 : r[k] = w[k + 1]
    OBVIOUS
  <1> HIDE DEF r, p
  <1>3. \A k \in DOMAIN r : k + 1 \in DOMAIN w /\ r[k] = w[k + 1] /\ 1 < k + 1
    BY <1>1, <1>2
  <1>4. \A j, k \in DOMAIN r : j < k => j + 1 < k + 1
    BY <1>1
  <1>5. 1 \in DOMAIN w
    BY <1>1
  <1>6. p.n < next /\ \A d \in D : d < p.n + Slack(p)
    BY <1>1, <1>5 DEF WireOrdered
  <1>7. ASSUME NEW k \in DOMAIN r
        PROVE  r[k].n < next /\ \A d \in D \cup {p.n} : d < r[k].n + Slack(r[k])
    <2>1. p.n < r[k].n + Slack(r[k])
      BY <1>1, <1>3, <1>5 DEF WireOrdered
    <2>2. r[k].n < next /\ \A d \in D : d < r[k].n + Slack(r[k])
      BY <1>3 DEF WireOrdered
    <2> QED  BY <2>1, <2>2
  <1>8. ASSUME NEW j \in DOMAIN r, NEW k \in DOMAIN r, j < k
        PROVE  r[j].n < r[k].n + Slack(r[k])
    BY <1>3, <1>4, <1>8 DEF WireOrdered
  <1>9. WireOrdered(r, D \cup {p.n}, next)
    BY <1>7, <1>8 DEF WireOrdered
  <1> QED  BY <1>1, <1>6, <1>9 DEF r, p

-----------------------------------------------------------------------------
(* The receiver.                                                              *)

\* The loop in noteSeen always stops.
LEMMA SetRunType ==
    ASSUME NEW seen, NEW base \in Int
    PROVE  SetRun(seen, base) \in 0 .. TrackerBits
  <1> DEFINE A == {a \in 0 .. TrackerBits : a = TrackerBits \/ Slot(base + a) \notin seen}
  <1>0. TrackerBits \in Nat
    BY Ranges
  <1>1. TrackerBits \in A
    BY <1>0
  <1>2. A \subseteq Nat
    BY <1>0
  <1>3. PICK a \in A : \A k \in A : a <= k
    <2> HIDE DEF A
    <2> QED  BY <1>1, <1>2, LeastNumber
  <1>4. a \in 0 .. TrackerBits /\ (a < TrackerBits => Slot(base + a) \notin seen)
    BY <1>0
  <1>5. ASSUME NEW i \in 0 .. a - 1 PROVE Slot(base + i) \in seen
    <2>1. i \in 0 .. TrackerBits /\ i < a
      BY <1>0, <1>4
    <2>2. i \notin A
      BY <1>3, <2>1
    <2> QED  BY <2>1, <2>2
  <1> HIDE DEF A
  <1>6. SetRun(seen, base) = a
    BY <1>4, <1>5, SetRunIs
  <1> QED  BY <1>4, <1>6

\* noteSeen leaves a tracker.
LEMMA NoteSeenType ==
    ASSUME NEW t \in Tracker, NEW seq \in Sequence, NEW resent \in BOOLEAN
    PROVE  NoteSeen(t, seq, resent) \in Tracker
  <1>1. t.base \in Int /\ seq \in Int /\ t.hwm \in Sequence /\ t.seen \subseteq Slots
    BY DEF Tracker, Sequence
  <1>2. Record(t, seq) \in Tracker
    <2> DEFINE a == Advance(t, seq)
    <2>1. a \in Int
      BY <1>1, SetRunType DEF Advance
    <2> HIDE DEF a
    <2>2. (t.base + a) % SeqSpace \in Sequence
      BY <1>1, <2>1, SequenceType
    <2>3. Slot(seq) \in Slots
      BY <1>1, SlotOfPacket
    <2>4. (t.seen \cup {Slot(seq)}) \ {Slot(t.base + i) : i \in 0 .. a - 1} \subseteq Slots
      BY <1>1, <2>3
    <2>5. (IF IsLater(seq, t.hwm) THEN seq ELSE t.hwm) \in Sequence
      BY <1>1
    <2> QED  BY <2>2, <2>4, <2>5 DEF Record, Tracker, a
  <1>3. Reset(seq) \in Tracker
    <2>1. (seq + 1) % SeqSpace \in Sequence
      BY <1>1, SequenceType
    <2> QED  BY <2>1 DEF Reset, Tracker
  <1>4. CASE CanRecord(t, seq)
    BY <1>2, <1>4 DEF NoteSeen
  <1>5. CASE ~CanRecord(t, seq) /\ resent
    BY <1>5 DEF NoteSeen
  <1>6. CASE ~CanRecord(t, seq) /\ ~resent
    BY <1>3, <1>6 DEF NoteSeen
  <1> QED  BY <1>4, <1>5, <1>6

\* The receiver's variables keep their types, in any order of the packets.
LEMMA ReceiveType ==
    ASSUME TypeOK, NEW p \in Packet, Receive(p)
    PROVE  /\ packetsSeen' \in Tracker
           /\ delivered' \subseteq 0 .. MaxSend - 1
           /\ twice' \subseteq delivered'
  <1>1. p.n \in Int /\ p.resent \in BOOLEAN /\ p.n \in 0 .. MaxSend - 1
    BY StreamAssumption DEF Packet
  <1>2. p.n % SeqSpace \in Sequence
    BY <1>1, SequenceType
  <1>3. packetsSeen' \in Tracker
    BY <1>1, <1>2, NoteSeenType DEF Receive, TypeOK
  <1>4. CASE IsDuplicate(packetsSeen, p.n % SeqSpace, p.resent)
    BY <1>3, <1>4 DEF Receive, TypeOK
  <1>5. CASE ~IsDuplicate(packetsSeen, p.n % SeqSpace, p.resent)
    <2>1. delivered' = delivered \cup {p.n} /\ twice' = twice \cup ({p.n} \cap delivered)
      BY <1>5 DEF Receive
    <2> QED  BY <1>1, <1>3, <2>1 DEF TypeOK
  <1> QED  BY <1>4, <1>5

\* The receiver is never behind the start of the sender's window.
LEMMA BaseInWindow ==
    ASSUME NEW K, NEW F, Holds(resendList, nextSendSequence, K, F), StreamInOrder(K, F),
           NEW B, Records(packetsSeen, delivered, B)
    PROVE  /\ F <= B /\ B <= nextSendSequence /\ nextSendSequence <= B + TrackerBits
           /\ B \in Nat
  <1>1. B \in Nat /\ B \notin delivered /\ 0 .. B - 1 \subseteq delivered
    BY DEF Records
  <1>2. nextSendSequence \in Nat /\ F \in Nat /\ F <= nextSendSequence
        /\ nextSendSequence <= F + TrackerBits /\ K \subseteq F .. nextSendSequence - 1
    BY DEF Holds
  <1>3. /\ delivered \subseteq 0 .. nextSendSequence - 1
        /\ \A n \in 0 .. nextSendSequence - 1 : n \in K \/ n \in delivered
    BY DEF StreamInOrder
  <1>4. ~(B < F)
    <2>1. SUFFICES ASSUME B < F PROVE FALSE
      OBVIOUS
    <2>2. B \in 0 .. nextSendSequence - 1 /\ B \notin K
      BY <1>1, <1>2, <2>1
    <2> QED  BY <1>1, <1>3, <2>2
  <1>5. ~(B > nextSendSequence)
    <2>1. SUFFICES ASSUME B > nextSendSequence PROVE FALSE
      OBVIOUS
    <2>2. nextSendSequence \in 0 .. B - 1
      BY <1>1, <1>2, <2>1
    <2>3. nextSendSequence \in 0 .. nextSendSequence - 1
      BY <1>1, <1>3, <2>2
    <2> QED  BY <1>2, <2>3
  <1> QED  BY <1>1, <1>2, <1>4, <1>5, Ranges

\* A packet that arrives in order is recorded, and handed on exactly when it
\* has not been before.
LEMMA ReceiveExact ==
    ASSUME TypeOK, NEW K, NEW F, Holds(resendList, nextSendSequence, K, F), StreamInOrder(K, F),
           NEW p \in Packet, p.n < nextSendSequence,
           \A d \in delivered : d < p.n + Slack(p), Receive(p)
    PROVE  /\ delivered' = delivered \cup {p.n}
           /\ twice' = {}
           /\ \E B \in 0 .. nextSendSequence : Records(packetsSeen', delivered', B)
  <1>1. PICK B \in 0 .. nextSendSequence : Records(packetsSeen, delivered, B)
    BY DEF StreamInOrder
  <1> DEFINE n == p.n
             N == nextSendSequence
  <1>2. B \in Nat /\ N <= B + TrackerBits /\ N \in Nat /\ n \in Nat /\ n < N
    BY <1>1, BaseInWindow, PacketNumbers DEF Holds
  <1>3. twice = {} /\ delivered \subseteq 0 .. N - 1 /\ p.resent \in BOOLEAN
    BY DEF StreamInOrder, Packet
  <1>4. CASE n >= B
    <2>1. n \in B .. B + TrackerBits - 1
      BY <1>2, <1>4, Ranges
    <2>2. CanRecord(packetsSeen, n % SeqSpace)
          /\ (Slot(n % SeqSpace) \in packetsSeen.seen <=> n \in delivered)
      BY <1>1, <2>1, InsideWindow
    <2>3. packetsSeen' = Record(packetsSeen, n % SeqSpace)
      BY <2>2 DEF Receive, NoteSeen
    <2>4. IsDuplicate(packetsSeen, n % SeqSpace, p.resent) <=> n \in delivered
      BY <2>2 DEF IsDuplicate
    <2>5. delivered' = delivered \cup {n} /\ twice' = {}
      <3>1. CASE n \in delivered
        BY <1>3, <2>4, <3>1 DEF Receive
      <3>2. CASE n \notin delivered
        BY <1>3, <2>4, <3>2 DEF Receive
      <3> QED  BY <3>1, <3>2
    <2>6. PICK b \in Nat : b >= B /\ Records(packetsSeen', delivered', b)
      BY <1>1, <2>1, <2>3, <2>5, RecordExact
    <2>7. b <= N
      <3>1. SUFFICES ASSUME b > N PROVE FALSE
        BY <1>2
      <3>2. N \in 0 .. b - 1
        BY <1>2, <3>1
      <3>3. N \in delivered \cup {n}
        BY <2>5, <2>6, <3>2 DEF Records
      <3> QED  BY <1>2, <1>3, <3>3
    <2>8. b \in 0 .. N
      BY <1>2, <2>7
    <2> QED  BY <2>5, <2>6, <2>8
  <1>5. CASE n < B
    <2>1. n \in 0 .. B - 1 /\ n \in delivered /\ B - 1 \in delivered
      <3>1. n \in 0 .. B - 1 /\ B - 1 \in 0 .. B - 1
        BY <1>2, <1>5
      <3> QED  BY <1>1, <3>1 DEF Records
    <2>2. p.resent
      <3>1. n < n + Slack(p)
        BY <2>1
      <3>2. Slack(p) # 0
        BY <1>2, <3>1
      <3> QED  BY <3>2 DEF Slack
    <2>3. B <= n + TrackerBits
      <3>1. B - 1 < n + Slack(p)
        BY <2>1
      <3>2. Slack(p) = TrackerBits
        BY <2>2 DEF Slack
      <3> QED  BY <1>2, <3>1, <3>2, Ranges
    <2>4. ~CanRecord(packetsSeen, n % SeqSpace)
      BY <1>1, <2>1, <2>3, BeforeWindow
    <2>5. packetsSeen' = packetsSeen
      BY <2>2, <2>4 DEF Receive, NoteSeen
    <2>6. IsDuplicate(packetsSeen, n % SeqSpace, p.resent)
      BY <2>2, <2>4 DEF IsDuplicate
    <2>7. delivered' = delivered /\ twice' = twice
      BY <2>6 DEF Receive
    <2> QED  BY <1>1, <1>3, <2>1, <2>5, <2>7
  <1> QED  BY <1>2, <1>4, <1>5

-----------------------------------------------------------------------------
(* The sender.                                                                *)

\* The packets kept after sendData: those not confirmed, and the new ones.
KeptAfter(K, seen, space, due, k) ==
    Unconfirmed(resendList, K, seen, space, due) \cup (nextSendSequence .. nextSendSequence + k - 1)

\* sendData respects the window.
LEMMA SendHolds ==
    ASSUME NEW K, NEW F, Holds(resendList, nextSendSequence, K, F),
           NEW seen, NEW space \in 0 .. MaxData, NEW due, NEW k \in 0 .. MaxData,
           SendData(seen, space, due, k)
    PROVE  /\ nextSendSequence' = nextSendSequence + k
           /\ ~appendFailed => ~appendFailed'
           /\ \E G \in F .. nextSendSequence :
                 Holds(resendList', nextSendSequence', KeptAfter(K, seen, space, due, k), G)
  <1> DEFINE N == nextSendSequence
             list == NoteRead(resendList, seen, space, due)
             left == Unconfirmed(resendList, K, seen, space, due)
             resend == ToResend(resendList, seen, space, due)
             r == Cardinality(resend)
  <1>0. \E G \in F .. nextSendSequence : Holds(list, nextSendSequence, left, G)
    BY NoteReadHolds
  <1>1. PICK G \in F .. N : Holds(list, N, left, G)
    BY <1>0
  <1>2. k \in Nat /\ r \in Nat
    <2>1. k \in Nat
      BY StreamAssumption, Ranges
    <2>2. resendList \in ResendList
      BY DEF Holds
    <2>3. resend \in SUBSET Sequence
      BY <2>2 DEF ToResend, Missing, ResendList
    <2> HIDE DEF resend
    <2>4. Cardinality(resend) \in Nat
      BY <2>2, <2>3, InOrderIsSequence
    <2> QED  BY <2>1, <2>4
  <1>3. k <= NewPacketLimit(list, N, space, r)
    BY DEF SendData
  <1>4. /\ resendList' = AppendRange(list, N, k)
        /\ appendFailed' = (appendFailed \/ AppendRangeFails(list, N, k))
        /\ nextSendSequence' = N + k
    BY DEF SendData
  <1> HIDE DEF list, left, r, N
  <1>5. N + k <= G + TrackerBits
    BY <1>1, <1>2, <1>3, LimitRespectsWindow
  <1>6. Holds(AppendRange(list, N, k), N + k, left \cup (N .. N + k - 1), G)
    BY <1>1, <1>2, <1>5, AppendHolds
  <1>7. ~AppendRangeFails(list, N, k)
    BY <1>1, <1>2, <1>5, AppendNeverFails
  <1>8. ~appendFailed => ~appendFailed'
    BY <1>4, <1>7, Zenon
  <1>9. KeptAfter(K, seen, space, due, k) = left \cup (N .. N + k - 1)
    BY DEF KeptAfter, left, N
  <1>10. Holds(resendList', nextSendSequence', KeptAfter(K, seen, space, due, k), G)
    BY <1>4, <1>6, <1>9
  <1> QED  BY <1>1, <1>4, <1>8, <1>10 DEF N

\* Copies of packets of K that are sent again, and k packets from next on that
\* are sent for the first time.
AreCopies(o, K) == \A j \in 1 .. Len(o) : o[j].resent /\ o[j].n \in K
AreNew(u, next, k) == Len(u) = k /\ \A j \in 1 .. k : ~u[j].resent /\ u[j].n = next + j - 1

\* What sendData puts on the wire: copies of packets of the window, then the
\* new packets.
LEMMA SendPackets ==
    ASSUME TypeOK, NEW K, NEW F, Holds(resendList, nextSendSequence, K, F),
           NEW seen, NEW space \in 0 .. MaxData, NEW due, NEW k \in 0 .. MaxData,
           SendData(seen, space, due, k)
    PROVE  \E o, u \in Seq(Packet) :
              wire' = (wire \o o) \o u /\ AreCopies(o, K) /\ AreNew(u, nextSendSequence, k)
  <1> DEFINE N == nextSendSequence
             resend == ToResend(resendList, seen, space, due)
             old == InOrder(resendList, resend)
             o == [i \in DOMAIN old |-> [n |-> PacketOf(old[i]), resent |-> TRUE]]
             u == [i \in 1 .. k |-> [n |-> N + i - 1, resent |-> FALSE]]
  <1>1. resendList \in ResendList /\ N \in Nat /\ MaxSend \in Nat /\ k \in Nat
    BY StreamAssumption, Ranges DEF Holds
  <1>2. resend \subseteq resendList.entries /\ resend \in SUBSET Sequence
    BY <1>1 DEF ToResend, Missing, ResendList
  <1>3. old \in Seq(resend) /\ DOMAIN old = 1 .. Len(old) /\ Len(old) \in Nat
    <2> HIDE DEF resend
    <2> QED  BY <1>1, <1>2, InOrderIsSequence
  <1>4. N + k <= MaxSend /\ wire' = (wire \o o) \o u
    BY DEF SendData
  <1>5. ASSUME NEW e \in resend PROVE PacketOf(e) \in K
    <2>1. PICK n \in K : e = n % SeqSpace
      BY <1>2 DEF Holds
    <2>2. N - Delta(N, n % SeqSpace) = n
      BY EntryOfPacket
    <2> QED  BY <2>1, <2>2 DEF PacketOf
  <1>6. K \subseteq 0 .. MaxSend - 1
    BY <1>1, <1>4 DEF Holds
  <1> HIDE DEF resend, old
  <1>7. ASSUME NEW j \in 1 .. Len(old)
        PROVE  o[j] = [n |-> PacketOf(old[j]), resent |-> TRUE] /\ PacketOf(old[j]) \in K
    BY <1>3, <1>5
  <1>8. \A j \in 1 .. Len(old) : o[j].resent /\ o[j].n \in K /\ o[j] \in Packet
    <2>1. SUFFICES ASSUME NEW j \in 1 .. Len(old)
                   PROVE  o[j].resent /\ o[j].n \in K /\ o[j] \in Packet
      OBVIOUS
    <2>2. o[j] = [n |-> PacketOf(old[j]), resent |-> TRUE] /\ PacketOf(old[j]) \in K
      BY <1>7
    <2>3. PacketOf(old[j]) \in 0 .. MaxSend - 1
      BY <1>6, <2>2
    <2> HIDE DEF o
    <2>4. o[j].resent /\ o[j].n = PacketOf(old[j])
      BY <2>2
    <2>5. o[j] \in Packet
      BY <2>2, <2>3 DEF Packet
    <2> QED  BY <2>2, <2>4, <2>5
  <1>9. o \in [1 .. Len(old) -> Packet]
    BY <1>3, <1>8
  <1>10. o \in Seq(Packet) /\ Len(o) = Len(old)
    <2> HIDE DEF o
    <2> QED  BY <1>3, <1>9
  <1>11. \A j \in 1 .. k : ~u[j].resent /\ u[j].n = N + j - 1 /\ u[j] \in Packet
    <2>1. SUFFICES ASSUME NEW j \in 1 .. k
                   PROVE  ~u[j].resent /\ u[j].n = N + j - 1 /\ u[j] \in Packet
      OBVIOUS
    <2>2. u[j] = [n |-> N + j - 1, resent |-> FALSE]
      OBVIOUS
    <2>3. N + j - 1 \in 0 .. MaxSend - 1
      BY <1>1, <1>4
    <2> QED  BY <2>2, <2>3 DEF Packet
  <1>12. u \in [1 .. k -> Packet]
    BY <1>11
  <1>13. u \in Seq(Packet) /\ Len(u) = k
    <2> HIDE DEF u
    <2> QED  BY <1>1, <1>12
  <1> HIDE DEF o, u
  <1>14. AreCopies(o, K)
    BY <1>8, <1>10 DEF AreCopies
  <1>15. AreNew(u, N, k)
    BY <1>11, <1>13 DEF AreNew
  <1> QED  BY <1>4, <1>10, <1>13, <1>14, <1>15 DEF N

\* sendData keeps the wire in order.
LEMMA SendKeepsOrder ==
    ASSUME TypeOK, NEW K, NEW F, Holds(resendList, nextSendSequence, K, F),
           NEW seen, NEW space \in 0 .. MaxData, NEW due, NEW k \in 0 .. MaxData,
           SendData(seen, space, due, k)
    PROVE  /\ wire' \in Seq(Packet)
           /\ \A D \in SUBSET (0 .. nextSendSequence - 1) :
                 WireOrdered(wire, D, nextSendSequence) => WireOrdered(wire', D, nextSendSequence + k)
  <1> DEFINE N == nextSendSequence
  <1>1. PICK o, u \in Seq(Packet) :
              wire' = (wire \o o) \o u /\ AreCopies(o, K) /\ AreNew(u, nextSendSequence, k)
    BY SendPackets
  <1>2. wire \in Seq(Packet) /\ N \in Nat /\ k \in Nat /\ N + k \in Nat /\ N <= N + k
    BY StreamAssumption, Ranges DEF TypeOK, Holds
  <1>3. wire \o o \in Seq(Packet) /\ (wire \o o) \o u \in Seq(Packet)
    BY <1>1, <1>2, ConcatProperties
  <1>4. ASSUME NEW D \in SUBSET (0 .. N - 1), WireOrdered(wire, D, N)
        PROVE  WireOrdered((wire \o o) \o u, D, N + k)
    <2>1. \A j \in 1 .. Len(o) : o[j].n \in Nat /\ o[j].n < N /\ N <= o[j].n + Slack(o[j])
      <3>1. SUFFICES ASSUME NEW j \in 1 .. Len(o)
                     PROVE  o[j].n \in Nat /\ o[j].n < N /\ N <= o[j].n + Slack(o[j])
        OBVIOUS
      <3>2. Slack(o[j]) = TrackerBits
        BY <1>1 DEF Slack, AreCopies
      <3>3. o[j].n \in K
        BY <1>1 DEF AreCopies
      <3>4. o[j].n \in Nat /\ o[j].n < N /\ N <= o[j].n + TrackerBits
        BY <3>3, EntryOfPacket
      <3> QED  BY <3>2, <3>4
    <2>2. \A i, j \in 1 .. Len(o) : i < j => o[i].n < o[j].n + Slack(o[j])
      <3>1. SUFFICES ASSUME NEW i \in 1 .. Len(o), NEW j \in 1 .. Len(o)
                     PROVE  o[i].n < o[j].n + Slack(o[j])
        OBVIOUS
      <3>2. Slack(o[j]) = TrackerBits
        BY <1>1 DEF Slack, AreCopies
      <3> QED  BY <1>2, <2>1, <3>2, Ranges
    <2> DEFINE v == wire \o o
    <2>3. v \in Seq(Packet) /\ WireOrdered(v, D, N)
      <3>1. N <= N /\ D \subseteq 0 .. N - 1
        BY <1>2
      <3>2. \A j \in 1 .. Len(o) : o[j].n < N /\ N <= o[j].n + Slack(o[j])
        BY <2>1
      <3> QED  BY <1>2, <1>4, <2>2, <3>1, <3>2, ConcatKeepsOrder
    <2>4. \A j \in 1 .. k : u[j].n = N + j - 1 /\ Slack(u[j]) = 0
      BY <1>1 DEF Slack, AreNew
    <2>5. \A j \in 1 .. Len(u) : u[j].n < N + k /\ N <= u[j].n + Slack(u[j])
      BY <1>1, <1>2, <2>4 DEF AreNew
    <2>6. \A i, j \in 1 .. Len(u) : i < j => u[i].n < u[j].n + Slack(u[j])
      BY <1>1, <1>2, <2>4 DEF AreNew
    <2> HIDE DEF v
    <2> DEFINE M == N + k
    <2>7. M \in Nat /\ N <= M /\ D \subseteq 0 .. N - 1
          /\ \A j \in 1 .. Len(u) : u[j].n < M /\ N <= u[j].n + Slack(u[j])
      BY <1>2, <2>5
    <2> HIDE DEF M
    <2>8. WireOrdered(v \o u, D, M)
      BY <1>2, <2>3, <2>6, <2>7, ConcatKeepsOrder
    <2> QED  BY <2>8 DEF v, M
  <1> QED  BY <1>1, <1>3, <1>4

\* A permit that counts only confirms packets that have been handed on.
LEMMA ConfirmedDelivered ==
    ASSUME NEW K, NEW F, Holds(resendList, nextSendSequence, K, F),
           NEW seen, PermitSound(seen), NEW space, NEW due,
           NEW n \in K, n \notin Unconfirmed(resendList, K, seen, space, due)
    PROVE  n \in delivered
  <1>1. PICK D \in SUBSET delivered, B \in 0 .. nextSendSequence :
            Records(seen, D, B) /\ nextSendSequence <= B + Lag(requestActive)
    BY DEF PermitSound
  <1>2. HasSeen(seen, n % SeqSpace)
    BY DEF Unconfirmed, Confirmed
  <1>3. n \in Nat /\ n < nextSendSequence /\ nextSendSequence <= n + TrackerBits
    BY EntryOfPacket
  <1>4. nextSendSequence \in Nat /\ B \in Nat
    BY <1>1 DEF Holds
  <1>5. n < B + 2 * TrackerBits /\ B <= n + TrackerBits
    BY <1>1, <1>3, <1>4, Ranges DEF Lag
  <1>6. ~(B + TrackerBits <= n)
    BY <1>1, <1>2, <1>3, <1>5, HasSeenBeyond
  <1>7. n < B + TrackerBits
    BY <1>3, <1>4, <1>6, Ranges
  <1>8. n \in D
    BY <1>1, <1>2, <1>3, <1>5, <1>7, HasSeenExact
  <1> QED  BY <1>1, <1>8

\* sendData keeps the stream in order.
LEMMA SendInOrder ==
    ASSUME TypeOK, NEW K, NEW F, Holds(resendList, nextSendSequence, K, F), StreamInOrder(K, F),
           NEW seen \in permits, NEW space \in 0 .. MaxData, NEW due, NEW k \in 0 .. MaxData,
           SendData(seen, space, due, k),
           NEW J, J = KeptAfter(K, seen, space, due, k), NEW G,
           permits' \subseteq permits, requestActive' => permits' = {},
           k > 0 => requestActive
    PROVE  StreamInOrder(J, G)'
  <1> DEFINE N == nextSendSequence
             M == N + k
  <1>1. /\ N \in Nat /\ k \in Nat /\ M \in Nat /\ N <= M
        /\ nextSendSequence' = M
        /\ packetsSeen' = packetsSeen /\ delivered' = delivered /\ twice' = twice
    BY StreamAssumption, Ranges DEF Holds, SendData
  <1>2. /\ twice = {} /\ delivered \subseteq 0 .. N - 1
        /\ \A n \in 0 .. N - 1 : n \in K \/ n \in delivered
        /\ \A t \in permits : PermitSound(t)
        /\ WireOrdered(wire, delivered, N)
    BY DEF StreamInOrder
  <1>3. twice' = {} /\ delivered' \subseteq 0 .. nextSendSequence' - 1
    BY <1>1, <1>2
  <1>4. ASSUME NEW n \in 0 .. nextSendSequence' - 1 PROVE n \in J \/ n \in delivered'
    <2>1. CASE n >= N
      <3>1. n \in N .. N + k - 1
        BY <1>1, <2>1
      <3> QED  BY <3>1 DEF KeptAfter
    <2>2. CASE n < N /\ n \in K
      <3>1. CASE n \in Unconfirmed(resendList, K, seen, space, due)
        BY <3>1 DEF KeptAfter
      <3>2. CASE n \notin Unconfirmed(resendList, K, seen, space, due)
        BY <1>1, <1>2, <2>2, <3>2, ConfirmedDelivered
      <3> QED  BY <3>1, <3>2
    <2>3. CASE n < N /\ n \notin K
      BY <1>1, <1>2, <2>3
    <2> QED  BY <1>1, <2>1, <2>2, <2>3
  <1>5. \E B \in 0 .. nextSendSequence' : Records(packetsSeen', delivered', B)
    <2>1. PICK B \in 0 .. N : Records(packetsSeen, delivered, B)
      BY DEF StreamInOrder
    <2>2. B \in 0 .. M
      BY <1>1
    <2> QED  BY <1>1, <2>1, <2>2
  <1>6. ASSUME NEW t \in permits' PROVE PermitSound(t)'
    <2>1. t \in permits /\ ~requestActive'
      BY <1>6
    <2>2. PICK D \in SUBSET delivered, B \in 0 .. N :
              Records(t, D, B) /\ N <= B + Lag(requestActive)
      BY <1>2, <2>1 DEF PermitSound
    <2>3. B \in 0 .. M
      BY <1>1
    <2>4. M <= B + 2 * TrackerBits
      <3>1. k <= TrackerBits /\ B \in Nat
        BY StreamAssumption, Ranges
      <3>2. CASE k > 0
        <4>1. Lag(requestActive) = TrackerBits
          BY <3>2 DEF Lag
        <4> QED  BY <1>1, <2>2, <3>1, <4>1, Ranges
      <3>3. CASE k = 0
        <4>1. Lag(requestActive) \in Nat /\ Lag(requestActive) <= 2 * TrackerBits
          BY Ranges DEF Lag
        <4> QED  BY <1>1, <2>2, <3>1, <3>3, <4>1, Ranges
      <3> QED  BY <1>1, <3>2, <3>3
    <2>5. Lag(requestActive') = 2 * TrackerBits
      BY <2>1 DEF Lag
    <2> QED  BY <1>1, <2>2, <2>3, <2>4, <2>5 DEF PermitSound
  <1>7. WireOrdered(wire', delivered', nextSendSequence')
    BY <1>1, <1>2, SendKeepsOrder
  <1> QED  BY <1>3, <1>4, <1>5, <1>6, <1>7 DEF StreamInOrder

-----------------------------------------------------------------------------
(* The invariant.                                                             *)

\* It holds initially.
LEMMA InitInv == Init => Inv
  <1>1. SUFFICES ASSUME Init PROVE Inv
    OBVIOUS
  <1>2. NewTracker \in Tracker /\ EmptyResendList \in ResendList
    BY Ranges, NewRecords DEF Records, EmptyResendList, ResendList, Sequence
  <1>3. TypeOK
    <2>1. 0 \in 0 .. MaxSend /\ 0 \in 0 .. MaxFaults
      BY StreamAssumption
    <2>2. <<>> \in Seq(Packet)
      OBVIOUS
    <2> QED  BY <1>1, <1>2, <2>1, <2>2 DEF Init, TypeOK
  <1>4. Holds(resendList, nextSendSequence, {}, 0)
    BY <1>1, <1>2, Ranges DEF Init, Holds, EmptyResendList
  <1>5. StreamInOrder({}, 0)
    <2>1. WireOrdered(<<>>, {}, 0)
      BY DEF WireOrdered
    <2>2. 0 \in 0 .. 0 /\ 0 .. 0 - 1 = {}
      OBVIOUS
    <2> QED  BY <1>1, <2>1, <2>2, NewRecords DEF Init, StreamInOrder
  <1>6. ~appendFailed
    BY <1>1 DEF Init
  <1>7. {} \in SUBSET (0 .. nextSendSequence - 1) /\ 0 \in 0 .. nextSendSequence
    BY <1>1 DEF Init
  <1> QED  BY <1>3, <1>4, <1>5, <1>6, <1>7 DEF Inv

\* To show the invariant after a step.
LEMMA InvFrom ==
    ASSUME TypeOK', ~appendFailed', NEW K, NEW F,
           Holds(resendList', nextSendSequence', K, F),
           Orderly' => StreamInOrder(K, F)'
    PROVE  Inv'
  <1>1. nextSendSequence' \in Nat /\ F \in Nat /\ F <= nextSendSequence'
        /\ K \subseteq F .. nextSendSequence' - 1
    BY DEF Holds
  <1>2. K \in SUBSET (0 .. nextSendSequence' - 1) /\ F \in 0 .. nextSendSequence'
    <2>1. ASSUME NEW n \in K PROVE n \in 0 .. nextSendSequence' - 1
      <3>1. PICK N : N = nextSendSequence'
        OBVIOUS
      <3>2. N \in Nat /\ F \in Nat /\ n \in F .. N - 1
        BY <1>1, <3>1
      <3>3. n \in 0 .. N - 1
        BY <3>2
      <3> QED  BY <3>1, <3>3
    <2>2. F \in 0 .. nextSendSequence'
      BY <1>1
    <2> QED  BY <2>1, <2>2
  <1> QED  BY <1>2 DEF Inv

\* A packet that arrives, in order or not.
LEMMA ArriveInv ==
    ASSUME Inv, Arrive \/ ArriveDisordered
    PROVE  Inv'
  <1>1. PICK K \in SUBSET (0 .. nextSendSequence - 1), F \in 0 .. nextSendSequence :
          /\ Holds(resendList, nextSendSequence, K, F)
          /\ Orderly => StreamInOrder(K, F)
    BY DEF Inv
  <1>2. TypeOK /\ ~appendFailed /\ wire \in Seq(Packet)
    BY DEF Inv, TypeOK
  <1>3. CASE Arrive
    <2> DEFINE p == Head(wire)
    <2>1. wire # <<>> /\ wire' = Tail(wire) /\ Receive(p) /\ disorder' = disorder
      BY <1>3 DEF Arrive
    <2>2. p \in Packet /\ wire' \in Seq(Packet)
      BY <1>2, <2>1
    <2>3. UNCHANGED <<nextSendSequence, resendList, requestActive, permits, restarts, appendFailed>>
      BY <2>1 DEF Receive
    <2>4. TypeOK'
      <3>1. packetsSeen' \in Tracker /\ delivered' \subseteq 0 .. MaxSend - 1
            /\ twice' \subseteq delivered'
        BY <1>2, <2>1, <2>2, ReceiveType
      <3> QED  BY <1>2, <2>1, <2>2, <2>3, <3>1 DEF TypeOK
    <2>5. ASSUME Orderly' PROVE StreamInOrder(K, F)'
      <3>1. Orderly
        BY <2>1, <2>3, <2>5 DEF Orderly
      <3>2. StreamInOrder(K, F)
        BY <1>1, <3>1
      <3>3. /\ p.n < nextSendSequence
            /\ \A d \in delivered : d < p.n + Slack(p)
            /\ WireOrdered(wire', delivered \cup {p.n}, nextSendSequence)
        <4>1. WireOrdered(wire, delivered, nextSendSequence)
          BY <3>2 DEF StreamInOrder
        <4> QED  BY <1>2, <2>1, <4>1, TailKeepsOrder
      <3>4. /\ delivered' = delivered \cup {p.n}
            /\ twice' = {}
            /\ \E B \in 0 .. nextSendSequence : Records(packetsSeen', delivered', B)
        <4> HIDE DEF p
        <4> QED  BY <1>1, <1>2, <2>1, <2>2, <3>2, <3>3, ReceiveExact
      <3>5. delivered' \subseteq 0 .. nextSendSequence' - 1
        <4>1. p.n \in Nat /\ nextSendSequence \in Nat
          BY <2>2, <1>1, PacketNumbers DEF Holds
        <4>2. p.n \in 0 .. nextSendSequence - 1
          BY <3>3, <4>1
        <4> QED  BY <2>3, <3>2, <3>4, <4>2 DEF StreamInOrder
      <3>6. \A n \in 0 .. nextSendSequence' - 1 : n \in K \/ n \in delivered'
        BY <2>3, <3>2, <3>4 DEF StreamInOrder
      <3>7. ASSUME NEW t \in permits' PROVE PermitSound(t)'
        <4>1. PermitSound(t)
          BY <2>3, <3>2 DEF StreamInOrder
        <4>2. delivered \subseteq delivered'
          BY <3>4
        <4> QED  BY <2>3, <4>1, <4>2 DEF PermitSound
      <3>8. WireOrdered(wire', delivered', nextSendSequence')
        BY <2>3, <3>3, <3>4
      <3> QED  BY <2>3, <3>4, <3>5, <3>6, <3>7, <3>8 DEF StreamInOrder
    <2>6. Holds(resendList', nextSendSequence', K, F) /\ ~appendFailed'
      BY <1>1, <1>2, <2>3
    <2> QED  BY <2>4, <2>5, <2>6, InvFrom
  <1>4. CASE ArriveDisordered
    <2>1. PICK i \in DOMAIN wire :
             /\ wire' \in {wire} \cup (IF i = 1 THEN {} ELSE {RemoveAt(wire, i)})
             /\ Receive(wire[i])
      BY <1>4 DEF ArriveDisordered
    <2>2. i \in 1 .. Len(wire) /\ wire[i] \in Packet
      BY <1>2
    <2>3. wire' \in Seq(Packet)
      BY <1>2, <2>1, <2>2, RemoveAtIs
    <2>4. UNCHANGED <<nextSendSequence, resendList, requestActive, permits, restarts, appendFailed>>
      BY <2>1 DEF Receive
    <2>5. disorder' = disorder + 1 /\ disorder + restarts < MaxFaults
      BY <1>4 DEF ArriveDisordered
    <2>6. disorder' \in 0 .. MaxFaults /\ disorder' # 0
      BY <1>2, <2>5, StreamAssumption DEF TypeOK
    <2>7. TypeOK'
      <3>1. packetsSeen' \in Tracker /\ delivered' \subseteq 0 .. MaxSend - 1
            /\ twice' \subseteq delivered'
        BY <1>2, <2>1, <2>2, ReceiveType
      <3> QED  BY <1>2, <2>3, <2>4, <2>6, <3>1 DEF TypeOK
    <2>8. ~Orderly'
      BY <2>6 DEF Orderly
    <2>9. Holds(resendList', nextSendSequence', K, F) /\ ~appendFailed'
      BY <1>1, <1>2, <2>4
    <2> QED  BY <2>7, <2>8, <2>9, InvFrom
  <1> QED  BY <1>3, <1>4

\* The data thread acts on a permit.
LEMMA UsePermitInv ==
    ASSUME Inv, UsePermit
    PROVE  Inv'
  <1>1. PICK K \in SUBSET (0 .. nextSendSequence - 1), F \in 0 .. nextSendSequence :
          /\ Holds(resendList, nextSendSequence, K, F)
          /\ Orderly => StreamInOrder(K, F)
    BY DEF Inv
  <1>2. TypeOK /\ ~appendFailed
    BY DEF Inv
  <1>3. PICK seen \in permits, space \in 0 .. MaxData, k \in 0 .. MaxData,
             due \in IF ResendDelay THEN SUBSET resendList.entries ELSE {resendList.entries} :
          /\ k > 0 => requestActive
          /\ SendData(seen, space, due, k)
          /\ requestActive' \in BOOLEAN
          /\ requestActive' => requestActive /\ permits' = {}
          /\ ~requestActive' => permits' \in {permits, permits \ {seen}}
    BY DEF UsePermit
  <1>4. PICK J : J = KeptAfter(K, seen, space, due, k)
    OBVIOUS
  <1>5. /\ nextSendSequence' = nextSendSequence + k
        /\ ~appendFailed'
        /\ \E G \in F .. nextSendSequence :  Holds(resendList', nextSendSequence', J, G)
    BY <1>1, <1>2, <1>3, <1>4, SendHolds
  <1>6. PICK G \in F .. nextSendSequence : Holds(resendList', nextSendSequence', J, G)
    BY <1>5
  <1>7. permits' \subseteq permits /\ (requestActive' => permits' = {})
    BY <1>3
  <1>8. UNCHANGED <<packetsSeen, restarts, disorder, delivered, twice>>
    BY <1>3 DEF SendData
  <1>9. TypeOK'
    <2>1. wire' \in Seq(Packet)
      BY <1>1, <1>2, <1>3, SendKeepsOrder
    <2>2. nextSendSequence' \in 0 .. MaxSend
      <3>1. nextSendSequence + k <= MaxSend
        BY <1>3 DEF SendData
      <3>2. nextSendSequence' \in Nat /\ MaxSend \in Nat
        BY <1>6, StreamAssumption DEF Holds
      <3> QED  BY <1>5, <3>1, <3>2
    <2>3. resendList' \in ResendList
      BY <1>6 DEF Holds
    <2>4. appendFailed' \in BOOLEAN
      BY <1>3 DEF SendData
    <2>5. permits' \subseteq Tracker
      BY <1>2, <1>7 DEF TypeOK
    <2> QED  BY <1>2, <1>3, <1>8, <2>1, <2>2, <2>3, <2>4, <2>5 DEF TypeOK
  <1>10. ASSUME Orderly' PROVE StreamInOrder(J, G)'
    <2>1. StreamInOrder(K, F)
      BY <1>1, <1>8, <1>10 DEF Orderly
    <2> QED  BY <1>1, <1>2, <1>3, <1>4, <1>7, <2>1, SendInOrder
  <1> QED  BY <1>5, <1>6, <1>9, <1>10, InvFrom

\* Permits that are sent or lost, and packets that are lost.
LEMMA NetworkInv ==
    ASSUME Inv, IssuePermit \/ LosePermit \/ LosePacket
    PROVE  Inv'
  <1>1. PICK K \in SUBSET (0 .. nextSendSequence - 1), F \in 0 .. nextSendSequence :
          /\ Holds(resendList, nextSendSequence, K, F)
          /\ Orderly => StreamInOrder(K, F)
    BY DEF Inv
  <1>2. TypeOK /\ ~appendFailed
    BY DEF Inv
  <1>3. UNCHANGED <<nextSendSequence, resendList, requestActive, packetsSeen, restarts,
                    disorder, delivered, twice, appendFailed>>
    BY DEF IssuePermit, LosePermit, LosePacket
  <1>4. Holds(resendList', nextSendSequence', K, F) /\ ~appendFailed'
    BY <1>1, <1>2, <1>3
  <1>5. wire' \in Seq(Packet) /\ (\A D, N : WireOrdered(wire, D, N) => WireOrdered(wire', D, N))
    <2>1. CASE IssuePermit \/ LosePermit
      BY <1>2, <2>1 DEF IssuePermit, LosePermit, TypeOK
    <2>2. CASE LosePacket
      <3>1. PICK i \in DOMAIN wire : wire' = RemoveAt(wire, i)
        BY <2>2 DEF LosePacket
      <3>2. wire \in Seq(Packet) /\ i \in 1 .. Len(wire)
        BY <1>2 DEF TypeOK
      <3> QED  BY <3>1, <3>2, RemoveAtIs, RemoveKeepsOrder
    <2> QED  BY <2>1, <2>2
  <1>6. permits' \subseteq permits \cup {packetsSeen}
    BY DEF IssuePermit, LosePermit, LosePacket
  <1>7. TypeOK'
    BY <1>2, <1>3, <1>5, <1>6 DEF TypeOK
  <1>8. ASSUME Orderly' PROVE StreamInOrder(K, F)'
    <2>1. StreamInOrder(K, F)
      BY <1>1, <1>3, <1>8 DEF Orderly
    <2>2. ASSUME NEW t \in permits' PROVE PermitSound(t)'
      <3>1. PermitSound(t)
        <4>1. CASE t \in permits
          BY <2>1, <4>1 DEF StreamInOrder
        <4>2. CASE t = packetsSeen
          <5>1. PICK B \in 0 .. nextSendSequence : Records(packetsSeen, delivered, B)
            BY <2>1 DEF StreamInOrder
          <5>2. nextSendSequence <= B + TrackerBits /\ B \in Nat /\ nextSendSequence \in Nat
            BY <1>1, <2>1, <5>1, BaseInWindow DEF Holds
          <5>3. nextSendSequence <= B + Lag(requestActive)
            BY <5>2, Ranges DEF Lag
          <5> QED  BY <4>2, <5>1, <5>3 DEF PermitSound
        <4> QED  BY <1>6, <4>1, <4>2
      <3> QED  BY <1>3, <3>1 DEF PermitSound
    <2>3. WireOrdered(wire', delivered', nextSendSequence')
      BY <1>3, <1>5, <2>1 DEF StreamInOrder
    <2> QED  BY <1>3, <2>1, <2>2, <2>3 DEF StreamInOrder
  <1> QED  BY <1>4, <1>7, <1>8, InvFrom

\* A new request, or the end of one.
LEMMA RequestInv ==
    ASSUME Inv, NewRequest \/ GiveUp
    PROVE  Inv'
  <1>1. PICK K \in SUBSET (0 .. nextSendSequence - 1), F \in 0 .. nextSendSequence :
          /\ Holds(resendList, nextSendSequence, K, F)
          /\ Orderly => StreamInOrder(K, F)
    BY DEF Inv
  <1>2. TypeOK /\ ~appendFailed
    BY DEF Inv
  <1>3. UNCHANGED <<nextSendSequence, resendList, wire, packetsSeen, restarts, disorder,
                    delivered, twice, appendFailed>>
    BY DEF NewRequest, GiveUp
  <1>4. Holds(resendList', nextSendSequence', K, F) /\ ~appendFailed'
    BY <1>1, <1>2, <1>3
  <1>5. requestActive' \in BOOLEAN /\ permits' \subseteq permits
        /\ (requestActive' => permits' = {})
    BY DEF NewRequest, GiveUp
  <1>6. TypeOK'
    BY <1>2, <1>3, <1>5 DEF TypeOK
  <1>7. ASSUME Orderly' PROVE StreamInOrder(K, F)'
    <2>1. StreamInOrder(K, F)
      BY <1>1, <1>3, <1>7 DEF Orderly
    <2>2. ASSUME NEW t \in permits' PROVE PermitSound(t)'
      <3>1. t \in permits /\ ~requestActive'
        BY <1>5, <2>2
      <3>2. PICK D \in SUBSET delivered, B \in 0 .. nextSendSequence :
                Records(t, D, B) /\ nextSendSequence <= B + Lag(requestActive)
        BY <2>1, <3>1 DEF StreamInOrder, PermitSound
      <3>3. nextSendSequence \in Nat /\ B \in Nat
        BY <1>1 DEF Holds
      <3>4. nextSendSequence <= B + 2 * TrackerBits
        <4>1. Lag(requestActive) \in Nat /\ Lag(requestActive) <= 2 * TrackerBits
          BY Ranges DEF Lag
        <4> QED  BY <3>2, <3>3, <4>1, Ranges
      <3>5. Lag(requestActive') = 2 * TrackerBits
        BY <3>1 DEF Lag
      <3> QED  BY <1>3, <3>2, <3>4, <3>5 DEF PermitSound
    <2> QED  BY <1>3, <2>1, <2>2 DEF StreamInOrder
  <1> QED  BY <1>4, <1>6, <1>7, InvFrom

\* The sender starts again with an empty window.
LEMMA RestartInv ==
    ASSUME Inv, RestartSender
    PROVE  Inv'
  <1>1. TypeOK /\ ~appendFailed
    BY DEF Inv
  <1>2. restarts' \in 0 .. MaxFaults /\ restarts' # 0
    BY <1>1, StreamAssumption DEF RestartSender, TypeOK
  <1>3. EmptyResendList \in ResendList /\ MaxSend \in Nat
    BY Ranges, StreamAssumption DEF EmptyResendList, ResendList, Sequence
  <1>4. TypeOK'
    <2>1. /\ nextSendSequence' \in 0 .. MaxSend /\ resendList' \in ResendList
          /\ wire' \in Seq(Packet) /\ permits' \subseteq Tracker
          /\ delivered' \subseteq 0 .. MaxSend - 1 /\ twice' \subseteq delivered'
      BY <1>3 DEF RestartSender
    <2>2. packetsSeen' \in Tracker /\ disorder' \in 0 .. MaxFaults
      BY <1>1 DEF RestartSender, TypeOK
    <2>3. requestActive' \in BOOLEAN /\ appendFailed' \in BOOLEAN
      BY <1>1, Zenon DEF RestartSender, TypeOK
    <2> QED  BY <1>2, <2>1, <2>2, <2>3 DEF TypeOK
  <1>5. Holds(resendList', nextSendSequence', {}, 0)
    BY <1>3, Ranges DEF RestartSender, Holds, EmptyResendList
  <1>6. ~Orderly'
    BY <1>2 DEF Orderly
  <1>7. ~appendFailed'
    BY <1>1 DEF RestartSender
  <1> QED  BY <1>4, <1>5, <1>6, <1>7, InvFrom

\* Every step keeps it.
LEMMA NextInv == Inv /\ [Next]_vars => Inv'
  <1>1. SUFFICES ASSUME Inv, [Next]_vars PROVE Inv'
    OBVIOUS
  <1>2. CASE IssuePermit \/ LosePermit \/ LosePacket
    BY <1>1, <1>2, NetworkInv
  <1>3. CASE UsePermit
    BY <1>1, <1>3, UsePermitInv
  <1>4. CASE Arrive \/ ArriveDisordered
    BY <1>1, <1>4, ArriveInv
  <1>5. CASE RestartSender
    BY <1>1, <1>5, RestartInv
  <1>6. CASE NewRequest \/ GiveUp
    BY <1>1, <1>6, RequestInv
  <1>7. CASE UNCHANGED vars
    BY <1>1, <1>7 DEF vars, Inv, TypeOK, Orderly, StreamInOrder, PermitSound
  <1> QED  BY <1>1, <1>2, <1>3, <1>4, <1>5, <1>6, <1>7 DEF Next

-----------------------------------------------------------------------------
(* The theorems.                                                              *)

\* The invariant implies that the window is respected.
LEMMA WindowFromInv == Inv => WindowRespected
  <1>1. SUFFICES ASSUME Inv PROVE WindowRespected
    OBVIOUS
  <1>2. PICK K \in SUBSET (0 .. nextSendSequence - 1), F \in 0 .. nextSendSequence :
            Holds(resendList, nextSendSequence, K, F)
    BY <1>1 DEF Inv
  <1>3. ~appendFailed
    BY <1>1 DEF Inv
  <1>4. ASSUME resendList.entries # {}
        PROVE  /\ nextSendSequence - PacketOf(resendList.first) <= TrackerBits
               /\ resendList.first \in resendList.entries
    <2>1. F \in K /\ resendList.first = F % SeqSpace
      BY <1>2, <1>4 DEF Holds
    <2>2. /\ F \in Nat /\ nextSendSequence <= F + TrackerBits
          /\ nextSendSequence - Delta(nextSendSequence, F % SeqSpace) = F
          /\ F % SeqSpace \in resendList.entries
      BY <1>2, <2>1, EntryOfPacket
    <2>3. PacketOf(resendList.first) = F
      BY <2>1, <2>2 DEF PacketOf
    <2>4. nextSendSequence \in Nat
      BY <1>2 DEF Holds
    <2> QED  BY <2>1, <2>2, <2>3, <2>4, Ranges
  <1> QED  BY <1>3, <1>4 DEF WindowRespected

\* What the sender no longer keeps has been handed on.
LEMMA ReleasedFromInv == Inv => ReleasedOnlyIfDelivered
  <1>1. SUFFICES ASSUME Inv, Orderly, NEW n \in 0 .. nextSendSequence - 1, n \notin delivered
                 PROVE  \E e \in resendList.entries : PacketOf(e) = n
    BY DEF ReleasedOnlyIfDelivered, ConfirmedAreDelivered
  <1>2. PICK K \in SUBSET (0 .. nextSendSequence - 1), F \in 0 .. nextSendSequence :
            Holds(resendList, nextSendSequence, K, F) /\ StreamInOrder(K, F)
    BY <1>1 DEF Inv
  <1>3. n \in K
    BY <1>1, <1>2 DEF StreamInOrder
  <1>4. n % SeqSpace \in resendList.entries
        /\ nextSendSequence - Delta(nextSendSequence, n % SeqSpace) = n
    BY <1>2, <1>3, EntryOfPacket
  <1> QED  BY <1>4 DEF PacketOf

\* The least number of a set.
LEMMA MinIs ==
    ASSUME NEW S, S \subseteq Int, NEW m \in S, \A x \in S : m <= x
    PROVE  Min(S) = m
  <1>1. ASSUME NEW x \in S, \A y \in S : x <= y PROVE x = m
    <2>1. x <= m /\ m <= x /\ x \in Int /\ m \in Int
      BY <1>1
    <2> QED  BY <2>1
  <1> QED  BY <1>1 DEF Min

\* The greatest one.
LEMMA MaxIs ==
    ASSUME NEW S, S \subseteq Int, NEW m \in S, \A x \in S : m >= x
    PROVE  Max(S) = m
  <1>1. ASSUME NEW x \in S, \A y \in S : x >= y PROVE x = m
    <2>1. x <= m /\ m <= x /\ x \in Int /\ m \in Int
      BY <1>1
    <2> QED  BY <2>1
  <1> QED  BY <1>1 DEF Max

\* The tracker, computed from what has been handed on.
LEMMA TrackerFromInv == Inv => TrackerExact
  <1>1. SUFFICES ASSUME Inv PROVE TrackerExact
    OBVIOUS
  <1> DEFINE base == Min(0 .. MaxSend \ delivered)
             last == Max({-1} \cup delivered)
             bits == {Slot(n) : n \in {m \in delivered : m > base}}
  <1>2. TypeOK
    BY <1>1 DEF Inv
  <1>3. ASSUME Orderly
        PROVE  packetsSeen = [base |-> base % SeqSpace, hwm |-> last % SeqSpace, seen |-> bits]
    <2>1. PICK K \in SUBSET (0 .. nextSendSequence - 1), F \in 0 .. nextSendSequence :
              StreamInOrder(K, F)
      BY <1>1, <1>3 DEF Inv
    <2>2. PICK B \in 0 .. nextSendSequence : Records(packetsSeen, delivered, B)
      BY <2>1 DEF StreamInOrder
    <2>3. MaxSend \in Nat /\ nextSendSequence \in 0 .. MaxSend /\ delivered \subseteq 0 .. MaxSend - 1
          /\ packetsSeen \in Tracker
      BY <1>2, StreamAssumption DEF TypeOK
    <2>4. B \in Nat /\ B <= MaxSend /\ B \notin delivered /\ 0 .. B - 1 \subseteq delivered
      BY <2>2, <2>3 DEF Records
    <2>5. base = B
      <3> DEFINE S == 0 .. MaxSend \ delivered
      <3>1. S \subseteq Int /\ B \in S
        BY <2>3, <2>4
      <3>2. ASSUME NEW x \in S PROVE B <= x
        <4>1. x \in Nat /\ x \notin 0 .. B - 1
          BY <2>3, <2>4
        <4> QED  BY <2>4, <4>1
      <3> HIDE DEF S
      <3>3. Min(S) = B
        BY <3>1, <3>2, MinIs
      <3> QED  BY <3>3 DEF S
    <2>6. packetsSeen.hwm = last % SeqSpace
      <3> DEFINE S == {-1} \cup delivered
      <3>1. PICK h \in delivered \cup {-1} : (\A d \in delivered : d <= h)
                                             /\ packetsSeen.hwm = h % SeqSpace
        BY <2>2 DEF Records
      <3>2. S \subseteq Int /\ h \in S
        BY <2>3
      <3>3. ASSUME NEW x \in S PROVE h >= x
        BY <2>3, <3>1
      <3> HIDE DEF S
      <3>4. Max(S) = h
        BY <3>2, <3>3, MaxIs
      <3> QED  BY <3>1, <3>4 DEF S
    <2> HIDE DEF base, last
    <2>7. packetsSeen.base = base % SeqSpace /\ packetsSeen.seen = bits
      BY <2>2, <2>5 DEF Records
    <2>8. packetsSeen = [base |-> packetsSeen.base, hwm |-> packetsSeen.hwm, seen |-> packetsSeen.seen]
      BY <2>3 DEF Tracker
    <2> QED  BY <2>6, <2>7, <2>8
  <1> QED  BY <1>2, <1>3 DEF TrackerExact

\* The invariant always holds.
LEMMA StreamInvariant == Spec => []Inv
  BY InitInv, NextInv, PTL DEF Spec

\* Neither append nor sendData ever meets the condition its assert or throw
\* guards against, whatever is lost, comes twice or in the wrong order, and
\* however often the sender restarts.
THEOREM WindowNeverExceeded == Spec => []WindowRespected
  BY StreamInvariant, WindowFromInv, PTL

\* As long as data packets stay in order, whatever is lost: the bitmap of the
\* receiver says exactly which packets have been handed to the collators.
THEOREM TrackerAlwaysExact == Spec => []TrackerExact
  BY StreamInvariant, TrackerFromInv, PTL

\* No packet is handed to the collators twice, for as long.
THEOREM NeverDeliveredTwice == Spec => []DeliveredOnce
  <1>1. Inv => DeliveredOnce
    BY DEF Inv, DeliveredOnce, StreamInOrder
  <1> QED  BY <1>1, StreamInvariant, PTL

\* noteRead releases nothing that has not been handed to the collators.
THEOREM NothingReleasedEarly == Spec => []ReleasedOnlyIfDelivered
  BY StreamInvariant, ReleasedFromInv, PTL
=============================================================================
