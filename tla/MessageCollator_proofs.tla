------------------------ MODULE MessageCollator_proofs ------------------------
(* The packets of a message are put in order whatever order they come in, and *)
(* every buffer and every token is accounted for, for any messages, any       *)
(* numbers of packets and any number of arrivals.                             *)
EXTENDS MessageCollator, FiniteSetTheorems, WellFoundedInduction, TLAPS

-----------------------------------------------------------------------------
(* Numbers that wrap around.                                                  *)

\* The remainder is the only one.
LEMMA ModUnique ==
    ASSUME NEW N \in Nat \ {0}, NEW a \in Int, NEW q \in Int, NEW r \in 0 .. N - 1,
           a = N * q + r
    PROVE  a % N = r
  OBVIOUS

-----------------------------------------------------------------------------
(* Least and greatest numbers.                                                *)

\* A set of numbers that is not empty has a least one.
LEMMA LeastNumber ==
    ASSUME NEW S, S \subseteq Nat, S # {}
    PROVE  \E n \in S : \A k \in S : n <= k
  <1> DEFINE R == OpToRel(<, Nat)
  <1>1. IsWellFoundedOn(R, Nat)
    BY NatLessThanWellFounded
  <1>2. ASSUME NEW x \in Nat, NEW y \in Nat, y < x PROVE <<y, x>> \in R
    BY <1>2 DEF OpToRel
  <1> HIDE DEF R
  <1>3. \E x \in S : \A y \in S : ~(<<y, x>> \in R)
    BY <1>1, WFMin
  <1>4. PICK n \in S : \A y \in S : ~(<<y, n>> \in R)
    BY <1>3
  <1>5. ASSUME NEW k \in S PROVE n <= k
    <2>1. k \in Nat /\ n \in Nat
      OBVIOUS
    <2>2. ~(k < n)
      BY <1>2, <1>4, <2>1
    <2> QED  BY <2>1, <2>2
  <1> QED  BY <1>5

\* If it is bounded it has a greatest one.
LEMMA GreatestNumber ==
    ASSUME NEW S, S \subseteq Nat, S # {}, NEW m \in Nat, \A k \in S : k <= m
    PROVE  \E n \in S : \A k \in S : k <= n
  <1> DEFINE T == {m - k : k \in S}
  <1>1. T \subseteq Nat
    <2>1. \A k \in S : m - k \in Nat
      OBVIOUS
    <2> QED  BY <2>1
  <1>2. T # {}
    OBVIOUS
  <1>3. PICK t \in T : \A u \in T : t <= u
    <2> HIDE DEF T
    <2> QED  BY <1>1, <1>2, LeastNumber
  <1>4. PICK n \in S : t = m - n
    OBVIOUS
  <1>5. ASSUME NEW k \in S PROVE k <= n
    <2>1. m - k \in T /\ k \in Nat /\ n \in Nat
      OBVIOUS
    <2> QED  BY <1>3, <1>4, <2>1
  <1> QED  BY <1>5

-----------------------------------------------------------------------------
(* Packets.                                                                   *)

\* Packet k of message m as the sequencer sees it.
Coded(m, k) == PktSeq(m, k, FALSE)

PacketsOf(m) == {Coded(m, k) : k \in 0 .. Packets[m] - 1}

\* The widths of the fields.
LEMMA Fields ==
    ASSUME NEW m \in Messages
    PROVE  /\ RESENT \in Nat \ {0} /\ COMPLETE = 2 * RESENT /\ NoPacket = 4 * RESENT
           /\ Packets[m] \in Nat /\ Packets[m] >= 1 /\ Packets[m] <= RESENT
  BY SequencerAssumption, CollatorAssumption DEF COMPLETE, NoPacket

\* The quotient of a division.
LEMMA DivUnique ==
    ASSUME NEW N \in Nat \ {0}, NEW q \in Int, NEW r \in 0 .. N - 1, NEW a \in Int, a = N * q + r
    PROVE  a \div N = q
  OBVIOUS

\* What the flags and the number of a packet are, and that clearing the flag of a resent
\* packet makes it the original one.
LEMMA Coding ==
    ASSUME NEW m \in Messages, NEW k \in 0 .. Packets[m] - 1
    PROVE  /\ Coded(m, k) \in Nat /\ Coded(m, k) < NoPacket /\ Number(Coded(m, k)) = k
           /\ IsComplete(Coded(m, k)) <=> k = Packets[m] - 1
           /\ \A resent \in BOOLEAN : /\ PktSeq(m, k, resent) \in 0 .. 2 * COMPLETE - 1
                                      /\ ClearResent(PktSeq(m, k, resent)) = Coded(m, k)
  <1>1. /\ RESENT \in Nat \ {0} /\ COMPLETE = 2 * RESENT /\ NoPacket = 4 * RESENT
        /\ Packets[m] \in Nat /\ Packets[m] >= 1 /\ Packets[m] <= RESENT
    BY Fields
  <1>2. k \in 0 .. RESENT - 1 /\ k \in Int
    BY <1>1
  <1>3. PICK c \in {0, 2} : /\ Coded(m, k) = k + c * RESENT /\ (c = 2 <=> k = Packets[m] - 1)
                            /\ PktSeq(m, k, TRUE) = k + c * RESENT + RESENT
    BY <1>1, <1>2 DEF Coded, PktSeq
  <1>4. PICK p \in Nat : p = k + c * RESENT /\ p = Coded(m, k)
    BY <1>1, <1>2, <1>3
  <1>5. p < 4 * RESENT /\ p + RESENT < 4 * RESENT
    BY <1>1, <1>2, <1>4
  <1>6. p = RESENT * c + k /\ p + RESENT = RESENT * (c + 1) + k /\ c \in Int /\ c + 1 \in Int /\ p \in Int
        /\ p + RESENT \in Int
    BY <1>1, <1>2, <1>4
  <1>7. p % RESENT = k
    BY <1>1, <1>2, <1>6, ModUnique
  <1>8. p \div RESENT = c /\ (p + RESENT) \div RESENT = c + 1
    <2>1. p \div RESENT = c
      BY <1>1, <1>2, <1>6, DivUnique
    <2>2. \A q \in Int, a \in Int : a = RESENT * q + k => a \div RESENT = q
      BY <1>1, <1>2, DivUnique
    <2> QED  BY <1>6, <2>1, <2>2
  <1>9. IsComplete(p) <=> k = Packets[m] - 1
    <2>1. COMPLETE \in Nat \ {0} /\ k \in 0 .. COMPLETE - 1
      BY <1>1, <1>2
    <2>2. PICK d \in {0, 1} : p = COMPLETE * d + k /\ (d = 1 <=> c = 2)
      BY <1>1, <1>2, <1>4
    <2>3. p \div COMPLETE = d
      BY <2>1, <2>2, DivUnique
    <2> QED  BY <1>3, <2>2, <2>3 DEF IsComplete
  <1>10. ~IsResent(p) /\ IsResent(p + RESENT)
    BY <1>8 DEF IsResent
  <1>11. ClearResent(p) = p /\ ClearResent(p + RESENT) = p
    BY <1>1, <1>4, <1>10 DEF ClearResent
  <1>12. ASSUME NEW resent \in BOOLEAN
         PROVE  /\ PktSeq(m, k, resent) \in 0 .. 2 * COMPLETE - 1
                /\ ClearResent(PktSeq(m, k, resent)) = Coded(m, k)
    <2>1. PktSeq(m, k, resent) = IF resent THEN p + RESENT ELSE p
      BY <1>1, <1>2, <1>3, <1>4 DEF Coded
    <2> QED  BY <1>1, <1>4, <1>5, <1>11, <2>1
  <1> QED  BY <1>1, <1>4, <1>5, <1>7, <1>9, <1>12 DEF Number

\* Packets are ordered as their numbers are.
LEMMA CodingOrder ==
    ASSUME NEW m \in Messages, NEW j \in 0 .. Packets[m] - 1, NEW k \in 0 .. Packets[m] - 1
    PROVE  Coded(m, j) < Coded(m, k) <=> j < k
  <1>1. /\ RESENT \in Nat \ {0} /\ COMPLETE = 2 * RESENT
        /\ Packets[m] \in Nat /\ Packets[m] >= 1 /\ Packets[m] <= RESENT
    BY Fields
  <1>2. /\ Coded(m, j) = j + (IF j = Packets[m] - 1 THEN COMPLETE ELSE 0)
        /\ Coded(m, k) = k + (IF k = Packets[m] - 1 THEN COMPLETE ELSE 0)
    BY <1>1 DEF Coded, PktSeq
  <1> QED  BY <1>1, <1>2


\* A packet is told by its number.
LEMMA NumberTells ==
    ASSUME NEW m \in Messages, NEW x \in PacketsOf(m)
    PROVE  /\ x \in Nat /\ x < NoPacket /\ Number(x) \in 0 .. Packets[m] - 1 /\ x = Coded(m, Number(x))
           /\ IsComplete(x) <=> Number(x) = Packets[m] - 1
           /\ \A y \in PacketsOf(m) : x < y <=> Number(x) < Number(y)
  <1>1. PICK k \in 0 .. Packets[m] - 1 : x = Coded(m, k)
    BY DEF PacketsOf
  <1>2. /\ Coded(m, k) \in Nat /\ Coded(m, k) < NoPacket /\ Number(Coded(m, k)) = k
        /\ IsComplete(Coded(m, k)) <=> k = Packets[m] - 1
    BY Coding
  <1>3. ASSUME NEW y \in PacketsOf(m) PROVE x < y <=> Number(x) < Number(y)
    <2>1. PICK j \in 0 .. Packets[m] - 1 : y = Coded(m, j)
      BY DEF PacketsOf
    <2>2. Number(Coded(m, j)) = j
      BY Coding
    <2>3. Coded(m, k) < Coded(m, j) <=> k < j
      BY CodingOrder
    <2> QED  BY <1>1, <1>2, <2>1, <2>2, <2>3
  <1> QED  BY <1>1, <1>2, <1>3

-----------------------------------------------------------------------------
(* The sequencer.                                                             *)

\* The state of a sequencer of message m between two insertions.
Ordered(m, s) ==
    /\ s \in Sequencers
    /\ \A i \in 1 .. Len(s.list) : s.list[i] \in PacketsOf(m)
    /\ \A i, j \in 1 .. Len(s.list) : i < j => s.list[i] < s.list[j]
    /\ s.contiguous <= Len(s.list) /\ s.contiguous <= Packets[m]
    /\ \A i \in 1 .. s.contiguous : Number(s.list[i]) = i - 1
    /\ s.contiguous < Len(s.list) => Number(s.list[s.contiguous + 1]) # s.contiguous
    /\ s.tail = IF Len(s.list) = 0 THEN NoPacket ELSE s.list[Len(s.list)]
    /\ s.avail = s.contiguous + (IF s.contiguous = Packets[m] THEN 1 ELSE 0)

\* An empty sequencer.
LEMMA NewIsOrdered ==
    ASSUME NEW m \in Messages
    PROVE  Ordered(m, NewSequencer) /\ NewSequencer.contiguous = 0 /\ NewSequencer.list = <<>>
  <1>1. /\ RESENT \in Nat \ {0} /\ NoPacket = 4 * RESENT /\ Packets[m] \in Nat /\ Packets[m] >= 1
    BY Fields
  <1>2. /\ NewSequencer.list = <<>> /\ NewSequencer.contiguous = 0 /\ NewSequencer.tail = NoPacket
        /\ NewSequencer.avail = 0 /\ NewSequencer \in Sequencers
    BY <1>1 DEF NewSequencer, Sequencers
  <1>3. Len(NewSequencer.list) = 0
    BY <1>2
  <1> QED  BY <1>1, <1>2, <1>3 DEF Ordered

\* The fields of a sequencer.
LEMMA SequencerFields ==
    ASSUME NEW s \in Sequencers
    PROVE  /\ s.list \in Seq(0 .. 2 * COMPLETE - 1) /\ s.contiguous \in Nat /\ s.avail \in Nat
           /\ Len(s.list) \in Nat /\ s.tail \in 0 .. NoPacket
  BY DEF Sequencers

\* One list after another.
LEMMA Joined ==
    ASSUME NEW S, NEW b \in Seq(S), NEW c \in Seq(S)
    PROVE  /\ b \o c \in Seq(S) /\ Len(b \o c) = Len(b) + Len(c)
           /\ \A j \in 1 .. Len(b) : (b \o c)[j] = b[j]
           /\ \A j \in Len(b) + 1 .. Len(b) + Len(c) : (b \o c)[j] = c[j - Len(b)]
  OBVIOUS

\* A list with one more element after the first "at".
Spliced(l, at, p) == SubSeq(l, 1, at) \o <<p>> \o SubSeq(l, at + 1, Len(l))

\* Where its elements are.
HasInserted(S, l, at, p, n) ==
    /\ n \in Seq(S) /\ Len(n) = Len(l) + 1
    /\ \A j \in 1 .. at : n[j] = l[j]
    /\ n[at + 1] = p
    /\ \A j \in at + 2 .. Len(l) + 1 : n[j] = l[j - 1]

\* They are there.
LEMMA InsertAt ==
    ASSUME NEW S, NEW l \in Seq(S), NEW p \in S, NEW at \in 0 .. Len(l)
    PROVE  HasInserted(S, l, at, p, Spliced(l, at, p))
  <1> DEFINE n == Spliced(l, at, p)
             a == SubSeq(l, 1, at)
             b == a \o <<p>>
             c == SubSeq(l, at + 1, Len(l))
  <1>1. Len(l) \in Nat /\ at \in Nat /\ at <= Len(l)
    OBVIOUS
  <1>2. a \in Seq(S) /\ Len(a) = at /\ \A j \in 1 .. at : a[j] = l[j]
    BY <1>1
  <1>3. c \in Seq(S) /\ Len(c) = Len(l) - at /\ \A j \in 1 .. Len(l) - at : c[j] = l[at + j]
    BY <1>1
  <1> HIDE DEF a, c
  <1>4. b \in Seq(S) /\ Len(b) = at + 1 /\ b[at + 1] = p /\ \A j \in 1 .. at : b[j] = a[j]
    BY <1>1, <1>2
  <1> HIDE DEF b
  <1>5. n = b \o c
    BY DEF Spliced, a, b, c
  <1> HIDE DEF n
  <1>6. /\ n \in Seq(S) /\ Len(n) = Len(b) + Len(c)
        /\ \A j \in 1 .. Len(b) : n[j] = b[j]
        /\ \A j \in Len(b) + 1 .. Len(b) + Len(c) : n[j] = c[j - Len(b)]
    <2>1. /\ b \o c \in Seq(S) /\ Len(b \o c) = Len(b) + Len(c)
          /\ \A j \in 1 .. Len(b) : (b \o c)[j] = b[j]
          /\ \A j \in Len(b) + 1 .. Len(b) + Len(c) : (b \o c)[j] = c[j - Len(b)]
      BY <1>3, <1>4, Joined
    <2> QED  BY <1>5, <2>1, Zenon
  <1>7. Len(b) = at + 1 /\ Len(c) = Len(l) - at
    BY <1>3, <1>4
  <1>8. Len(n) = Len(l) + 1
    BY <1>1, <1>6, <1>7
  <1>9. \A j \in at + 2 .. Len(l) + 1 : n[j] = l[j - 1]
    <2> SUFFICES ASSUME NEW j \in at + 2 .. Len(l) + 1 PROVE n[j] = l[j - 1]
      OBVIOUS
    <2>1. PICK i \in 1 .. Len(l) - at : i = j - at - 1 /\ at + i = j - 1
      BY <1>1
    <2>2. c[i] = l[at + i]
      BY <1>3
    <2>3. j \in Len(b) + 1 .. Len(b) + Len(c) /\ j - Len(b) = i
      BY <1>1, <1>7, <2>1
    <2>4. n[j] = c[i]
      BY <1>6, <2>3
    <2> QED  BY <2>1, <2>2, <2>4
  <1>10. n[at + 1] = p
    <2>1. at + 1 \in 1 .. Len(b)
      BY <1>1, <1>7
    <2> QED  BY <1>4, <1>6, <2>1
  <1>11. \A j \in 1 .. at : n[j] = l[j]
    <2> SUFFICES ASSUME NEW j \in 1 .. at PROVE n[j] = l[j]
      OBVIOUS
    <2>1. j \in 1 .. Len(b)
      BY <1>1, <1>7
    <2>2. n[j] = b[j] /\ b[j] = a[j] /\ a[j] = l[j]
      BY <1>2, <1>4, <1>6, <2>1
    <2> QED  BY <2>2
  <1> QED  BY <1>6, <1>8, <1>9, <1>10, <1>11 DEF HasInserted, n

\* A packet that is not discarded goes after all earlier ones and before all later ones,
\* whichever way its place is found.
LEMMA Place ==
    ASSUME NEW m \in Messages, NEW s, Ordered(m, s), NEW p \in PacketsOf(m), ~IsDiscarded(s, p)
    PROVE  /\ After(s, p) \in Nat /\ s.contiguous <= After(s, p) /\ After(s, p) <= Len(s.list)
           /\ \A i \in 1 .. After(s, p) : s.list[i] < p
           /\ \A i \in After(s, p) + 1 .. Len(s.list) : p < s.list[i]
  <1> DEFINE l == s.list
             c == s.contiguous
             later == {i \in c + 1 .. Len(l) : l[i] > p}
  <1>1. /\ c \in Nat /\ Len(l) \in Nat /\ c <= Len(l) /\ p \in Nat /\ p < NoPacket
        /\ \A i \in 1 .. Len(l) : l[i] \in Nat
        /\ \A i, j \in 1 .. Len(l) : i < j => l[i] < l[j]
        /\ s.tail = IF Len(l) = 0 THEN NoPacket ELSE l[Len(l)]
    BY NumberTells, SequencerFields DEF Ordered
  <1>2. \A i \in 1 .. Len(l) : l[i] < NoPacket
    BY NumberTells DEF Ordered
  <1>3. AddsToEnd(s, p) <=> Len(l) # 0 /\ p > l[Len(l)]
    BY <1>1, <1>2 DEF AddsToEnd
  <1>4. /\ After(s, p) = IF AddsToEnd(s, p) \/ later = {} THEN Len(l) ELSE Min(later) - 1
        /\ \/ AddsToEnd(s, p)
           \/ /\ ~(c > 0 /\ p <= l[c])
              /\ \A i \in c + 1 .. After(s, p) : l[i] # p
    BY DEF After, IsDiscarded
  <1> HIDE DEF l, c
  <1>5. CASE AddsToEnd(s, p)
    <2>1. After(s, p) = Len(l)
      BY <1>4, <1>5
    <2>2. \A i \in 1 .. Len(l) : l[i] < p
      BY <1>1, <1>3, <1>5
    <2> QED  BY <1>1, <2>1, <2>2 DEF l, c
  <1>6. CASE ~AddsToEnd(s, p) /\ later = {}
    <2>1. After(s, p) = Len(l)
      BY <1>4, <1>6
    <2>2. \A i \in c + 1 .. Len(l) : l[i] # p /\ ~(l[i] > p)
      BY <1>4, <1>6, <2>1
    <2>3. \A i \in 1 .. Len(l) : l[i] < p
      <3> SUFFICES ASSUME NEW i \in 1 .. Len(l) PROVE l[i] < p
        OBVIOUS
      <3>1. CASE i > c
        BY <1>1, <2>2, <3>1
      <3>2. CASE i <= c
        BY <1>1, <1>4, <1>6, <3>2
      <3> QED  BY <1>1, <3>1, <3>2
    <2> QED  BY <1>1, <2>1, <2>3 DEF l, c
  <1>7. CASE ~AddsToEnd(s, p) /\ later # {}
    <2>1. later \subseteq Nat
      BY <1>1
    <2>2. \E n \in later : \A k \in later : n <= k
      BY <1>7, <2>1, LeastNumber
    <2>3. Min(later) \in later /\ \A k \in later : Min(later) <= k
      BY <2>2 DEF Min
    <2>4. PICK n \in later : n = Min(later)
      BY <2>3
    <2>5. n \in c + 1 .. Len(l) /\ l[n] > p /\ After(s, p) = n - 1
      BY <1>4, <1>7, <2>4
    <2>6. \A i \in c + 1 .. n - 1 : l[i] # p /\ ~(l[i] > p)
      <3> SUFFICES ASSUME NEW i \in c + 1 .. n - 1 PROVE l[i] # p /\ ~(l[i] > p)
        OBVIOUS
      <3>1. l[i] # p
        BY <1>4, <1>7, <2>5
      <3>2. i \notin later
        BY <1>1, <2>3, <2>4, <2>5
      <3> QED  BY <1>1, <2>5, <3>1, <3>2
    <2>7. \A i \in 1 .. n - 1 : l[i] < p
      <3> SUFFICES ASSUME NEW i \in 1 .. n - 1 PROVE l[i] < p
        OBVIOUS
      <3>1. CASE i > c
        BY <1>1, <2>5, <2>6, <3>1
      <3>2. CASE i <= c
        BY <1>1, <1>4, <1>7, <3>2
      <3> QED  BY <1>1, <2>5, <3>1, <3>2
    <2>8. \A i \in n .. Len(l) : p < l[i]
      <3> SUFFICES ASSUME NEW i \in n .. Len(l) PROVE p < l[i]
        OBVIOUS
      <3>1. i = n \/ l[n] < l[i]
        BY <1>1, <2>5
      <3> QED  BY <1>1, <2>5, <3>1
    <2>9. n \in Nat /\ n >= c + 1 /\ n <= Len(l) /\ (n - 1) + 1 = n
      BY <1>1, <2>5
    <2> QED  BY <1>1, <2>5, <2>7, <2>8, <2>9 DEF l, c
  <1> QED  BY <1>5, <1>6, <1>7


\* How far a list is without a gap.
LEMMA Reach ==
    ASSUME NEW c \in Nat, NEW l, Len(l) \in Nat, c <= Len(l), NEW K,
           K = {k \in c .. Len(l) : \A i \in c + 1 .. k : Number(l[i]) = i - 1}
    PROVE  /\ Max(K) \in c .. Len(l) /\ \A i \in c + 1 .. Max(K) : Number(l[i]) = i - 1
           /\ Max(K) < Len(l) => Number(l[Max(K) + 1]) # Max(K)
  <1>1. K \subseteq Nat /\ c \in K /\ \A k \in K : k <= Len(l)
    OBVIOUS
  <1>2. \E n \in K : \A k \in K : k <= n
    <2>1. K # {} /\ K \subseteq Nat /\ \A k \in K : k <= Len(l)
      BY <1>1
    <2> QED  BY <2>1, GreatestNumber
  <1>3. Max(K) \in K /\ \A k \in K : k <= Max(K)
    BY <1>2 DEF Max
  <1>4. PICK n \in K : n = Max(K)
    BY <1>3
  <1>5. n \in c .. Len(l) /\ \A i \in c + 1 .. n : Number(l[i]) = i - 1
    OBVIOUS
  <1>6. ASSUME n < Len(l), Number(l[n + 1]) = n PROVE FALSE
    <2>1. n + 1 \in c .. Len(l) /\ n \in Nat
      BY <1>5, <1>6
    <2>2. \A i \in c + 1 .. n + 1 : Number(l[i]) = i - 1
      <3> SUFFICES ASSUME NEW i \in c + 1 .. n + 1 PROVE Number(l[i]) = i - 1
        OBVIOUS
      <3>1. i = n + 1 \/ i \in c + 1 .. n
        BY <2>1
      <3> QED  BY <1>5, <1>6, <2>1, <3>1
    <2>3. n + 1 \in K
      BY <2>1, <2>2
    <2> QED  BY <1>3, <1>4, <2>1, <2>3
  <1> QED  BY <1>4, <1>5, <1>6

\* What insert() does with a packet that is not discarded: one packet more, still in
\* order and counted, and the message is complete exactly when all its packets are there.
LEMMA Insertion ==
    ASSUME NEW m \in Messages, NEW s, Ordered(m, s), NEW p \in PacketsOf(m), ~IsDiscarded(s, p),
           s.contiguous < Packets[m]
    PROVE  /\ Ordered(m, Inserted(s, p)) /\ Len(Inserted(s, p).list) = Len(s.list) + 1
           /\ CompletesMessage(s, p) <=> Inserted(s, p).contiguous = Packets[m]
           /\ Inserted(s, p).contiguous = Packets[m] => Len(Inserted(s, p).list) = Packets[m]
  <1> DEFINE P == Packets[m]
             c == s.contiguous
             at == After(s, p)
             n == SubSeq(s.list, 1, at) \o <<p>> \o SubSeq(s.list, at + 1, Len(s.list))
             upto == ContiguousPackets(s, n, at)
             t == Inserted(s, p)
  <1>1. /\ s.list \in Seq(0 .. 2 * COMPLETE - 1) /\ c \in Nat /\ s.avail \in Nat /\ Len(s.list) \in Nat
        /\ P \in Nat /\ P >= 1 /\ c <= Len(s.list) /\ c < P /\ NoPacket = 2 * COMPLETE
        /\ s.avail = c
    BY SequencerFields, Fields DEF Ordered, NoPacket
  <1>2. p \in Nat /\ p < NoPacket /\ p \in 0 .. 2 * COMPLETE - 1
    <2>1. p \in Nat /\ p < NoPacket
      BY NumberTells
    <2> QED  BY <1>1, <2>1, Fields
  <1>3. /\ at \in Nat /\ c <= at /\ at <= Len(s.list)
        /\ \A i \in 1 .. at : s.list[i] < p
        /\ \A i \in at + 1 .. Len(s.list) : p < s.list[i]
    BY Place
  <1> HIDE DEF at
  <1>4. /\ n \in Seq(0 .. 2 * COMPLETE - 1) /\ Len(n) = Len(s.list) + 1
        /\ \A j \in 1 .. at : n[j] = s.list[j]
        /\ n[at + 1] = p
        /\ \A j \in at + 2 .. Len(s.list) + 1 : n[j] = s.list[j - 1]
    <2> DEFINE l == s.list
               S == 0 .. 2 * COMPLETE - 1
    <2>1. at \in 0 .. Len(l)
      BY <1>1, <1>3
    <2>2. l \in Seq(S) /\ p \in S
      BY <1>1, <1>2
    <2> HIDE DEF l, S
    <2>3. HasInserted(S, l, at, p, Spliced(l, at, p))
      BY <2>1, <2>2, InsertAt
    <2>4. n = Spliced(l, at, p)
      BY DEF Spliced, l
    <2> HIDE DEF n
    <2>5. HasInserted(S, l, at, p, n)
      BY <2>3, <2>4
    <2> QED  BY <2>5, Zenon DEF l, S, HasInserted
  <1>5. /\ t.list = n /\ t.contiguous = upto /\ t.tail = TailAfter(s, p)
        /\ t.avail = s.avail + TokensFor(n, c, upto)
        /\ t = [list |-> n, contiguous |-> upto, tail |-> TailAfter(s, p),
                avail |-> s.avail + TokensFor(n, c, upto)]
    BY DEF Inserted, at
  <1>6. CompletesMessage(s, p) <=> \E i \in c + 1 .. upto : IsComplete(n[i])
    BY <1>5 DEF CompletesMessage
  <1>7. upto = IF at # c THEN c
               ELSE Max({k \in c .. Len(n) : \A i \in c + 1 .. k : Number(n[i]) = i - 1})
    BY DEF ContiguousPackets
  <1> HIDE DEF n, upto, t
  <1>sizes. /\ c \in Nat /\ c < P /\ P \in Nat /\ c <= at /\ at \in Nat /\ at <= Len(s.list)
            /\ Len(s.list) \in Nat /\ Len(n) \in Nat /\ Len(n) = Len(s.list) + 1
    BY <1>1, <1>3, <1>4
  <1>8. \A j \in 1 .. Len(n) : n[j] \in PacketsOf(m)
    <2> SUFFICES ASSUME NEW j \in 1 .. Len(n) PROVE n[j] \in PacketsOf(m)
      OBVIOUS
    <2>1. j \in 1 .. at \/ j = at + 1 \/ (j \in at + 2 .. Len(s.list) + 1 /\ j - 1 \in 1 .. Len(s.list))
      BY <1>1, <1>3, <1>4
    <2>2. j \in 1 .. at => j \in 1 .. Len(s.list)
      BY <1>1, <1>3
    <2> QED  BY <1>4, <2>1, <2>2 DEF Ordered
  <1>9. \A j \in 1 .. Len(n) : n[j] \in Nat
    BY <1>8, NumberTells
  <1>10. \A i, j \in 1 .. Len(n) : i < j => n[i] < n[j]
    <2> SUFFICES ASSUME NEW i \in 1 .. Len(n), NEW j \in 1 .. Len(n), i < j PROVE n[i] < n[j]
      OBVIOUS
    <2>1. \A a, b \in 1 .. Len(s.list) : a < b => s.list[a] < s.list[b]
      BY DEF Ordered
    <2>2. CASE j <= at
      <3>1. i \in 1 .. at /\ j \in 1 .. at /\ i \in 1 .. Len(s.list) /\ j \in 1 .. Len(s.list)
        BY <1>sizes, <2>2
      <3> QED  BY <1>4, <2>1, <3>1
    <2>3. CASE j = at + 1
      <3>1. i \in 1 .. at
        BY <1>1, <1>3, <2>3
      <3> QED  BY <1>3, <1>4, <2>3, <3>1
    <2>4. CASE j > at + 1
      <3>1. j \in at + 2 .. Len(s.list) + 1 /\ j - 1 \in at + 1 .. Len(s.list) /\ j - 1 \in 1 .. Len(s.list)
        BY <1>1, <1>3, <1>4, <2>4
      <3>2. n[j] = s.list[j - 1] /\ p < s.list[j - 1]
        BY <1>3, <1>4, <3>1
      <3>3. CASE i = at + 1
        BY <1>4, <3>2, <3>3
      <3>4. CASE i <= at
        <4>1. i \in 1 .. at /\ i \in 1 .. Len(s.list) /\ i < j - 1
          BY <1>1, <1>3, <2>4, <3>4
        <4> QED  BY <1>4, <2>1, <3>1, <3>2, <4>1
      <3>5. CASE i > at + 1
        <4>1. i \in at + 2 .. Len(s.list) + 1 /\ i - 1 \in 1 .. Len(s.list) /\ i - 1 < j - 1
          BY <1>1, <1>3, <1>4, <3>5
        <4> QED  BY <1>4, <2>1, <3>1, <3>2, <4>1
      <3> QED  BY <1>3, <3>3, <3>4, <3>5
    <2> QED  BY <1>3, <2>2, <2>3, <2>4
  <1>11. \A i \in 1 .. c : Number(n[i]) = i - 1
    <2> SUFFICES ASSUME NEW i \in 1 .. c PROVE Number(n[i]) = i - 1
      OBVIOUS
    <2>1. i \in 1 .. at
      BY <1>1, <1>3
    <2> QED  BY <1>4, <2>1 DEF Ordered
  <1>12. /\ upto \in c .. Len(n) /\ \A i \in c + 1 .. upto : Number(n[i]) = i - 1
         /\ upto < Len(n) => Number(n[upto + 1]) # upto
    <2>1. CASE at = c
      <3> DEFINE K == {k \in c .. Len(n) : \A i \in c + 1 .. k : Number(n[i]) = i - 1}
      <3>1. c \in Nat /\ Len(n) \in Nat /\ c <= Len(n)
        BY <1>sizes
      <3>2. K = {k \in c .. Len(n) : \A i \in c + 1 .. k : Number(n[i]) = i - 1}
        OBVIOUS
      <3> HIDE DEF K, c
      <3>3. /\ Max(K) \in c .. Len(n) /\ \A i \in c + 1 .. Max(K) : Number(n[i]) = i - 1
            /\ Max(K) < Len(n) => Number(n[Max(K) + 1]) # Max(K)
        BY <3>1, <3>2, Reach
      <3>4. upto = Max(K)
        BY <1>7, <2>1, <3>2
      <3> QED  BY <3>3, <3>4
    <2>2. CASE at # c
      <3>1. upto = c
        BY <1>7, <2>2
      <3>2. c + 1 \in 1 .. at /\ c < Len(s.list) /\ c < Len(n)
        BY <1>sizes, <2>2
      <3>3. Number(s.list[c + 1]) # c
        BY <3>2 DEF Ordered
      <3>4. Number(n[c + 1]) # c
        BY <1>4, <3>2, <3>3
      <3> QED  BY <1>1, <3>1, <3>2, <3>4
    <2> QED  BY <2>1, <2>2
  <1>13. \A i \in 1 .. upto : Number(n[i]) = i - 1
    <2> SUFFICES ASSUME NEW i \in 1 .. upto PROVE Number(n[i]) = i - 1
      OBVIOUS
    <2>1. i \in 1 .. c \/ i \in c + 1 .. upto
      BY <1>1, <1>4, <1>12
    <2> QED  BY <1>11, <1>12, <2>1
  <1>14. upto \in Nat /\ upto <= P /\ upto <= Len(n)
    <2>1. upto \in Nat /\ upto <= Len(n) /\ Len(n) \in Nat
      BY <1>1, <1>4, <1>12
    <2>2. CASE upto = 0
      BY <1>1, <2>1, <2>2
    <2>3. CASE upto > 0
      <3>1. upto \in 1 .. Len(n) /\ upto \in 1 .. upto
        BY <2>1, <2>3
      <3>2. Number(n[upto]) = upto - 1 /\ Number(n[upto]) \in 0 .. P - 1
        BY <1>8, <1>13, <3>1, NumberTells
      <3> QED  BY <1>1, <2>1, <3>2
    <2> QED  BY <2>1, <2>2, <2>3
  <1>15. \A i \in c + 1 .. upto : IsComplete(n[i]) <=> i = P
    <2> SUFFICES ASSUME NEW i \in c + 1 .. upto PROVE IsComplete(n[i]) <=> i = P
      OBVIOUS
    <2>1. i \in 1 .. upto /\ i \in 1 .. Len(n) /\ i \in Nat
      BY <1>sizes, <1>14
    <2>2. Number(n[i]) = i - 1 /\ n[i] \in PacketsOf(m)
      BY <1>8, <1>13, <2>1
    <2>3. IsComplete(n[i]) <=> Number(n[i]) = P - 1
      BY <2>2, NumberTells
    <2> QED  BY <1>1, <2>1, <2>2, <2>3
  <1>16. TokensFor(n, c, upto) = (upto - c) + (IF upto = P THEN 1 ELSE 0)
    <2> DEFINE E == {i \in c + 1 .. upto : IsComplete(n[i])}
    <2>1. E = IF upto = P THEN {P} ELSE {}
      BY <1>1, <1>12, <1>14, <1>15
    <2>2. Cardinality(E) = IF upto = P THEN 1 ELSE 0
      BY <2>1, FS_EmptySet, FS_Singleton
    <2> QED  BY <2>2 DEF TokensFor
  <1>17. TailAfter(s, p) = n[Len(n)]
    <2>1. s.tail = IF Len(s.list) = 0 THEN NoPacket ELSE s.list[Len(s.list)]
      BY DEF Ordered
    <2>2. CASE AddsToEnd(s, p) \/ s.tail = NoPacket
      <3>1. at = Len(s.list)
        <4>1. CASE AddsToEnd(s, p)
          BY <4>1 DEF After, at
        <4>2. CASE s.tail = NoPacket
          <5>1. Len(s.list) = 0
            <6> SUFFICES ASSUME Len(s.list) # 0 PROVE FALSE
              OBVIOUS
            <6>1. Len(s.list) \in 1 .. Len(s.list)
              BY <1>1
            <6>2. s.list[Len(s.list)] < NoPacket /\ s.list[Len(s.list)] \in Nat
              BY <6>1, NumberTells DEF Ordered
            <6> QED  BY <1>2, <2>1, <4>2, <6>2
          <5> QED  BY <1>3, <5>1
        <4> QED  BY <2>2, <4>1, <4>2
      <3>2. n[Len(n)] = p
        BY <1>4, <3>1
      <3> QED  BY <2>2, <3>2 DEF TailAfter
    <2>3. CASE ~(AddsToEnd(s, p) \/ s.tail = NoPacket)
      <3>1. Len(s.list) # 0 /\ ~(p > s.list[Len(s.list)])
        BY <2>1, <2>3 DEF AddsToEnd
      <3>2. at # Len(s.list)
        <4> SUFFICES ASSUME at = Len(s.list) PROVE FALSE
          OBVIOUS
        <4>1. at \in 1 .. at /\ s.list[at] < p
          BY <1>1, <1>3, <3>1
        <4>2. at \in 1 .. Len(s.list)
          BY <4>1
        <4>3. s.list[at] \in Nat
          BY <4>2, NumberTells DEF Ordered
        <4> QED  BY <1>2, <3>1, <4>1, <4>3
      <3>3. Len(n) \in at + 2 .. Len(s.list) + 1 /\ Len(n) - 1 = Len(s.list)
        BY <1>1, <1>3, <1>4, <3>2
      <3>4. n[Len(n)] = s.list[Len(s.list)]
        BY <1>4, <3>3
      <3> QED  BY <2>1, <2>3, <3>1, <3>4 DEF TailAfter
    <2> QED  BY <2>2, <2>3
  <1>18. upto = P => Len(n) = P
    <2> SUFFICES ASSUME upto = P, Len(n) > P PROVE FALSE
      BY <1>sizes, <1>14
    <2>1. P \in 1 .. upto /\ P \in 1 .. Len(n) /\ P + 1 \in 1 .. Len(n)
      BY <1>sizes
    <2>2. Number(n[P]) = P - 1 /\ n[P] \in PacketsOf(m) /\ n[P + 1] \in PacketsOf(m) /\ n[P] < n[P + 1]
      BY <1>1, <1>8, <1>10, <1>13, <2>1
    <2>3. Number(n[P]) < Number(n[P + 1]) /\ Number(n[P + 1]) \in 0 .. P - 1
      BY <2>2, NumberTells
    <2> QED  BY <1>1, <2>2, <2>3
  <1>19. t \in Sequencers
    <2>1. Len(n) \in 1 .. Len(n)
      BY <1>1, <1>4
    <2>2. n[Len(n)] \in Nat /\ n[Len(n)] < NoPacket
      BY <1>8, <2>1, NumberTells
    <2>3. TailAfter(s, p) \in 0 .. NoPacket /\ upto \in Nat
      BY <1>14, <1>17, <2>2, Fields
    <2>4. s.avail + TokensFor(n, c, upto) \in Nat
      BY <1>1, <1>12, <1>14, <1>16
    <2> QED  BY <1>4, <1>5, <2>3, <2>4 DEF Sequencers
  <1>20. t.avail = upto + (IF upto = P THEN 1 ELSE 0)
    BY <1>1, <1>5, <1>14, <1>16
  <1>21. Len(n) # 0
    BY <1>1, <1>4
  <1>22. Ordered(m, t)
    BY <1>5, <1>8, <1>10, <1>12, <1>13, <1>14, <1>17, <1>19, <1>20, <1>21 DEF Ordered
  <1>23. CompletesMessage(s, p) <=> upto = P
    <2>1. upto = P => P \in c + 1 .. upto
      BY <1>1
    <2> QED  BY <1>1, <1>6, <1>14, <1>15, <2>1
  <1> QED  BY <1>4, <1>5, <1>18, <1>22, <1>23 DEF t


-----------------------------------------------------------------------------
(* Sums.                                                                      *)

\* What Total counts.
Unit(f, x) == {x} \X (1 .. f[x])
Units(f) == UNION {Unit(f, x) : x \in DOMAIN f}

\* The units of one argument.
LEMMA UnitSize ==
    ASSUME NEW f, NEW x, f[x] \in Nat
    PROVE  IsFiniteSet(Unit(f, x)) /\ Cardinality(Unit(f, x)) = f[x]
  <1>1. IsFiniteSet({x}) /\ Cardinality({x}) = 1
    BY FS_Singleton
  <1>2. IsFiniteSet(1 .. f[x]) /\ Cardinality(1 .. f[x]) = f[x]
    BY FS_Interval
  <1>3. /\ IsFiniteSet({x} \X (1 .. f[x]))
        /\ Cardinality({x} \X (1 .. f[x])) = Cardinality({x}) * Cardinality(1 .. f[x])
    BY <1>1, <1>2, FS_Product
  <1>4. 1 * f[x] = f[x]
    OBVIOUS
  <1> QED  BY <1>1, <1>2, <1>3, <1>4 DEF Unit

\* A sum of finitely many numbers is a number.
LEMMA TotalType ==
    ASSUME NEW f, IsFiniteSet(DOMAIN f), \A x \in DOMAIN f : f[x] \in Nat
    PROVE  IsFiniteSet(Units(f)) /\ Total(f) = Cardinality(Units(f)) /\ Total(f) \in Nat
  <1> DEFINE T == {Unit(f, x) : x \in DOMAIN f}
             g == [x \in DOMAIN f |-> Unit(f, x)]
  <1>1. g \in Surjection(DOMAIN f, T)
    BY DEF Surjection
  <1>2. \A u \in T : IsFiniteSet(u)
    BY UnitSize
  <1> HIDE DEF g, T
  <1>3. IsFiniteSet(T)
    BY <1>1, FS_Surjection
  <1>4. IsFiniteSet(UNION T)
    BY <1>2, <1>3, FS_UNION
  <1>5. Units(f) = UNION T
    BY DEF Units, T
  <1>6. Total(f) = Cardinality(Units(f))
    BY DEF Total, Units, Unit
  <1> QED  BY <1>4, <1>5, <1>6, FS_CardinalityType

\* One argument more.
LEMMA TotalExtend ==
    ASSUME NEW f, IsFiniteSet(DOMAIN f), \A y \in DOMAIN f : f[y] \in Nat,
           NEW x, x \notin DOMAIN f, NEW g, DOMAIN g = DOMAIN f \cup {x},
           \A y \in DOMAIN f : g[y] = f[y], g[x] \in Nat
    PROVE  Total(g) = Total(f) + g[x]
  <1>1. IsFiniteSet(DOMAIN g)
    BY FS_AddElement
  <1>2. \A y \in DOMAIN g : g[y] \in Nat
    OBVIOUS
  <1>3. IsFiniteSet(Units(f)) /\ Total(f) = Cardinality(Units(f)) /\ Total(f) \in Nat
    BY TotalType
  <1>4. Total(g) = Cardinality(Units(g))
    BY <1>1, <1>2, TotalType
  <1>5. IsFiniteSet(Unit(g, x)) /\ Cardinality(Unit(g, x)) = g[x]
    BY UnitSize
  <1>6. Units(g) = Units(f) \cup Unit(g, x)
    BY DEF Units, Unit
  <1>7. Units(f) \cap Unit(g, x) = {}
    BY DEF Units, Unit
  <1>8. Cardinality(Units(f) \cap Unit(g, x)) = 0
    BY <1>7, FS_EmptySet
  <1>9. Cardinality(Units(f) \cup Unit(g, x)) = Cardinality(Units(f)) + Cardinality(Unit(g, x)) - 0
    BY <1>3, <1>5, <1>8, FS_Union
  <1> QED  BY <1>3, <1>4, <1>5, <1>6, <1>9

\* One value changed.
LEMMA TotalChange ==
    ASSUME NEW S, IsFiniteSet(S), NEW f, NEW g, DOMAIN f = S, DOMAIN g = S,
           \A y \in S : f[y] \in Nat, \A y \in S : g[y] \in Nat,
           NEW x \in S, \A y \in S : y # x => g[y] = f[y]
    PROVE  /\ Total(f) \in Nat /\ Total(g) \in Nat
           /\ Total(g) = Total(f) + g[x] - f[x]
  <1> DEFINE h == [y \in S \ {x} |-> f[y]]
  <1>1. DOMAIN h = S \ {x} /\ \A y \in S \ {x} : h[y] = f[y] /\ h[y] = g[y] /\ h[y] \in Nat
    OBVIOUS
  <1> HIDE DEF h
  <1>2. IsFiniteSet(DOMAIN h)
    BY <1>1, FS_RemoveElement
  <1>3. S = DOMAIN h \cup {x} /\ x \notin DOMAIN h /\ \A y \in DOMAIN h : h[y] \in Nat
    BY <1>1
  <1>4. Total(f) = Total(h) + f[x]
    <2>1. DOMAIN f = DOMAIN h \cup {x} /\ f[x] \in Nat /\ \A y \in DOMAIN h : f[y] = h[y]
      BY <1>1, <1>3
    <2> QED  BY <1>2, <1>3, <2>1, TotalExtend
  <1>5. Total(g) = Total(h) + g[x]
    <2>1. DOMAIN g = DOMAIN h \cup {x} /\ g[x] \in Nat /\ \A y \in DOMAIN h : g[y] = h[y]
      BY <1>1, <1>3
    <2> QED  BY <1>2, <1>3, <2>1, TotalExtend
  <1>6. Total(h) \in Nat
    BY <1>2, <1>3, TotalType
  <1>7. f[x] \in Nat /\ g[x] \in Nat
    OBVIOUS
  <1> QED  BY <1>4, <1>5, <1>6, <1>7

\* A sum of zeros.
LEMMA TotalZero ==
    ASSUME NEW f, \A x \in DOMAIN f : f[x] = 0
    PROVE  Total(f) = 0
  <1>1. \A x \in DOMAIN f : Unit(f, x) = {}
    BY DEF Unit
  <1>2. Units(f) = {}
    BY <1>1 DEF Units
  <1>3. Total(f) = Cardinality(Units(f))
    BY DEF Total, Units, Unit
  <1> QED  BY <1>2, <1>3, FS_EmptySet

\* The first of a list of numbers taken away.
LEMMA TotalTail ==
    ASSUME NEW n \in Nat, NEW f, DOMAIN f = 1 .. n + 1, \A k \in 1 .. n + 1 : f[k] \in Nat,
           NEW g, DOMAIN g = 1 .. n, \A k \in 1 .. n : g[k] = f[k + 1]
    PROVE  Total(g) \in Nat /\ Total(f) = Total(g) + f[1]
  <1> DEFINE h == [k \in 2 .. n + 1 |-> f[k]]
             shift == [z \in Units(g) |-> <<z[1] + 1, z[2]>>]
  <1>1. DOMAIN h = 2 .. n + 1 /\ \A k \in 2 .. n + 1 : h[k] = f[k] /\ h[k] \in Nat
    OBVIOUS
  <1>2. \A k \in 1 .. n : k + 1 \in 2 .. n + 1 /\ g[k] = h[k + 1] /\ g[k] \in Nat
    BY <1>1
  <1>3. \A k \in 2 .. n + 1 : k - 1 \in 1 .. n /\ (k - 1) + 1 = k
    OBVIOUS
  <1> HIDE DEF h
  <1>4. IsFiniteSet(DOMAIN g) /\ IsFiniteSet(DOMAIN h)
    BY <1>1, FS_Interval
  <1>5. /\ IsFiniteSet(Units(g)) /\ Total(g) = Cardinality(Units(g)) /\ Total(g) \in Nat
    BY <1>2, <1>4, TotalType
  <1>6. Total(h) = Cardinality(Units(h))
    BY <1>1, <1>4, TotalType
  <1>7. \A z : z \in Units(g) <=> \E k \in 1 .. n : \E u \in 1 .. g[k] : z = <<k, u>>
    BY DEF Units, Unit
  <1>8. \A z : z \in Units(h) <=> \E k \in 2 .. n + 1 : \E u \in 1 .. h[k] : z = <<k, u>>
    BY <1>1 DEF Units, Unit
  <1>9. shift \in Bijection(Units(g), Units(h))
    <2>1. \A z \in Units(g) : <<z[1] + 1, z[2]>> \in Units(h)
      <3> SUFFICES ASSUME NEW z \in Units(g) PROVE <<z[1] + 1, z[2]>> \in Units(h)
        OBVIOUS
      <3>1. PICK k \in 1 .. n : \E u \in 1 .. g[k] : z = <<k, u>>
        BY <1>7
      <3>4. PICK u \in 1 .. g[k] : z = <<k, u>>
        BY <3>1
      <3>2. k + 1 \in 2 .. n + 1 /\ u \in 1 .. h[k + 1]
        BY <1>2
      <3>3. <<z[1] + 1, z[2]>> = <<k + 1, u>>
        BY <3>4
      <3> QED  BY <1>8, <3>2, <3>3
    <2>2. \A y, z \in Units(g) : <<y[1] + 1, y[2]>> = <<z[1] + 1, z[2]>> => y = z
      <3> SUFFICES ASSUME NEW y \in Units(g), NEW z \in Units(g),
                          <<y[1] + 1, y[2]>> = <<z[1] + 1, z[2]>>
                   PROVE  y = z
        OBVIOUS
      <3>1. PICK k \in 1 .. n : \E u \in 1 .. g[k] : y = <<k, u>>
        BY <1>7
      <3>4. PICK u \in 1 .. g[k] : y = <<k, u>>
        BY <3>1
      <3>2. PICK j \in 1 .. n : \E v \in 1 .. g[j] : z = <<j, v>>
        BY <1>7
      <3>5. PICK v \in 1 .. g[j] : z = <<j, v>>
        BY <3>2
      <3>3. k = j /\ u = v
        BY <3>4, <3>5
      <3> QED  BY <3>4, <3>5, <3>3
    <2>3. \A z \in Units(h) : \E y \in Units(g) : <<y[1] + 1, y[2]>> = z
      <3> SUFFICES ASSUME NEW z \in Units(h) PROVE \E y \in Units(g) : <<y[1] + 1, y[2]>> = z
        OBVIOUS
      <3>1. PICK k \in 2 .. n + 1 : \E u \in 1 .. h[k] : z = <<k, u>>
        BY <1>8
      <3>6. PICK u \in 1 .. h[k] : z = <<k, u>>
        BY <3>1
      <3>2. k - 1 \in 1 .. n /\ (k - 1) + 1 = k
        BY <1>3
      <3>3. u \in 1 .. g[k - 1]
        BY <1>2, <3>2
      <3>4. <<k - 1, u>> \in Units(g)
        BY <1>7, <3>2, <3>3
      <3>5. << <<k - 1, u>>[1] + 1, <<k - 1, u>>[2] >> = z
        BY <3>2, <3>6
      <3> QED  BY <3>4, <3>5
    <2>4. shift \in [Units(g) -> Units(h)] /\ \A z \in Units(g) : shift[z] = <<z[1] + 1, z[2]>>
      BY <2>1
    <2> HIDE DEF shift
    <2>5. \A y, z \in Units(g) : shift[y] = shift[z] => y = z
      BY <2>2, <2>4
    <2>6. \A z \in Units(h) : \E y \in Units(g) : shift[y] = z
      BY <2>3, <2>4
    <2> QED  BY <2>4, <2>5, <2>6 DEF Bijection, Injection, Surjection, IsInjective
  <1> HIDE DEF shift
  <1>10. ExistsBijection(Units(g), Units(h))
    BY <1>9 DEF ExistsBijection
  <1>11. Cardinality(Units(h)) = Cardinality(Units(g))
    BY <1>5, <1>10, FS_Bijection
  <1>12. DOMAIN f = DOMAIN h \cup {1} /\ 1 \notin DOMAIN h /\ f[1] \in Nat
    BY <1>1
  <1>13. \A y \in DOMAIN h : f[y] = h[y] /\ h[y] \in Nat
    BY <1>1
  <1>14. Total(f) = Total(h) + f[1]
    <2>1. IsFiniteSet(DOMAIN h) /\ \A y \in DOMAIN h : h[y] \in Nat
      BY <1>4, <1>13
    <2>2. \A y \in DOMAIN h : f[y] = h[y]
      BY <1>13
    <2>3. ASSUME NEW x, x = 1 PROVE Total(f) = Total(h) + f[x]
      <3>1. x \notin DOMAIN h /\ DOMAIN f = DOMAIN h \cup {x} /\ f[x] \in Nat
        BY <1>12, <2>3
      <3> QED  BY <2>1, <2>2, <3>1, TotalExtend
    <2> QED  BY <2>3
  <1> QED  BY <1>5, <1>6, <1>11, <1>14


-----------------------------------------------------------------------------
(* The collator and the buffers in it.                                        *)

Collators ==
    [state : {"none", "attached", "detached", "destroyed"},
     mapping : [Messages -> Sequencers \cup {None}],
     queue : Seq([msg : Messages, seq : Sequencers]),
     sem : Nat, error : BOOLEAN, memLimitExceeded : BOOLEAN]

\* None is none of the values it stands in for.
LEMMA NoneIsApart ==
    None \notin Buffers /\ None \notin Sequencers /\ None \notin Results
  BY NoneAssumption

\* The elements of a list.
LEMMA ElementOf ==
    ASSUME NEW S, NEW q \in Seq(S)
    PROVE  Len(q) \in Nat /\ DOMAIN q = 1 .. Len(q) /\ \A k \in 1 .. Len(q) : q[k] \in S
  OBVIOUS

\* The fields of a collator.
LEMMA CollatorFields ==
    ASSUME NEW c \in Collators
    PROVE  /\ c.state \in {"none", "attached", "detached", "destroyed"}
           /\ c.mapping \in [Messages -> Sequencers \cup {None}]
           /\ c.queue \in Seq([msg : Messages, seq : Sequencers])
           /\ c.sem \in Nat /\ c.error \in BOOLEAN /\ c.memLimitExceeded \in BOOLEAN
           /\ Len(c.queue) \in Nat
           /\ \A k \in 1 .. Len(c.queue) : c.queue[k].msg \in Messages /\ c.queue[k].seq \in Sequencers
  <1>1. /\ c.state \in {"none", "attached", "detached", "destroyed"}
        /\ c.mapping \in [Messages -> Sequencers \cup {None}]
        /\ c.queue \in Seq([msg : Messages, seq : Sequencers])
        /\ c.sem \in Nat /\ c.error \in BOOLEAN /\ c.memLimitExceeded \in BOOLEAN
    BY DEF Collators
  <1>2. Len(c.queue) \in Nat
    BY <1>1
  <1>3. \A k \in 1 .. Len(c.queue) : c.queue[k] \in [msg : Messages, seq : Sequencers]
    <2> DEFINE E == [msg : Messages, seq : Sequencers]
               q == c.queue
    <2>1. q \in Seq(E)
      BY <1>1
    <2> HIDE DEF E, q
    <2>2. \A k \in 1 .. Len(q) : q[k] \in E
      BY <2>1, ElementOf
    <2> QED  BY <2>2 DEF E, q
  <1> QED  BY <1>1, <1>2, <1>3

\* The buffers in a sequencer or in none.
Size(s) == IF s = None THEN 0 ELSE Len(s.list)

MappingSizes(mapping) == [m \in Messages |-> Size(mapping[m])]

QueueSizes(queue) == [k \in DOMAIN queue |-> Len(queue[k].seq.list)]

\* The sum for the messages that are not complete.
LEMMA MappingTotal ==
    ASSUME NEW f \in [Messages -> Sequencers \cup {None}]
    PROVE  /\ Total(MappingSizes(f)) \in Nat /\ DOMAIN MappingSizes(f) = Messages
           /\ \A m \in Messages : MappingSizes(f)[m] = Size(f[m]) /\ Size(f[m]) \in Nat
  <1>1. \A m \in Messages : Size(f[m]) \in Nat
    BY SequencerFields DEF Size
  <1>2. DOMAIN MappingSizes(f) = Messages /\ \A m \in Messages : MappingSizes(f)[m] = Size(f[m])
    BY DEF MappingSizes
  <1>3. IsFiniteSet(DOMAIN MappingSizes(f)) /\ \A m \in DOMAIN MappingSizes(f) : MappingSizes(f)[m] \in Nat
    BY <1>1, <1>2, CollatorAssumption
  <1>4. Total(MappingSizes(f)) \in Nat
    BY <1>3, TotalType
  <1> QED  BY <1>1, <1>2, <1>4

\* The sum for the messages that are.
LEMMA QueueTotal ==
    ASSUME NEW q \in Seq([msg : Messages, seq : Sequencers])
    PROVE  /\ Total(QueueSizes(q)) \in Nat /\ DOMAIN QueueSizes(q) = 1 .. Len(q) /\ Len(q) \in Nat
           /\ \A k \in 1 .. Len(q) : /\ QueueSizes(q)[k] = Len(q[k].seq.list)
                                     /\ Len(q[k].seq.list) \in Nat
  <1>1. \A k \in 1 .. Len(q) : q[k] \in [msg : Messages, seq : Sequencers]
    <2> DEFINE E == [msg : Messages, seq : Sequencers]
    <2>1. q \in Seq(E)
      OBVIOUS
    <2> HIDE DEF E
    <2>2. \A k \in 1 .. Len(q) : q[k] \in E
      BY <2>1, ElementOf
    <2> QED  BY <2>2 DEF E
  <1>2. \A k \in 1 .. Len(q) : Len(q[k].seq.list) \in Nat
    BY <1>1, SequencerFields
  <1>3. DOMAIN q = 1 .. Len(q) /\ Len(q) \in Nat
    OBVIOUS
  <1>4. DOMAIN QueueSizes(q) = 1 .. Len(q) /\ \A k \in 1 .. Len(q) : QueueSizes(q)[k] = Len(q[k].seq.list)
    BY <1>3 DEF QueueSizes
  <1>5. IsFiniteSet(DOMAIN QueueSizes(q)) /\ \A k \in DOMAIN QueueSizes(q) : QueueSizes(q)[k] \in Nat
    <2>1. IsFiniteSet(1 .. Len(q))
      BY <1>3, FS_Interval
    <2> QED  BY <1>2, <1>4, <2>1
  <1>6. Total(QueueSizes(q)) \in Nat
    BY <1>5, TotalType
  <1> QED  BY <1>2, <1>3, <1>4, <1>6

\* The buffers in a collator are those of its two parts.
LEMMA BuffersInParts ==
    ASSUME NEW c \in Collators
    PROVE  /\ BuffersIn(c) = Total(MappingSizes(c.mapping)) + Total(QueueSizes(c.queue))
           /\ Total(MappingSizes(c.mapping)) \in Nat /\ Total(QueueSizes(c.queue)) \in Nat
           /\ BuffersIn(c) \in Nat
  <1>1. BuffersIn(c) = Total(MappingSizes(c.mapping)) + Total(QueueSizes(c.queue))
    BY DEF BuffersIn, MappingSizes, QueueSizes, Size
  <1>2. Total(MappingSizes(c.mapping)) \in Nat
    BY CollatorFields, MappingTotal
  <1>3. Total(QueueSizes(c.queue)) \in Nat
    BY CollatorFields, QueueTotal
  <1> QED  BY <1>1, <1>2, <1>3

\* One sequencer changed.
LEMMA MappingChange ==
    ASSUME NEW f \in [Messages -> Sequencers \cup {None}], NEW m \in Messages,
           NEW s \in Sequencers \cup {None}
    PROVE  /\ Total(MappingSizes(f)) \in Nat /\ Size(s) \in Nat /\ Size(f[m]) \in Nat
           /\ Total(MappingSizes([f EXCEPT ![m] = s])) = Total(MappingSizes(f)) + Size(s) - Size(f[m])
  <1> DEFINE g == [f EXCEPT ![m] = s]
             F == MappingSizes(f)
             G == MappingSizes(g)
  <1>1. g \in [Messages -> Sequencers \cup {None}] /\ g[m] = s /\ \A x \in Messages : x # m => g[x] = f[x]
    OBVIOUS
  <1> HIDE DEF g
  <1>2. /\ Total(F) \in Nat /\ DOMAIN F = Messages
        /\ \A x \in Messages : F[x] = Size(f[x]) /\ Size(f[x]) \in Nat
    BY MappingTotal
  <1>3. /\ Total(G) \in Nat /\ DOMAIN G = Messages
        /\ \A x \in Messages : G[x] = Size(g[x]) /\ Size(g[x]) \in Nat
    BY <1>1, MappingTotal
  <1> HIDE DEF F, G
  <1>4. /\ \A y \in Messages : F[y] \in Nat
        /\ \A y \in Messages : G[y] \in Nat
        /\ \A y \in Messages : y # m => G[y] = F[y]
    BY <1>1, <1>2, <1>3
  <1>5. IsFiniteSet(Messages)
    BY CollatorAssumption
  <1>6. Total(G) = Total(F) + G[m] - F[m]
    BY <1>2, <1>3, <1>4, <1>5, TotalChange
  <1>7. G[m] = Size(s) /\ F[m] = Size(f[m])
    BY <1>1, <1>2, <1>3
  <1> QED  BY <1>1, <1>2, <1>3, <1>6, <1>7 DEF F, G, g

\* One complete message more.
LEMMA QueueAppend ==
    ASSUME NEW q \in Seq([msg : Messages, seq : Sequencers]), NEW m \in Messages, NEW s \in Sequencers
    PROVE  /\ Append(q, [msg |-> m, seq |-> s]) \in Seq([msg : Messages, seq : Sequencers])
           /\ Len(Append(q, [msg |-> m, seq |-> s])) = Len(q) + 1 /\ Len(q) \in Nat /\ Len(s.list) \in Nat
           /\ Total(QueueSizes(Append(q, [msg |-> m, seq |-> s]))) = Total(QueueSizes(q)) + Len(s.list)
  <1> DEFINE r == Append(q, [msg |-> m, seq |-> s])
             F == QueueSizes(q)
             G == QueueSizes(r)
  <1>1. /\ r \in Seq([msg : Messages, seq : Sequencers]) /\ Len(r) = Len(q) + 1 /\ Len(q) \in Nat
        /\ r[Len(q) + 1] = [msg |-> m, seq |-> s] /\ \A k \in 1 .. Len(q) : r[k] = q[k]
    OBVIOUS
  <1> HIDE DEF r
  <1>2. /\ Total(F) \in Nat /\ DOMAIN F = 1 .. Len(q)
        /\ \A k \in 1 .. Len(q) : F[k] = Len(q[k].seq.list) /\ Len(q[k].seq.list) \in Nat
    BY QueueTotal
  <1>3. /\ Total(G) \in Nat /\ DOMAIN G = 1 .. Len(r)
        /\ \A k \in 1 .. Len(r) : G[k] = Len(r[k].seq.list) /\ Len(r[k].seq.list) \in Nat
    BY <1>1, QueueTotal
  <1> HIDE DEF F, G
  <1>4. PICK x \in Nat : x = Len(q) + 1
    BY <1>1
  <1>5. x \notin DOMAIN F /\ DOMAIN G = DOMAIN F \cup {x} /\ x \in 1 .. Len(r)
    BY <1>1, <1>2, <1>3, <1>4
  <1>6. r[x].seq = s
    BY <1>1, <1>4
  <1>7. G[x] \in Nat /\ G[x] = Len(s.list)
    BY <1>3, <1>5, <1>6
  <1>8. \A y \in DOMAIN F : y \in 1 .. Len(r) /\ r[y] = q[y]
    BY <1>1, <1>2
  <1>9. \A y \in DOMAIN F : G[y] = F[y] /\ F[y] \in Nat
    BY <1>2, <1>3, <1>8
  <1>10. IsFiniteSet(DOMAIN F)
    BY <1>1, <1>2, FS_Interval
  <1>11. Total(G) = Total(F) + G[x]
    BY <1>5, <1>7, <1>9, <1>10, TotalExtend
  <1> QED  BY <1>1, <1>7, <1>11 DEF F, G, r

\* The first one taken.
LEMMA QueueTail ==
    ASSUME NEW q \in Seq([msg : Messages, seq : Sequencers]), q # <<>>
    PROVE  /\ Tail(q) \in Seq([msg : Messages, seq : Sequencers])
           /\ Len(Tail(q)) = Len(q) - 1 /\ Len(q) \in Nat /\ Len(q) > 0 /\ Head(q) = q[1]
           /\ \A k \in 1 .. Len(Tail(q)) : Tail(q)[k] = q[k + 1] /\ k + 1 \in 1 .. Len(q)
           /\ Total(QueueSizes(Tail(q))) \in Nat
           /\ Total(QueueSizes(q)) = Total(QueueSizes(Tail(q))) + Len(Head(q).seq.list)
  <1> DEFINE r == Tail(q)
             F == QueueSizes(q)
             G == QueueSizes(r)
  <1>1. /\ r \in Seq([msg : Messages, seq : Sequencers]) /\ Len(r) = Len(q) - 1 /\ Len(q) \in Nat
        /\ Len(q) > 0 /\ Head(q) = q[1] /\ \A k \in 1 .. Len(r) : r[k] = q[k + 1]
    OBVIOUS
  <1> HIDE DEF r
  <1>2. PICK n \in Nat : n = Len(r) /\ Len(q) = n + 1
    BY <1>1
  <1>3. /\ Total(F) \in Nat /\ DOMAIN F = 1 .. Len(q)
        /\ \A k \in 1 .. Len(q) : F[k] = Len(q[k].seq.list) /\ Len(q[k].seq.list) \in Nat
    BY QueueTotal
  <1>4. /\ Total(G) \in Nat /\ DOMAIN G = 1 .. Len(r)
        /\ \A k \in 1 .. Len(r) : G[k] = Len(r[k].seq.list) /\ Len(r[k].seq.list) \in Nat
    BY <1>1, QueueTotal
  <1> HIDE DEF F, G
  <1>5. /\ DOMAIN F = 1 .. n + 1 /\ \A k \in 1 .. n + 1 : F[k] \in Nat
        /\ DOMAIN G = 1 .. n
    BY <1>2, <1>3, <1>4
  <1>6. \A k \in 1 .. n : k + 1 \in 1 .. n + 1 /\ G[k] = F[k + 1]
    <2> SUFFICES ASSUME NEW k \in 1 .. n PROVE k + 1 \in 1 .. n + 1 /\ G[k] = F[k + 1]
      OBVIOUS
    <2>1. k + 1 \in 1 .. n + 1
      OBVIOUS
    <2>2. r[k] = q[k + 1]
      BY <1>1, <1>2
    <2>3. G[k] = Len(r[k].seq.list) /\ F[k + 1] = Len(q[k + 1].seq.list)
      BY <1>2, <1>3, <1>4, <2>1
    <2> QED  BY <2>1, <2>2, <2>3
  <1>7. Total(F) = Total(G) + F[1]
    BY <1>5, <1>6, TotalTail
  <1>8. F[1] = Len(Head(q).seq.list)
    <2>1. 1 \in 1 .. Len(q)
      BY <1>1
    <2> QED  BY <1>1, <1>3, <2>1
  <1>9. \A k \in 1 .. Len(r) : r[k] = q[k + 1] /\ k + 1 \in 1 .. Len(q)
    BY <1>1
  <1> QED  BY <1>1, <1>4, <1>7, <1>8, <1>9 DEF F, G, r


-----------------------------------------------------------------------------
(* The inductive invariant.                                                   *)

\* A buffer holds a packet of its message, sent again or not.
IsPacket(b) == \E k \in 0 .. Packets[b.msg] - 1, resent \in BOOLEAN : b.seq = PktSeq(b.msg, k, resent)

AllArePackets(q) == \A k \in 1 .. Len(q) : IsPacket(q[k])

\* The packets of message m that have come, some still missing.
Partial(m, s) == Ordered(m, s) /\ s.contiguous < Packets[m] /\ Len(s.list) > 0

\* All of them.
Whole(m, s) == Ordered(m, s) /\ s.contiguous = Packets[m] /\ Len(s.list) = Packets[m]

\* The messages of a collator, in the mapping and on the queue.
MappingOK(mapping) == \A m \in Messages : mapping[m] # None => Partial(m, mapping[m])
QueueOK(queue) == \A k \in 1 .. Len(queue) : Whole(queue[k].msg, queue[k].seq)

\* A result that is read up to pos.
Readable(r) ==
    /\ Len(r.seq.list) = Packets[r.msg] /\ r.pos <= Packets[r.msg] + 1
    /\ r.seq.avail = Packets[r.msg] + 1 - r.pos
    /\ \A i \in 1 .. Packets[r.msg] : Number(r.seq.list[i]) = i - 1

\* The variables have their types, and the collator has no other fields.
Typed ==
    /\ inputQueue \in Seq(Buffers) /\ dataAvail \in Nat /\ pushing \in BOOLEAN
    /\ cpc \in {"pop", "lookup", "attach", "discard", "signal"}
    /\ buffer \in Buffers \cup {None}
    /\ coll \in Collators
    /\ qpc \in {"idle", "wait", "expired", "front", "reading", "stopped", "detached"}
    /\ result \in Results \cup {None}
    /\ arrivals \in [AllPackets -> Nat] /\ freed \in Nat
    /\ results \in [Messages -> Nat] /\ lost \in BOOLEAN

\* What is queued, held, collected, complete and read is what it should be.
Contents ==
    /\ AllArePackets(inputQueue)
    /\ buffer # None => IsPacket(buffer)
    /\ MappingOK(coll.mapping) /\ QueueOK(coll.queue)
    /\ result # None => Readable(result)

\* Where the threads are, and who has a link to the collator.
Control ==
    /\ buffer # None <=> cpc \in {"lookup", "attach", "discard"}
    /\ result # None <=> qpc = "reading"
    /\ cpc \in {"attach", "signal"} => coll.state \in {"attached", "detached"}
    /\ coll.state = "detached" => cpc \in {"attach", "signal"}
    /\ qpc = "detached" <=> coll.state \in {"detached", "destroyed"}

\* The token of an interrupt that is not thrown yet.
ErrorToken(c) == IF c.error THEN 1 ELSE 0

\* Every token stands for a buffer or a result.
Balanced ==
    /\ dataAvail + (IF pushing THEN 1 ELSE 0) = Len(inputQueue)
    /\ qpc \notin {"stopped", "detached"} =>
         coll.sem + (IF cpc = "signal" THEN 1 ELSE 0) + (IF qpc = "front" THEN 1 ELSE 0)
           = Len(coll.queue) + ErrorToken(coll)

Inv == Typed /\ Contents /\ Control /\ Balanced /\ BuffersConserved

\* It is one or none.
LEMMA ErrorTokenType ==
    ASSUME NEW c
    PROVE  ErrorToken(c) \in {0, 1}
  BY Zenon DEF ErrorToken

\* The collator destroyed.
LEMMA Destroyed ==
    ASSUME NEW c, c = [NewCollator EXCEPT !.state = "destroyed"]
    PROVE  /\ c \in Collators /\ c.state = "destroyed" /\ MappingOK(c.mapping) /\ QueueOK(c.queue)
           /\ BuffersIn(c) = 0
  <1>1. /\ c.state = "destroyed" /\ c.mapping = [m \in Messages |-> None] /\ c.queue = <<>>
        /\ c.sem = 0 /\ c.error = FALSE /\ c.memLimitExceeded = FALSE
    BY DEF NewCollator
  <1>2. c \in Collators
    <2>1. c = [state |-> "destroyed", mapping |-> [m \in Messages |-> None], queue |-> <<>>, sem |-> 0,
               error |-> FALSE, memLimitExceeded |-> FALSE]
      BY DEF NewCollator
    <2>2. [m \in Messages |-> None] \in [Messages -> Sequencers \cup {None}]
      OBVIOUS
    <2>3. <<>> \in Seq([msg : Messages, seq : Sequencers])
      OBVIOUS
    <2>4. ASSUME NEW f \in [Messages -> Sequencers \cup {None}],
                 NEW q \in Seq([msg : Messages, seq : Sequencers])
          PROVE  [state |-> "destroyed", mapping |-> f, queue |-> q, sem |-> 0,
                  error |-> FALSE, memLimitExceeded |-> FALSE] \in Collators
      BY DEF Collators
    <2> QED  BY <2>1, <2>2, <2>3, <2>4
  <1>3. MappingOK(c.mapping) /\ QueueOK(c.queue)
    BY <1>1 DEF MappingOK, QueueOK
  <1>4. Total(MappingSizes(c.mapping)) = 0
    <2>1. \A m \in DOMAIN MappingSizes(c.mapping) : MappingSizes(c.mapping)[m] = 0
      BY <1>1 DEF MappingSizes, Size
    <2> QED  BY <2>1, TotalZero
  <1>5. Total(QueueSizes(c.queue)) = 0
    <2>1. \A k \in DOMAIN QueueSizes(c.queue) : QueueSizes(c.queue)[k] = 0
      BY <1>1 DEF QueueSizes
    <2> QED  BY <2>1, TotalZero
  <1>6. BuffersIn(c) = Total(MappingSizes(c.mapping)) + Total(QueueSizes(c.queue))
    BY <1>2, BuffersInParts
  <1> QED  BY <1>1, <1>2, <1>3, <1>4, <1>5, <1>6

\* A collator that loses its last link releases its buffers, another one keeps them.
LEMMA UnlinkedKeeps ==
    ASSUME NEW c \in Collators, MappingOK(c.mapping), QueueOK(c.queue), NEW n \in Nat,
           freed \in Nat, Unlinked(c, n)
    PROVE  /\ coll' \in Collators /\ MappingOK(coll'.mapping) /\ QueueOK(coll'.queue)
           /\ BuffersIn(c) \in Nat /\ BuffersIn(coll') \in Nat /\ freed' \in Nat
           /\ freed' + BuffersIn(coll') = freed + n + BuffersIn(c)
           /\ c.state = "detached" => coll'.state = "destroyed"
           /\ c.state # "detached" => coll' = c
  <1>1. BuffersIn(c) \in Nat
    BY BuffersInParts
  <1>2. CASE c.state = "detached"
    <2>1. coll' = [NewCollator EXCEPT !.state = "destroyed"] /\ freed' = freed + n + BuffersIn(c)
      BY <1>2 DEF Unlinked
    <2>2. /\ coll' \in Collators /\ coll'.state = "destroyed" /\ MappingOK(coll'.mapping)
          /\ QueueOK(coll'.queue) /\ BuffersIn(coll') = 0
      BY <2>1, Destroyed
    <2>3. freed' = freed + n + BuffersIn(c)
      BY <2>1
    <2> QED  BY <1>1, <1>2, <2>2, <2>3
  <1>3. CASE c.state # "detached"
    <2>1. coll' = c /\ freed' = freed + n
      BY <1>3 DEF Unlinked
    <2>2. BuffersIn(coll') = BuffersIn(c) /\ coll' \in Collators /\ MappingOK(coll'.mapping) /\ QueueOK(coll'.queue)
      BY <2>1
    <2> QED  BY <1>1, <1>3, <2>1, <2>2
  <1> QED  BY <1>2, <1>3

\* The packets are finitely many.
LEMMA PacketsFinite ==
    IsFiniteSet(AllPackets)
  <1>1. IsFiniteSet(Messages) /\ RESENT \in Nat
    BY CollatorAssumption, SequencerAssumption
  <1>2. IsFiniteSet(0 .. RESENT - 1)
    BY <1>1, FS_Interval
  <1>3. IsFiniteSet(Messages \X (0 .. RESENT - 1))
    BY <1>1, <1>2, FS_Product
  <1>4. AllPackets \in SUBSET (Messages \X (0 .. RESENT - 1))
    BY DEF AllPackets
  <1> QED  BY <1>3, <1>4, FS_Subset

\* The sums that the invariant counts with.
LEMMA Sums ==
    ASSUME Typed
    PROVE  /\ Arrived \in Nat /\ BuffersIn(coll) \in Nat /\ freed \in Nat /\ Len(inputQueue) \in Nat
           /\ result # None => Len(result.seq.list) \in Nat
  <1>1. Arrived \in Nat
    <2>1. IsFiniteSet(AllPackets)
      BY PacketsFinite
    <2>2. IsFiniteSet(DOMAIN arrivals) /\ \A x \in DOMAIN arrivals : arrivals[x] \in Nat
      BY <2>1 DEF Typed
    <2> QED  BY <2>2, TotalType DEF Arrived
  <1>2. BuffersIn(coll) \in Nat
    BY BuffersInParts DEF Typed
  <1>3. result # None => Len(result.seq.list) \in Nat
    <2> SUFFICES ASSUME result # None PROVE Len(result.seq.list) \in Nat
      OBVIOUS
    <2>1. result.seq \in Sequencers
      BY DEF Typed, Results
    <2> QED  BY <2>1, SequencerFields
  <1>4. freed \in Nat /\ Len(inputQueue) \in Nat
    BY DEF Typed
  <1> QED  BY <1>1, <1>2, <1>3, <1>4


-----------------------------------------------------------------------------
(* The steps of receive_data.                                                 *)

\* The buffers of a collator depend on its messages only.
LEMMA SameBuffers ==
    ASSUME NEW c \in Collators, NEW d \in Collators, d.mapping = c.mapping, d.queue = c.queue
    PROVE  BuffersIn(d) = BuffersIn(c)
  <1>1. BuffersIn(c) = Total(MappingSizes(c.mapping)) + Total(QueueSizes(c.queue))
    BY BuffersInParts
  <1>2. BuffersIn(d) = Total(MappingSizes(d.mapping)) + Total(QueueSizes(d.queue))
    BY BuffersInParts
  <1> QED  BY <1>1, <1>2

\* One more packet has arrived.
LEMMA ArrivedOneMore ==
    ASSUME Typed, NEW x \in AllPackets, arrivals' = [arrivals EXCEPT ![x] = @ + 1]
    PROVE  Arrived' = Arrived + 1 /\ arrivals' \in [AllPackets -> Nat]
  <1>1. IsFiniteSet(AllPackets)
    BY PacketsFinite
  <1>2. arrivals \in [AllPackets -> Nat]
    BY DEF Typed
  <1>3. /\ DOMAIN arrivals = AllPackets /\ \A y \in AllPackets : arrivals[y] \in Nat
        /\ DOMAIN arrivals' = AllPackets /\ \A y \in AllPackets : arrivals'[y] \in Nat
        /\ arrivals'[x] = arrivals[x] + 1 /\ \A y \in AllPackets : y # x => arrivals'[y] = arrivals[y]
        /\ arrivals' \in [AllPackets -> Nat]
    BY <1>2
  <1>4. /\ Total(arrivals) \in Nat
        /\ Total(arrivals') = Total(arrivals) + arrivals'[x] - arrivals[x]
    <2>1. ASSUME NEW f, f = arrivals, NEW g, g = arrivals'
          PROVE  /\ Total(f) \in Nat /\ Total(g) \in Nat
                 /\ Total(g) = Total(f) + g[x] - f[x]
      <3>1. /\ DOMAIN f = AllPackets /\ \A y \in AllPackets : f[y] \in Nat
            /\ DOMAIN g = AllPackets /\ \A y \in AllPackets : g[y] \in Nat
            /\ \A y \in AllPackets : y # x => g[y] = f[y]
        BY <1>3, <2>1
      <3> QED  BY <1>1, <3>1, TotalChange
    <2> QED  BY <2>1
  <1>5. Arrived = Total(arrivals) /\ Arrived' = Total(arrivals')
    BY DEF Arrived
  <1>6. arrivals[x] \in Nat
    BY <1>3
  <1> QED  BY <1>3, <1>4, <1>5, <1>6

\* A packet is pushed.
LEMMA StepPushOwn ==
    ASSUME Inv, NEW x \in AllPackets, NEW resent \in BOOLEAN, NEW duplicate \in BOOLEAN,
           PushOwn(x[1], x[2], resent, duplicate)
    PROVE  Inv'
  <1> DEFINE b == [msg |-> x[1], seq |-> PktSeq(x[1], x[2], resent), duplicate |-> duplicate]
  <1>1. Typed /\ Contents /\ Control /\ Balanced /\ BuffersConserved
    BY DEF Inv
  <1>2. /\ x[1] \in Messages /\ x[2] \in 0 .. Packets[x[1]] - 1 /\ x = <<x[1], x[2]>>
    <2>1. x \in Messages \X (0 .. RESENT - 1) /\ x[2] < Packets[x[1]]
      BY DEF AllPackets
    <2>2. x[1] \in Messages /\ x[2] \in 0 .. RESENT - 1 /\ x = <<x[1], x[2]>>
      BY <2>1
    <2>3. RESENT \in Nat /\ Packets[x[1]] \in Nat
      BY <2>2, Fields
    <2> QED  BY <2>1, <2>2, <2>3
  <1>3. /\ ~pushing /\ inputQueue' = Append(inputQueue, b) /\ pushing' = TRUE
        /\ arrivals' = [arrivals EXCEPT ![x] = @ + 1]
        /\ UNCHANGED <<dataAvail, cpc, buffer, coll, qpc, result, freed, results, lost>>
    BY <1>2 DEF PushOwn
  <1>4. b \in Buffers /\ IsPacket(b)
    <2>1. PktSeq(x[1], x[2], resent) \in 0 .. 2 * COMPLETE - 1
      BY <1>2, Coding
    <2>2. b \in Buffers
      BY <1>2, <2>1 DEF Buffers
    <2>3. b.msg = x[1] /\ b.seq = PktSeq(x[1], x[2], resent)
      OBVIOUS
    <2> HIDE DEF b
    <2>4. IsPacket(b)
      BY <1>2, <2>3 DEF IsPacket
    <2> QED  BY <2>2, <2>4
  <1> HIDE DEF b
  <1>5. inputQueue \in Seq(Buffers)
    BY <1>1 DEF Typed
  <1>6. /\ inputQueue' \in Seq(Buffers) /\ Len(inputQueue') = Len(inputQueue) + 1 /\ Len(inputQueue) \in Nat
        /\ inputQueue'[Len(inputQueue) + 1] = b
        /\ \A k \in 1 .. Len(inputQueue) : inputQueue'[k] = inputQueue[k]
    BY <1>3, <1>4, <1>5
  <1>7. Arrived' = Arrived + 1 /\ arrivals' \in [AllPackets -> Nat]
    BY <1>1, <1>3, ArrivedOneMore
  <1>8. Typed'
    <2>1. pushing' \in BOOLEAN
      BY <1>3
    <2> QED  BY <1>1, <1>3, <1>6, <1>7, <2>1 DEF Typed
  <1>9. AllArePackets(inputQueue')
    <2> SUFFICES ASSUME NEW k \in 1 .. Len(inputQueue') PROVE IsPacket(inputQueue'[k])
      BY DEF AllArePackets
    <2>1. k = Len(inputQueue) + 1 \/ k \in 1 .. Len(inputQueue)
      BY <1>6
    <2> QED  BY <1>1, <1>4, <1>6, <2>1 DEF Contents, AllArePackets
  <1>10. Contents'
    BY <1>1, <1>3, <1>9 DEF Contents
  <1>11. Control'
    BY <1>1, <1>3 DEF Control
  <1>12. Balanced'
    <2>1. dataAvail = Len(inputQueue) /\ dataAvail' = dataAvail
      BY <1>1, <1>3, <1>6 DEF Balanced, Typed
    <2>2. dataAvail' + (IF pushing' THEN 1 ELSE 0) = Len(inputQueue')
      BY <1>3, <1>6, <2>1
    <2> QED  BY <1>1, <1>3, <2>2 DEF Balanced
  <1>13. BuffersConserved'
    <2>1. Arrived \in Nat /\ BuffersIn(coll) \in Nat /\ freed \in Nat
          /\ (result # None => Len(result.seq.list) \in Nat)
      BY <1>1, Sums
    <2>2. /\ BuffersIn(coll') = BuffersIn(coll) /\ freed' = freed /\ buffer' = buffer /\ result' = result
      BY <1>3
    <2>3. Len(inputQueue') = Len(inputQueue) + 1 /\ Len(inputQueue) \in Nat
      BY <1>6
    <2> QED  BY <1>1, <1>7, <2>1, <2>2, <2>3 DEF BuffersConserved
  <1> QED  BY <1>8, <1>10, <1>11, <1>12, <1>13 DEF Inv

\* The push is signalled.
LEMMA StepSignalPushed ==
    ASSUME Inv, SignalPushed
    PROVE  Inv'
  <1>1. Typed /\ Contents /\ Control /\ Balanced /\ BuffersConserved
    BY DEF Inv
  <1>2. /\ pushing /\ dataAvail' = dataAvail + 1 /\ pushing' = FALSE
        /\ UNCHANGED <<inputQueue, cpc, buffer, coll, qpc, result, arrivals, freed, results, lost>>
    BY DEF SignalPushed
  <1>3. Typed'
    <2>1. pushing' \in BOOLEAN
      BY <1>2
    <2>2. dataAvail' \in Nat
      BY <1>1, <1>2 DEF Typed
    <2> QED  BY <1>1, <1>2, <2>1, <2>2 DEF Typed
  <1>4. Contents' /\ Control'
    BY <1>1, <1>2 DEF Contents, Control
  <1>5. Balanced'
    <2>1. dataAvail + 1 = Len(inputQueue) /\ dataAvail \in Nat
      BY <1>1, <1>2 DEF Balanced, Typed
    <2>2. dataAvail' + (IF pushing' THEN 1 ELSE 0) = Len(inputQueue')
      BY <1>2, <2>1
    <2> QED  BY <1>1, <1>2, <2>2 DEF Balanced
  <1>6. BuffersConserved'
    <2>1. Arrived' = Arrived
      BY <1>2 DEF Arrived
    <2> QED  BY <1>1, <1>2, <2>1 DEF BuffersConserved
  <1> QED  BY <1>3, <1>4, <1>5, <1>6 DEF Inv

-----------------------------------------------------------------------------
(* The steps of the collator thread.                                          *)

\* A buffer is popped.
LEMMA StepPop ==
    ASSUME Inv, Pop
    PROVE  Inv'
  <1>1. Typed /\ Contents /\ Control /\ Balanced /\ BuffersConserved
    BY DEF Inv
  <1>2. /\ cpc = "pop" /\ dataAvail > 0 /\ inputQueue # <<>> /\ dataAvail' = dataAvail - 1
        /\ buffer' = Head(inputQueue) /\ inputQueue' = Tail(inputQueue) /\ cpc' = "lookup"
        /\ UNCHANGED <<pushing, coll, qpc, result, arrivals, freed, results, lost>>
    BY DEF Pop
  <1>3. inputQueue \in Seq(Buffers)
    BY <1>1 DEF Typed
  <1>4. /\ inputQueue' \in Seq(Buffers) /\ Len(inputQueue') = Len(inputQueue) - 1 /\ Len(inputQueue) \in Nat
        /\ Len(inputQueue) > 0 /\ buffer' = inputQueue[1]
        /\ \A k \in 1 .. Len(inputQueue') : inputQueue'[k] = inputQueue[k + 1] /\ k + 1 \in 1 .. Len(inputQueue)
    BY <1>2, <1>3
  <1>5. 1 \in 1 .. Len(inputQueue)
    BY <1>4
  <1>6. buffer' \in Buffers /\ buffer' # None /\ IsPacket(buffer') /\ buffer = None
    <2>1. buffer' \in Buffers
      BY <1>3, <1>4, <1>5, ElementOf
    <2>2. IsPacket(buffer')
      BY <1>1, <1>4, <1>5 DEF Contents, AllArePackets
    <2> QED  BY <1>1, <1>2, <2>1, <2>2, NoneIsApart DEF Control
  <1>7. Typed'
    <2>1. dataAvail' \in Nat
      BY <1>1, <1>2 DEF Typed
    <2> QED  BY <1>1, <1>2, <1>4, <1>6, <2>1 DEF Typed
  <1>8. Contents'
    <2>1. AllArePackets(inputQueue')
      BY <1>1, <1>4 DEF Contents, AllArePackets
    <2> QED  BY <1>1, <1>2, <1>6, <2>1 DEF Contents
  <1>9. Control'
    BY <1>1, <1>2, <1>6 DEF Control
  <1>10. Balanced'
    <2>1. dataAvail' + (IF pushing' THEN 1 ELSE 0) = Len(inputQueue')
      <3>1. pushing' = pushing /\ dataAvail' = dataAvail - 1 /\ dataAvail \in Nat
        BY <1>1, <1>2 DEF Typed
      <3>2. dataAvail + (IF pushing THEN 1 ELSE 0) = Len(inputQueue)
        BY <1>1 DEF Balanced
      <3> QED  BY <1>4, <3>1, <3>2
    <2> QED  BY <1>1, <1>2, <2>1 DEF Balanced
  <1>11. BuffersConserved'
    <2>1. Arrived' = Arrived
      BY <1>2 DEF Arrived
    <2>2. Arrived \in Nat /\ BuffersIn(coll) \in Nat /\ freed \in Nat
          /\ (result # None => Len(result.seq.list) \in Nat)
      BY <1>1, Sums
    <2>3. /\ BuffersIn(coll') = BuffersIn(coll) /\ freed' = freed /\ result' = result
      BY <1>2
    <2>4. Len(inputQueue') = Len(inputQueue) - 1 /\ Len(inputQueue) \in Nat
      BY <1>4
    <2> QED  BY <1>1, <1>6, <2>1, <2>2, <2>3, <2>4 DEF BuffersConserved
  <1> QED  BY <1>7, <1>8, <1>9, <1>10, <1>11 DEF Inv

\* The collator is looked up.
LEMMA StepLookup ==
    ASSUME Inv, Lookup
    PROVE  Inv'
  <1>1. Typed /\ Contents /\ Control /\ Balanced /\ BuffersConserved
    BY DEF Inv
  <1>2. /\ cpc = "lookup" /\ cpc' = IF coll.state = "attached" THEN "attach" ELSE "discard"
        /\ UNCHANGED <<receiveVars, buffer, coll, qpc, result, freed, results, lost>>
    BY DEF Lookup
  <1>3. UNCHANGED <<inputQueue, dataAvail, pushing, arrivals, buffer, coll, qpc, result, freed, results, lost>>
    BY <1>2 DEF receiveVars
  <1>4. Typed'
    BY <1>1, <1>2, <1>3 DEF Typed
  <1>5. Contents' /\ Control'
    BY <1>1, <1>2, <1>3 DEF Contents, Control
  <1>6. Balanced'
    BY <1>1, <1>2, <1>3 DEF Balanced
  <1>7. BuffersConserved'
    <2>1. Arrived' = Arrived
      BY <1>3 DEF Arrived
    <2> QED  BY <1>1, <1>3, <2>1 DEF BuffersConserved
  <1> QED  BY <1>4, <1>5, <1>6, <1>7 DEF Inv

\* A packet that nobody wants.
LEMMA StepDiscard ==
    ASSUME Inv, Discard
    PROVE  Inv'
  <1>1. Typed /\ Contents /\ Control /\ Balanced /\ BuffersConserved
    BY DEF Inv
  <1>2. /\ cpc = "discard" /\ cpc' = "pop" /\ freed' = freed + 1 /\ lost' = (lost \/ ~buffer.duplicate)
        /\ buffer' = None /\ UNCHANGED <<receiveVars, coll, qpc, result, results>>
    BY DEF Discard
  <1>3. UNCHANGED <<inputQueue, dataAvail, pushing, arrivals, coll, qpc, result, results>>
    BY <1>2 DEF receiveVars
  <1>4. Typed'
    <2>1. lost' \in BOOLEAN
      BY <1>2, Zenon
    <2>2. freed' \in Nat
      BY <1>1, <1>2 DEF Typed
    <2>3. buffer' \in Buffers \cup {None} /\ cpc' \in {"pop", "lookup", "attach", "discard", "signal"}
      BY <1>2
    <2> QED  BY <1>1, <1>3, <2>1, <2>2, <2>3 DEF Typed
  <1>5. Contents' /\ Control'
    <2>1. cpc = "discard" /\ cpc' = "pop" /\ buffer' = None
      BY <1>2
    <2> QED  BY <1>1, <1>3, <2>1 DEF Contents, Control
  <1>6. Balanced'
    <2>1. cpc = "discard" /\ cpc' = "pop"
      BY <1>2
    <2> QED  BY <1>1, <1>3, <2>1 DEF Balanced
  <1>7. BuffersConserved'
    <2>1. Arrived' = Arrived /\ buffer # None
      BY <1>1, <1>2, <1>3 DEF Arrived, Control
    <2>2. Arrived \in Nat /\ BuffersIn(coll) \in Nat /\ freed \in Nat /\ Len(inputQueue) \in Nat
          /\ (result # None => Len(result.seq.list) \in Nat)
      BY <1>1, Sums
    <2>3. /\ BuffersIn(coll') = BuffersIn(coll) /\ freed' = freed + 1 /\ result' = result /\ inputQueue' = inputQueue
          /\ buffer' = None
      BY <1>2, <1>3
    <2> QED  BY <1>1, <2>1, <2>2, <2>3 DEF BuffersConserved
  <1> QED  BY <1>4, <1>5, <1>6, <1>7 DEF Inv


\* The collator thread only moves buffers or releases them.
LEMMA Conservation ==
    ASSUME Typed, BuffersConserved, UNCHANGED <<arrivals, inputQueue, result>>,
           freed' \in Nat, BuffersIn(coll') \in Nat,
           freed' + BuffersIn(coll') + (IF buffer' = None THEN 0 ELSE 1)
             = freed + BuffersIn(coll) + (IF buffer = None THEN 0 ELSE 1)
    PROVE  BuffersConserved'
  <1> DEFINE h == IF result = None THEN 0 ELSE Len(result.seq.list)
             x == IF buffer = None THEN 0 ELSE 1
             y == IF buffer' = None THEN 0 ELSE 1
             i == Len(inputQueue)
  <1>1. Arrived' = Arrived
    BY DEF Arrived
  <1>2. Arrived \in Nat /\ BuffersIn(coll) \in Nat /\ freed \in Nat /\ i \in Nat /\ h \in Nat
        /\ x \in Nat /\ y \in Nat
    BY Sums
  <1>3. Arrived = freed + i + x + BuffersIn(coll) + h
    BY DEF BuffersConserved
  <1>4. BuffersConserved' <=> Arrived' = freed' + i + y + BuffersIn(coll') + h
    BY DEF BuffersConserved
  <1>5. freed' + BuffersIn(coll') + y = freed + BuffersIn(coll) + x
    OBVIOUS
  <1> HIDE DEF h, x, y, i
  <1> QED  BY <1>1, <1>2, <1>3, <1>4, <1>5

\* The tokens of the query stay in balance while it goes on.
LEMMA TokenBalance ==
    ASSUME Balanced, UNCHANGED <<dataAvail, pushing, inputQueue>>,
           qpc' \notin {"stopped", "detached"} =>
             /\ qpc \notin {"stopped", "detached"}
             /\ coll.sem \in Nat /\ coll'.sem \in Nat /\ Len(coll.queue) \in Nat /\ Len(coll'.queue) \in Nat
             /\ \E d \in Int :
                  /\ coll'.sem + (IF cpc' = "signal" THEN 1 ELSE 0) + (IF qpc' = "front" THEN 1 ELSE 0)
                       = coll.sem + (IF cpc = "signal" THEN 1 ELSE 0) + (IF qpc = "front" THEN 1 ELSE 0) + d
                  /\ Len(coll'.queue) + ErrorToken(coll')
                       = Len(coll.queue) + ErrorToken(coll) + d
    PROVE  Balanced'
  <1>1. dataAvail' + (IF pushing' THEN 1 ELSE 0) = Len(inputQueue')
    BY DEF Balanced
  <1>2. ASSUME qpc' \notin {"stopped", "detached"}
        PROVE  coll'.sem + (IF cpc' = "signal" THEN 1 ELSE 0) + (IF qpc' = "front" THEN 1 ELSE 0)
                 = Len(coll'.queue) + ErrorToken(coll')
    <2> DEFINE x == coll.sem + (IF cpc = "signal" THEN 1 ELSE 0) + (IF qpc = "front" THEN 1 ELSE 0)
               y == Len(coll.queue) + ErrorToken(coll)
    <2>1. x = y
      BY <1>2 DEF Balanced
    <2> HIDE DEF x, y
    <2>2. PICK d \in Int :
            /\ coll'.sem + (IF cpc' = "signal" THEN 1 ELSE 0) + (IF qpc' = "front" THEN 1 ELSE 0) = x + d
            /\ Len(coll'.queue) + ErrorToken(coll') = y + d
      BY <1>2 DEF x, y
    <2> QED  BY <2>1, <2>2
  <1> QED  BY <1>1, <1>2 DEF Balanced

\* attach_databuffer refuses the packet.
LEMMA StepRefuse ==
    ASSUME Inv, NEW exceeded \in BOOLEAN, Refuse(exceeded)
    PROVE  Inv'
  <1>1. Typed /\ Contents /\ Control /\ Balanced /\ BuffersConserved
    BY DEF Inv
  <1> DEFINE c == [coll EXCEPT !.memLimitExceeded = @ \/ exceeded]
  <1>2. /\ cpc = "attach" /\ Unlinked(c, 1) /\ lost' = (lost \/ ~buffer.duplicate)
        /\ buffer' = None /\ cpc' = "pop" /\ UNCHANGED <<receiveVars, qpc, result, results>>
    BY DEF Refuse
  <1>3. UNCHANGED <<inputQueue, dataAvail, pushing, arrivals, qpc, result, results>>
    BY <1>2 DEF receiveVars
  <1>4. coll \in Collators
    BY <1>1 DEF Typed
  <1>5. /\ c \in Collators /\ c.mapping = coll.mapping /\ c.queue = coll.queue /\ c.state = coll.state
        /\ c.sem = coll.sem /\ c.error = coll.error
    <2>1. PICK e \in BOOLEAN : e = (coll.memLimitExceeded \/ exceeded)
      BY Zenon
    <2>2. c = [coll EXCEPT !.memLimitExceeded = e]
      BY <2>1, Zenon
    <2> HIDE DEF c
    <2> QED  BY <1>4, <2>2 DEF Collators
  <1> HIDE DEF c
  <1>6. MappingOK(c.mapping) /\ QueueOK(c.queue) /\ freed \in Nat
    BY <1>1, <1>5 DEF Contents, Typed
  <1>7. /\ coll' \in Collators /\ MappingOK(coll'.mapping) /\ QueueOK(coll'.queue)
        /\ BuffersIn(c) \in Nat /\ BuffersIn(coll') \in Nat /\ freed' \in Nat
        /\ freed' + BuffersIn(coll') = freed + 1 + BuffersIn(c)
        /\ c.state = "detached" => coll'.state = "destroyed"
        /\ c.state # "detached" => coll' = c
    BY <1>2, <1>5, <1>6, UnlinkedKeeps
  <1>8. BuffersIn(c) = BuffersIn(coll)
    BY <1>4, <1>5, SameBuffers
  <1>9. Typed'
    <2>1. lost' \in BOOLEAN
      BY <1>2, Zenon
    <2>2. buffer' \in Buffers \cup {None} /\ cpc' \in {"pop", "lookup", "attach", "discard", "signal"}
      BY <1>2
    <2> QED  BY <1>1, <1>3, <1>7, <2>1, <2>2 DEF Typed
  <1>10. buffer' = None /\ cpc' = "pop" /\ cpc = "attach"
    BY <1>2
  <1>11. Contents'
    BY <1>1, <1>3, <1>7, <1>10 DEF Contents
  <1>12. coll.state \in {"attached", "detached"}
    BY <1>1, <1>10 DEF Control
  <1>13. Control'
    BY <1>1, <1>3, <1>5, <1>7, <1>10, <1>12 DEF Control
  <1>14. Balanced'
    <2>1. CASE coll.state = "detached"
      <3>1. qpc = "detached"
        BY <1>1, <2>1 DEF Control
      <3> QED  BY <1>1, <1>3, <3>1 DEF Balanced
    <2>2. CASE coll.state # "detached"
      <3>1. coll'.sem = coll.sem /\ coll'.error = coll.error /\ coll'.queue = coll.queue
        BY <1>5, <1>7, <2>2
      <3>2. ErrorToken(coll') = ErrorToken(coll)
        BY <3>1, Zenon DEF ErrorToken
      <3> QED  BY <1>1, <1>3, <1>10, <3>1, <3>2 DEF Balanced
    <2> QED  BY <2>1, <2>2
  <1>15. BuffersConserved'
    <2>1. Arrived' = Arrived /\ buffer # None
      BY <1>1, <1>3, <1>10 DEF Arrived, Control
    <2>2. Arrived \in Nat /\ BuffersIn(coll) \in Nat /\ freed \in Nat /\ Len(inputQueue) \in Nat
          /\ (result # None => Len(result.seq.list) \in Nat)
      BY <1>1, Sums
    <2>3. result' = result /\ inputQueue' = inputQueue /\ buffer' = None
      BY <1>3, <1>10
    <2> QED  BY <1>1, <1>7, <1>8, <2>1, <2>2, <2>3 DEF BuffersConserved
  <1> QED  BY <1>9, <1>11, <1>13, <1>14, <1>15 DEF Inv

\* The packet that is attached, and the sequencer of its message.
LEMMA Attached ==
    ASSUME Inv, cpc = "attach", NEW m, m = buffer.msg, NEW p, p = ClearResent(buffer.seq)
    PROVE  /\ m \in Messages /\ p \in PacketsOf(m)
           /\ Ordered(m, SequencerOf(m)) /\ SequencerOf(m).contiguous < Packets[m]
           /\ Size(coll.mapping[m]) = Len(SequencerOf(m).list)
           /\ Len(SequencerOf(m).list) \in Nat
  <1>1. Typed /\ Contents /\ Control
    BY DEF Inv
  <1>2. buffer # None /\ buffer \in Buffers /\ IsPacket(buffer)
    BY <1>1 DEF Typed, Contents, Control
  <1>3. m \in Messages
    BY <1>2 DEF Buffers
  <1>4. PICK k \in 0 .. Packets[m] - 1, resent \in BOOLEAN : buffer.seq = PktSeq(m, k, resent)
    BY <1>2 DEF IsPacket
  <1>5. p = Coded(m, k)
    BY <1>3, <1>4, Coding
  <1>6. p \in PacketsOf(m)
    BY <1>5 DEF PacketsOf
  <1>7. Packets[m] \in Nat /\ Packets[m] >= 1
    BY <1>3, Fields
  <1>8. CASE coll.mapping[m] = None
    <2>1. SequencerOf(m) = NewSequencer
      BY <1>8 DEF SequencerOf
    <2>2. Ordered(m, NewSequencer) /\ NewSequencer.contiguous = 0 /\ NewSequencer.list = <<>>
      BY <1>3, NewIsOrdered
    <2>3. Len(NewSequencer.list) = 0
      BY <2>2
    <2> QED  BY <1>3, <1>6, <1>7, <1>8, <2>1, <2>2, <2>3 DEF Size
  <1>9. CASE coll.mapping[m] # None
    <2>1. SequencerOf(m) = coll.mapping[m]
      BY <1>9 DEF SequencerOf
    <2>2. Partial(m, coll.mapping[m])
      BY <1>1, <1>3, <1>9 DEF Contents, MappingOK
    <2>3. Ordered(m, coll.mapping[m]) /\ coll.mapping[m].contiguous < Packets[m] /\ coll.mapping[m] \in Sequencers
      BY <2>2 DEF Partial, Ordered
    <2>4. Len(coll.mapping[m].list) \in Nat
      BY <2>3, SequencerFields
    <2> QED  BY <1>3, <1>6, <1>9, <2>1, <2>3, <2>4 DEF Size
  <1> QED  BY <1>8, <1>9

\* collate() keeps one packet more, in the mapping or, when the message is complete, on
\* the queue.
LEMMA CollatedKeeps ==
    ASSUME Inv, cpc = "attach", NEW m, m = buffer.msg, NEW p, p = ClearResent(buffer.seq),
           ~IsDiscarded(SequencerOf(m), p)
    PROVE  /\ Collated(m, p) \in Collators
           /\ MappingOK(Collated(m, p).mapping) /\ QueueOK(Collated(m, p).queue)
           /\ BuffersIn(Collated(m, p)) = BuffersIn(coll) + 1
           /\ Collated(m, p).state = coll.state /\ Collated(m, p).sem = coll.sem
           /\ Collated(m, p).error = coll.error
           /\ Len(Collated(m, p).queue)
                = Len(coll.queue) + (IF CompletesMessage(SequencerOf(m), p) THEN 1 ELSE 0)
  <1>1. Typed /\ Contents /\ Control /\ coll \in Collators /\ MappingOK(coll.mapping) /\ QueueOK(coll.queue)
    BY DEF Inv, Typed, Contents
  <1> DEFINE s == SequencerOf(m)
             t == Inserted(s, p)
             c == Collated(m, p)
  <1>2. /\ m \in Messages /\ p \in PacketsOf(m)
        /\ Ordered(m, s) /\ s.contiguous < Packets[m]
        /\ Size(coll.mapping[m]) = Len(s.list) /\ Len(s.list) \in Nat
    BY Attached
  <1>3. c = IF CompletesMessage(s, p)
            THEN [coll EXCEPT !.mapping[m] = None, !.queue = Append(@, [msg |-> m, seq |-> t])]
            ELSE [coll EXCEPT !.mapping[m] = t]
    BY DEF Collated
  <1> HIDE DEF s, c
  <1>4. /\ Ordered(m, t) /\ Len(t.list) = Len(s.list) + 1
        /\ CompletesMessage(s, p) <=> t.contiguous = Packets[m]
        /\ t.contiguous = Packets[m] => Len(t.list) = Packets[m]
    BY <1>2, Insertion DEF s
  <1> HIDE DEF t
  <1>5. t \in Sequencers /\ t # None /\ Size(t) = Len(s.list) + 1 /\ t.contiguous <= Packets[m]
    BY <1>4, NoneIsApart DEF Ordered, Size
  <1>6. /\ coll.mapping \in [Messages -> Sequencers \cup {None}]
        /\ coll.queue \in Seq([msg : Messages, seq : Sequencers]) /\ Len(coll.queue) \in Nat
    BY <1>1, CollatorFields
  <1>7. /\ BuffersIn(coll) = Total(MappingSizes(coll.mapping)) + Total(QueueSizes(coll.queue))
        /\ Total(MappingSizes(coll.mapping)) \in Nat /\ Total(QueueSizes(coll.queue)) \in Nat
    BY <1>1, BuffersInParts
  <1>8. CASE CompletesMessage(s, p)
    <2> DEFINE f == [coll.mapping EXCEPT ![m] = None]
               q == Append(coll.queue, [msg |-> m, seq |-> t])
    <2>1. /\ Total(MappingSizes(coll.mapping)) \in Nat /\ Size(None) \in Nat /\ Size(coll.mapping[m]) \in Nat
          /\ Total(MappingSizes(f)) = Total(MappingSizes(coll.mapping)) + Size(None) - Size(coll.mapping[m])
      <3>1. None \in Sequencers \cup {None}
        OBVIOUS
      <3> QED  BY <1>2, <1>6, <3>1, MappingChange
    <2>2. /\ q \in Seq([msg : Messages, seq : Sequencers])
          /\ Len(q) = Len(coll.queue) + 1 /\ Len(t.list) \in Nat
          /\ Total(QueueSizes(q)) = Total(QueueSizes(coll.queue)) + Len(t.list)
      BY <1>2, <1>5, <1>6, QueueAppend
    <2>3. f \in [Messages -> Sequencers \cup {None}] /\ f[m] = None
          /\ \A x \in Messages : x # m => f[x] = coll.mapping[x]
      BY <1>2, <1>6
    <2>4. q[Len(coll.queue) + 1] = [msg |-> m, seq |-> t] /\ \A k \in 1 .. Len(coll.queue) : q[k] = coll.queue[k]
      BY <1>6
    <2>5. c = [coll EXCEPT !.mapping = f, !.queue = q]
      BY <1>1, <1>3, <1>8 DEF Collators
    <2> HIDE DEF f, q
    <2>6. /\ c \in Collators /\ c.mapping = f /\ c.queue = q /\ c.state = coll.state /\ c.sem = coll.sem
          /\ c.error = coll.error
      BY <1>1, <2>2, <2>3, <2>5 DEF Collators
    <2>7. MappingOK(f)
      BY <1>1, <2>3 DEF MappingOK
    <2>8. Whole(m, t)
      BY <1>4, <1>8 DEF Whole
    <2>9. QueueOK(q)
      <3> SUFFICES ASSUME NEW k \in 1 .. Len(q) PROVE Whole(q[k].msg, q[k].seq)
        BY DEF QueueOK
      <3>1. k = Len(coll.queue) + 1 \/ k \in 1 .. Len(coll.queue)
        BY <1>6, <2>2
      <3>2. CASE k = Len(coll.queue) + 1
        <4>1. q[k].msg = m /\ q[k].seq = t
          BY <2>4, <3>2
        <4> QED  BY <2>8, <4>1
      <3>3. CASE k \in 1 .. Len(coll.queue)
        BY <1>1, <2>4, <3>3 DEF QueueOK
      <3> QED  BY <3>1, <3>2, <3>3
    <2>10. BuffersIn(c) = Total(MappingSizes(c.mapping)) + Total(QueueSizes(c.queue))
      BY <2>6, BuffersInParts
    <2>11. Size(None) = 0
      BY DEF Size
    <2>12. BuffersIn(c) = BuffersIn(coll) + 1
      <3>1. BuffersIn(c) = Total(MappingSizes(f)) + Total(QueueSizes(q))
        BY <2>6, <2>10
      <3>2. Size(coll.mapping[m]) = Len(s.list) /\ Len(t.list) = Len(s.list) + 1 /\ Len(s.list) \in Nat
        BY <1>2, <1>4
      <3> QED  BY <1>7, <2>1, <2>2, <2>11, <3>1, <3>2
    <2> QED  BY <1>8, <2>2, <2>6, <2>7, <2>9, <2>12 DEF c, s
  <1>9. CASE ~CompletesMessage(s, p)
    <2> DEFINE f == [coll.mapping EXCEPT ![m] = t]
    <2>1. /\ Total(MappingSizes(coll.mapping)) \in Nat /\ Size(t) \in Nat /\ Size(coll.mapping[m]) \in Nat
          /\ Total(MappingSizes(f)) = Total(MappingSizes(coll.mapping)) + Size(t) - Size(coll.mapping[m])
      <3>1. t \in Sequencers \cup {None}
        BY <1>5
      <3> QED  BY <1>2, <1>6, <3>1, MappingChange
    <2>2. f \in [Messages -> Sequencers \cup {None}] /\ f[m] = t
          /\ \A x \in Messages : x # m => f[x] = coll.mapping[x]
      BY <1>2, <1>5, <1>6
    <2>3. c = [coll EXCEPT !.mapping = f]
      BY <1>1, <1>3, <1>9 DEF Collators
    <2> HIDE DEF f
    <2>4. /\ c \in Collators /\ c.mapping = f /\ c.queue = coll.queue /\ c.state = coll.state /\ c.sem = coll.sem
          /\ c.error = coll.error
      BY <1>1, <2>2, <2>3 DEF Collators
    <2>5. Partial(m, t)
      <3>1. t.contiguous < Packets[m]
        <4>1. t.contiguous \in Nat /\ Packets[m] \in Nat
          BY <1>2, <1>5, SequencerFields, Fields
        <4> QED  BY <1>4, <1>5, <1>9, <4>1
      <3>2. Len(t.list) > 0
        BY <1>2, <1>4
      <3> QED  BY <1>4, <3>1, <3>2 DEF Partial
    <2>6. MappingOK(f)
      BY <1>1, <2>2, <2>5 DEF MappingOK
    <2>7. BuffersIn(c) = Total(MappingSizes(c.mapping)) + Total(QueueSizes(c.queue))
      BY <2>4, BuffersInParts
    <2>8. BuffersIn(c) = BuffersIn(coll) + 1
      <3>1. BuffersIn(c) = Total(MappingSizes(f)) + Total(QueueSizes(coll.queue))
        BY <2>4, <2>7
      <3>2. Size(coll.mapping[m]) = Len(s.list) /\ Size(t) = Len(s.list) + 1 /\ Len(s.list) \in Nat
        BY <1>2, <1>5
      <3> QED  BY <1>7, <2>1, <3>1, <3>2
    <2>9. Len(c.queue) = Len(coll.queue) + 0
      BY <1>6, <2>4
    <2> QED  BY <1>1, <1>9, <2>4, <2>6, <2>8, <2>9 DEF c, s
  <1> QED  BY <1>8, <1>9


\* attach_databuffer takes the packet.
LEMMA StepCollate ==
    ASSUME Inv, Collate
    PROVE  Inv'
  <1>1. Typed /\ Contents /\ Control /\ Balanced /\ BuffersConserved
    BY DEF Inv
  <1>2. PICK m \in {buffer.msg}, p \in {ClearResent(buffer.seq)} :
             m = buffer.msg /\ p = ClearResent(buffer.seq)
    OBVIOUS
  <1>3. /\ cpc = "attach" /\ buffer' = None
        /\ UNCHANGED <<receiveVars, qpc, result, results, lost>>
        /\ \/ IsDiscarded(SequencerOf(m), p) /\ Unlinked(coll, 1) /\ cpc' = "pop"
           \/ /\ ~IsDiscarded(SequencerOf(m), p) /\ CompletesMessage(SequencerOf(m), p)
              /\ coll' = Collated(m, p) /\ cpc' = "signal" /\ UNCHANGED freed
           \/ /\ ~IsDiscarded(SequencerOf(m), p) /\ ~CompletesMessage(SequencerOf(m), p)
              /\ Unlinked(Collated(m, p), 0) /\ cpc' = "pop"
    BY <1>2 DEF Collate
  <1>4. UNCHANGED <<inputQueue, dataAvail, pushing, arrivals, qpc, result, results, lost>>
    BY <1>3 DEF receiveVars
  <1>5. cpc = "attach" /\ buffer' = None /\ cpc' \in {"pop", "signal"} /\ coll.state \in {"attached", "detached"}
    BY <1>1, <1>3 DEF Control
  <1>6. coll \in Collators /\ MappingOK(coll.mapping) /\ QueueOK(coll.queue) /\ freed \in Nat
        /\ BuffersIn(coll) \in Nat /\ Len(coll.queue) \in Nat /\ coll.sem \in Nat
    BY <1>1, Sums, CollatorFields DEF Typed, Contents
  \* What the three cases have in common.
  <1>7. /\ coll' \in Collators /\ MappingOK(coll'.mapping) /\ QueueOK(coll'.queue)
        /\ BuffersIn(coll') \in Nat /\ freed' \in Nat
        /\ freed' + BuffersIn(coll') = freed + 1 + BuffersIn(coll)
        /\ cpc' = "signal" => coll'.state = coll.state
        /\ cpc' = "pop" => coll'.state = IF coll.state = "detached" THEN "destroyed" ELSE coll.state
        /\ coll.state # "detached" =>
             /\ coll'.sem = coll.sem /\ coll'.error = coll.error
             /\ Len(coll'.queue) = Len(coll.queue) + (IF cpc' = "signal" THEN 1 ELSE 0)
    <2>1. CASE IsDiscarded(SequencerOf(m), p) /\ Unlinked(coll, 1) /\ cpc' = "pop"
      <3>1. /\ coll' \in Collators /\ MappingOK(coll'.mapping) /\ QueueOK(coll'.queue)
            /\ BuffersIn(coll) \in Nat /\ BuffersIn(coll') \in Nat /\ freed' \in Nat
            /\ freed' + BuffersIn(coll') = freed + 1 + BuffersIn(coll)
            /\ coll.state = "detached" => coll'.state = "destroyed"
            /\ coll.state # "detached" => coll' = coll
        BY <1>6, <2>1, UnlinkedKeeps
      <3> QED  BY <1>6, <2>1, <3>1
    <2>2. CASE /\ ~IsDiscarded(SequencerOf(m), p) /\ CompletesMessage(SequencerOf(m), p)
               /\ coll' = Collated(m, p) /\ cpc' = "signal" /\ UNCHANGED freed
      <3>1. /\ Collated(m, p) \in Collators
            /\ MappingOK(Collated(m, p).mapping) /\ QueueOK(Collated(m, p).queue)
            /\ BuffersIn(Collated(m, p)) = BuffersIn(coll) + 1
            /\ Collated(m, p).state = coll.state /\ Collated(m, p).sem = coll.sem
            /\ Collated(m, p).error = coll.error
            /\ Len(Collated(m, p).queue)
                 = Len(coll.queue) + (IF CompletesMessage(SequencerOf(m), p) THEN 1 ELSE 0)
        BY <1>2, <1>5, <2>2, CollatedKeeps
      <3>2. freed' = freed /\ coll' = Collated(m, p) /\ cpc' = "signal"
        BY <2>2
      <3>3. Len(coll'.queue) = Len(coll.queue) + 1
        BY <2>2, <3>1, <3>2
      <3>4. BuffersIn(coll') = BuffersIn(coll) + 1
        BY <3>1, <3>2
      <3> QED  BY <1>6, <3>1, <3>2, <3>3, <3>4
    <2>3. CASE /\ ~IsDiscarded(SequencerOf(m), p) /\ ~CompletesMessage(SequencerOf(m), p)
               /\ Unlinked(Collated(m, p), 0) /\ cpc' = "pop"
      <3> DEFINE c == Collated(m, p)
      <3>1. /\ c \in Collators /\ MappingOK(c.mapping) /\ QueueOK(c.queue)
            /\ BuffersIn(c) = BuffersIn(coll) + 1
            /\ c.state = coll.state /\ c.sem = coll.sem /\ c.error = coll.error
            /\ Len(c.queue) = Len(coll.queue) + (IF CompletesMessage(SequencerOf(m), p) THEN 1 ELSE 0)
        BY <1>2, <1>5, <2>3, CollatedKeeps
      <3>2. Unlinked(c, 0) /\ cpc' = "pop" /\ Len(c.queue) = Len(coll.queue) + 0
        BY <2>3, <3>1
      <3> HIDE DEF c
      <3>3. /\ coll' \in Collators /\ MappingOK(coll'.mapping) /\ QueueOK(coll'.queue)
            /\ BuffersIn(c) \in Nat /\ BuffersIn(coll') \in Nat /\ freed' \in Nat
            /\ freed' + BuffersIn(coll') = freed + 0 + BuffersIn(c)
            /\ c.state = "detached" => coll'.state = "destroyed"
            /\ c.state # "detached" => coll' = c
        BY <1>6, <3>1, <3>2, UnlinkedKeeps
      <3>4. freed' + BuffersIn(coll') = freed + 1 + BuffersIn(coll)
        BY <1>6, <3>1, <3>3
      <3> QED  BY <1>6, <3>1, <3>2, <3>3, <3>4
    <2> QED  BY <1>3, <2>1, <2>2, <2>3
  <1>8. Typed'
    BY <1>1, <1>4, <1>5, <1>7 DEF Typed
  <1>9. Contents'
    BY <1>1, <1>4, <1>5, <1>7 DEF Contents
  <1>10. Control'
    BY <1>1, <1>4, <1>5, <1>7 DEF Control
  <1>11. Balanced'
    <2>1. CASE coll.state = "detached"
      <3>1. qpc = "detached"
        BY <1>1, <2>1 DEF Control
      <3> QED  BY <1>1, <1>4, <3>1 DEF Balanced
    <2>2. CASE coll.state # "detached"
      <3>1. /\ coll'.sem = coll.sem /\ coll'.error = coll.error
            /\ Len(coll'.queue) = Len(coll.queue) + (IF cpc' = "signal" THEN 1 ELSE 0)
        BY <1>7, <2>2
      <3>2. ErrorToken(coll') = ErrorToken(coll)
        BY <3>1, Zenon DEF ErrorToken
      <3>3. /\ coll'.sem = coll.sem
            /\ Len(coll'.queue) = Len(coll.queue) + (IF cpc' = "signal" THEN 1 ELSE 0)
        BY <3>1
      <3> DEFINE d == IF cpc' = "signal" THEN 1 ELSE 0
                 e == ErrorToken(coll)
      <3>4. d \in Int /\ e \in Int /\ Len(coll'.queue) \in Nat /\ coll'.sem \in Nat
        <4>1. e \in {0, 1}
          BY ErrorTokenType
        <4>2. d \in {0, 1}
          OBVIOUS
        <4>3. Len(coll'.queue) = Len(coll.queue) + d /\ coll'.sem = coll.sem
          BY <3>3
        <4>4. Len(coll.queue) \in Nat /\ coll.sem \in Nat
          BY <1>6
        <4> HIDE DEF d, e
        <4> QED  BY <4>1, <4>2, <4>3, <4>4
      <3>5. Len(coll'.queue) + e = Len(coll.queue) + e + d
        <4>1. Len(coll'.queue) = Len(coll.queue) + d
          BY <3>3
        <4> HIDE DEF d, e
        <4> QED  BY <1>6, <3>4, <4>1
      <3>6. Len(coll'.queue) + ErrorToken(coll') = Len(coll.queue) + ErrorToken(coll) + d
        BY <3>2, <3>5, Zenon
      <3>7. coll'.sem + (IF cpc' = "signal" THEN 1 ELSE 0) + (IF qpc' = "front" THEN 1 ELSE 0)
              = coll.sem + (IF cpc = "signal" THEN 1 ELSE 0) + (IF qpc = "front" THEN 1 ELSE 0) + d
        BY <1>4, <1>5, <1>6, <3>3
      <3> HIDE DEF d
      <3>8. qpc' = qpc /\ UNCHANGED <<dataAvail, pushing, inputQueue>>
        BY <1>4
      <3> QED  BY <1>1, <1>6, <3>4, <3>6, <3>7, <3>8, TokenBalance
    <2> QED  BY <2>1, <2>2
  <1>12. BuffersConserved'
    <2>1. Arrived' = Arrived /\ buffer # None
      BY <1>1, <1>4, <1>5 DEF Arrived, Control
    <2>2. freed' \in Nat /\ BuffersIn(coll') \in Nat /\ BuffersIn(coll) \in Nat /\ freed \in Nat
          /\ freed' + BuffersIn(coll') = freed + 1 + BuffersIn(coll)
      BY <1>6, <1>7
    <2>3. freed' + BuffersIn(coll') + (IF buffer' = None THEN 0 ELSE 1)
            = freed + BuffersIn(coll) + (IF buffer = None THEN 0 ELSE 1)
      BY <1>5, <2>1, <2>2
    <2> QED  BY <1>1, <1>4, <2>2, <2>3, Conservation
  <1> QED  BY <1>8, <1>9, <1>10, <1>11, <1>12 DEF Inv

\* The query is signalled.
LEMMA StepSignalResult ==
    ASSUME Inv, SignalResult
    PROVE  Inv'
  <1>1. Typed /\ Contents /\ Control /\ Balanced /\ BuffersConserved
    BY DEF Inv
  <1> DEFINE c == [coll EXCEPT !.sem = @ + 1]
  <1>2. /\ cpc = "signal" /\ Unlinked(c, 0) /\ cpc' = "pop"
        /\ UNCHANGED <<receiveVars, buffer, qpc, result, results, lost>>
    BY DEF SignalResult
  <1>3. UNCHANGED <<inputQueue, dataAvail, pushing, arrivals, buffer, qpc, result, results, lost>>
    BY <1>2 DEF receiveVars
  <1>4. coll \in Collators /\ coll.sem \in Nat /\ Len(coll.queue) \in Nat
    BY <1>1, CollatorFields DEF Typed
  <1>5. /\ c \in Collators /\ c.mapping = coll.mapping /\ c.queue = coll.queue /\ c.state = coll.state
        /\ c.sem = coll.sem + 1 /\ c.error = coll.error
    BY <1>4 DEF Collators
  <1> HIDE DEF c
  <1>6. MappingOK(c.mapping) /\ QueueOK(c.queue) /\ freed \in Nat
    BY <1>1, <1>5 DEF Contents, Typed
  <1>7. /\ coll' \in Collators /\ MappingOK(coll'.mapping) /\ QueueOK(coll'.queue)
        /\ BuffersIn(c) \in Nat /\ BuffersIn(coll') \in Nat /\ freed' \in Nat
        /\ freed' + BuffersIn(coll') = freed + 0 + BuffersIn(c)
        /\ c.state = "detached" => coll'.state = "destroyed"
        /\ c.state # "detached" => coll' = c
    BY <1>2, <1>5, <1>6, UnlinkedKeeps
  <1>8. BuffersIn(c) = BuffersIn(coll)
    BY <1>4, <1>5, SameBuffers
  <1>9. cpc' = "pop" /\ cpc = "signal" /\ coll.state \in {"attached", "detached"}
    BY <1>1, <1>2 DEF Control
  <1>10. Typed'
    BY <1>1, <1>3, <1>7, <1>9 DEF Typed
  <1>11. Contents'
    BY <1>1, <1>3, <1>7 DEF Contents
  <1>12. Control'
    BY <1>1, <1>3, <1>5, <1>7, <1>9 DEF Control
  <1>13. Balanced'
    <2>1. CASE coll.state = "detached"
      <3>1. qpc = "detached"
        BY <1>1, <2>1 DEF Control
      <3> QED  BY <1>1, <1>3, <3>1 DEF Balanced
    <2>2. CASE coll.state # "detached"
      <3>1. coll'.sem = coll.sem + 1 /\ coll'.error = coll.error /\ coll'.queue = coll.queue
        BY <1>5, <1>7, <2>2
      <3>2. ErrorToken(coll') = ErrorToken(coll)
        BY <3>1, Zenon DEF ErrorToken
      <3>3. coll'.sem = coll.sem + 1 /\ Len(coll'.queue) = Len(coll.queue)
        BY <3>1
      <3>4. Len(coll'.queue) + ErrorToken(coll') = Len(coll.queue) + ErrorToken(coll) + 0
        BY <1>4, <3>2, <3>3, ErrorTokenType
      <3>5. coll'.sem + (IF cpc' = "signal" THEN 1 ELSE 0) + (IF qpc' = "front" THEN 1 ELSE 0)
              = coll.sem + (IF cpc = "signal" THEN 1 ELSE 0) + (IF qpc = "front" THEN 1 ELSE 0) + 0
        BY <1>3, <1>4, <1>9, <3>3
      <3>6. 0 \in Int /\ coll'.sem \in Nat /\ Len(coll'.queue) \in Nat /\ qpc' = qpc
            /\ UNCHANGED <<dataAvail, pushing, inputQueue>>
        BY <1>3, <1>4, <3>3
      <3> QED  BY <1>1, <1>4, <3>4, <3>5, <3>6, TokenBalance
    <2> QED  BY <2>1, <2>2
  <1>14. BuffersConserved'
    <2>1. BuffersIn(coll) \in Nat
      BY <1>1, Sums
    <2>2. freed' \in Nat /\ BuffersIn(coll') \in Nat /\ freed' + BuffersIn(coll') = freed + BuffersIn(coll)
      BY <1>6, <1>7, <1>8
    <2>3. freed' + BuffersIn(coll') + (IF buffer' = None THEN 0 ELSE 1)
            = freed + BuffersIn(coll) + (IF buffer = None THEN 0 ELSE 1)
      BY <1>3, <1>6, <2>1, <2>2
    <2> QED  BY <1>1, <1>3, <2>2, <2>3, Conservation
  <1> QED  BY <1>10, <1>11, <1>12, <1>13, <1>14 DEF Inv

-----------------------------------------------------------------------------
(* The steps of the query.                                                    *)

\* Steps that change the collator's tokens or state only.
LEMMA StepOfTokens ==
    ASSUME Inv, UNCHANGED <<queryUnchanged, result, freed, results>>,
           coll' \in Collators, coll'.mapping = coll.mapping, coll'.queue = coll.queue,
           qpc' \in {"idle", "wait", "expired", "front", "reading", "stopped", "detached"},
           Control', Balanced'
    PROVE  Inv'
  <1>1. Typed /\ Contents /\ BuffersConserved /\ coll \in Collators
    BY DEF Inv, Typed
  <1>2. UNCHANGED <<inputQueue, dataAvail, pushing, arrivals, cpc, buffer, lost, result, freed, results>>
    BY DEF queryUnchanged, receiveVars
  <1>3. Typed'
    BY <1>1, <1>2 DEF Typed
  <1>4. Contents'
    BY <1>1, <1>2 DEF Contents
  <1>5. BuffersIn(coll') = BuffersIn(coll)
    BY <1>1, SameBuffers
  <1>6. BuffersConserved'
    <2>1. Arrived' = Arrived
      BY <1>2 DEF Arrived
    <2> QED  BY <1>1, <1>2, <1>5, <2>1 DEF BuffersConserved
  <1> QED  BY <1>3, <1>4, <1>6 DEF Inv


\* The query creates its collator.
LEMMA StepCreateCollator ==
    ASSUME Inv, CreateCollator
    PROVE  Inv'
  <1>1. Typed /\ Contents /\ Control /\ Balanced /\ BuffersConserved /\ coll \in Collators
    BY DEF Inv, Typed
  <1>2. /\ coll.state = "none" /\ coll' = [coll EXCEPT !.state = "attached"]
        /\ UNCHANGED <<queryUnchanged, qpc, result, freed, results>>
    BY DEF CreateCollator
  <1>3. UNCHANGED <<inputQueue, dataAvail, pushing, arrivals, cpc, buffer, qpc, result>>
    BY <1>2 DEF queryUnchanged, receiveVars
  <1>4. /\ coll' \in Collators /\ coll'.mapping = coll.mapping /\ coll'.queue = coll.queue
        /\ coll'.state = "attached" /\ coll'.sem = coll.sem /\ coll'.error = coll.error
    BY <1>1, <1>2 DEF Collators
  <1>5. Control'
    <2>1. coll'.state = "attached" /\ coll.state = "none"
      BY <1>2, <1>4
    <2> QED  BY <1>1, <1>3, <2>1 DEF Control
  <1>6. Balanced'
    <2>1. ErrorToken(coll') = ErrorToken(coll)
      BY <1>4, Zenon DEF ErrorToken
    <2>2. coll'.sem = coll.sem /\ coll'.queue = coll.queue
      BY <1>4
    <2> QED  BY <1>1, <1>3, <2>1, <2>2 DEF Balanced
  <1>7. qpc' \in {"idle", "wait", "expired", "front", "reading", "stopped", "detached"}
    BY <1>1, <1>3 DEF Typed
  <1>8. coll' \in Collators /\ coll'.mapping = coll.mapping /\ coll'.queue = coll.queue
        /\ UNCHANGED <<queryUnchanged, result, freed, results>>
    BY <1>2, <1>4
  <1> QED  BY <1>5, <1>6, <1>7, <1>8, StepOfTokens

\* getNextResult begins, or its wait times out.
LEMMA StepWaiting ==
    ASSUME Inv, GetNextResult \/ TimeOut
    PROVE  Inv'
  <1>1. Typed /\ Contents /\ Control /\ Balanced /\ BuffersConserved /\ coll \in Collators
    BY DEF Inv, Typed
  <1>2. /\ \/ qpc = "idle" /\ coll.state = "attached" /\ qpc' \in {"stopped", "wait"}
           \/ qpc = "wait" /\ qpc' = "expired"
        /\ UNCHANGED <<queryUnchanged, coll, result, freed, results>>
    BY DEF GetNextResult, TimeOut
  <1>3. UNCHANGED <<inputQueue, dataAvail, pushing, arrivals, cpc, buffer, coll, result>>
    BY <1>2 DEF queryUnchanged, receiveVars
  <1>4. qpc \in {"idle", "wait"} /\ qpc' \in {"stopped", "wait", "expired"}
    BY <1>2
  <1>5. Control'
    BY <1>1, <1>3, <1>4 DEF Control
  <1>6. Balanced'
    BY <1>1, <1>3, <1>4 DEF Balanced
  <1>7. coll' \in Collators /\ coll'.mapping = coll.mapping /\ coll'.queue = coll.queue
        /\ UNCHANGED <<queryUnchanged, result, freed, results>>
        /\ qpc' \in {"idle", "wait", "expired", "front", "reading", "stopped", "detached"}
    BY <1>1, <1>2, <1>3, <1>4
  <1> QED  BY <1>5, <1>6, <1>7, StepOfTokens

\* The wait ends with a token or with the time, and an interrupt is thrown.
LEMMA StepWaitEnds ==
    ASSUME Inv, Take \/ Expire
    PROVE  Inv'
  <1>1. Typed /\ Contents /\ Control /\ Balanced /\ BuffersConserved /\ coll \in Collators
        /\ coll.sem \in Nat /\ Len(coll.queue) \in Nat
    BY CollatorFields DEF Inv, Typed
  <1>2. PICK n \in {0, 1} : /\ qpc \in {"wait", "expired"} /\ coll.sem >= n
                            /\ coll' = [coll EXCEPT !.sem = coll.sem - n, !.error = FALSE]
                            /\ qpc' = IF coll.error THEN "stopped" ELSE IF n = 1 THEN "front" ELSE "idle"
                            /\ UNCHANGED <<queryUnchanged, result, freed, results>>
    <2>1. CASE Take
      <3>1. /\ qpc = "wait" /\ coll.sem > 0 /\ coll' = [[coll EXCEPT !.sem = @ - 1] EXCEPT !.error = FALSE]
            /\ qpc' = IF [coll EXCEPT !.sem = @ - 1].error THEN "stopped" ELSE "front"
            /\ UNCHANGED <<queryUnchanged, result, freed, results>>
        BY <2>1 DEF Take, WaitEnds
      <3>2. [coll EXCEPT !.sem = @ - 1].error = coll.error
        BY <1>1 DEF Collators
      <3>3. coll' = [coll EXCEPT !.sem = coll.sem - 1, !.error = FALSE]
        BY <1>1, <3>1 DEF Collators
      <3>4. qpc' = IF coll.error THEN "stopped" ELSE "front"
        BY <3>1, <3>2, Zenon
      <3>5. coll.sem >= 1
        BY <1>1, <3>1
      <3>6. PICK n \in {0, 1} : n = 1
        OBVIOUS
      <3> QED  BY <3>1, <3>3, <3>4, <3>5, <3>6
    <2>2. CASE Expire
      <3>1. /\ qpc = "expired" /\ coll' = [coll EXCEPT !.error = FALSE]
            /\ qpc' = IF coll.error THEN "stopped" ELSE "idle"
            /\ UNCHANGED <<queryUnchanged, result, freed, results>>
        BY <2>2 DEF Expire, WaitEnds
      <3>2. PICK n \in {0, 1} : n = 0
        OBVIOUS
      <3>3. coll.sem - n = coll.sem /\ coll.sem >= n
        BY <1>1, <3>2
      <3>4. coll' = [coll EXCEPT !.sem = coll.sem, !.error = FALSE]
        BY <1>1, <3>1 DEF Collators
      <3>5. coll' = [coll EXCEPT !.sem = coll.sem - n, !.error = FALSE]
        BY <3>3, <3>4
      <3>6. qpc' = IF coll.error THEN "stopped" ELSE IF n = 1 THEN "front" ELSE "idle"
        BY <3>1, <3>2
      <3>7. qpc \in {"wait", "expired"} /\ coll.sem >= n /\ UNCHANGED <<queryUnchanged, result, freed, results>>
        BY <3>1, <3>3
      <3> QED  BY <3>5, <3>6, <3>7, Zenon
    <2> QED  BY <2>1, <2>2
  <1>3. UNCHANGED <<inputQueue, dataAvail, pushing, arrivals, cpc, buffer, result>>
    BY <1>2 DEF queryUnchanged, receiveVars
  <1>4. /\ coll' \in Collators /\ coll'.mapping = coll.mapping /\ coll'.queue = coll.queue
        /\ coll'.state = coll.state /\ coll'.sem = coll.sem - n /\ ~coll'.error
    <2>1. coll.sem - n \in Nat
      BY <1>1, <1>2
    <2>2. coll' = [coll EXCEPT !.sem = coll.sem - n, !.error = FALSE]
      BY <1>2
    <2> QED  BY <1>1, <2>1, <2>2 DEF Collators
  <1>5. qpc \in {"wait", "expired"} /\ qpc' \in {"stopped", "front", "idle"}
    BY <1>2
  <1>6. Control'
    BY <1>1, <1>3, <1>4, <1>5 DEF Control
  <1>7. Balanced'
    <2>1. CASE coll.error
      <3>1. qpc' = "stopped"
        BY <1>2, <2>1
      <3> QED  BY <1>1, <1>3, <3>1 DEF Balanced
    <2>2. CASE ~coll.error
      <3>1. qpc' = IF n = 1 THEN "front" ELSE "idle"
        BY <1>2, <2>2
      <3>2. ErrorToken(coll) = 0 /\ ErrorToken(coll') = 0
        BY <1>4, <2>2 DEF ErrorToken
      <3>3. coll'.sem = coll.sem - n /\ coll'.queue = coll.queue
        BY <1>4
      <3> QED  BY <1>1, <1>3, <1>5, <3>1, <3>2, <3>3 DEF Balanced
    <2> QED  BY <2>1, <2>2
  <1>8. coll' \in Collators /\ coll'.mapping = coll.mapping /\ coll'.queue = coll.queue
        /\ UNCHANGED <<queryUnchanged, result, freed, results>>
        /\ qpc' \in {"idle", "wait", "expired", "front", "reading", "stopped", "detached"}
    BY <1>2, <1>4, <1>5
  <1> QED  BY <1>6, <1>7, <1>8, StepOfTokens

\* An interrupt.
LEMMA StepInterrupt ==
    ASSUME Inv, Interrupt
    PROVE  Inv'
  <1>1. Typed /\ Contents /\ Control /\ Balanced /\ BuffersConserved /\ coll \in Collators
        /\ coll.sem \in Nat /\ Len(coll.queue) \in Nat
    BY CollatorFields DEF Inv, Typed
  <1>2. /\ coll.state = "attached" /\ ~coll.error /\ coll' = [coll EXCEPT !.error = TRUE, !.sem = @ + 1]
        /\ UNCHANGED <<queryUnchanged, qpc, result, freed, results>>
    BY DEF Interrupt
  <1>3. UNCHANGED <<inputQueue, dataAvail, pushing, arrivals, cpc, buffer, qpc, result>>
    BY <1>2 DEF queryUnchanged, receiveVars
  <1>4. /\ coll' \in Collators /\ coll'.mapping = coll.mapping /\ coll'.queue = coll.queue
        /\ coll'.state = coll.state /\ coll'.sem = coll.sem + 1 /\ coll'.error
    <2>1. coll.sem + 1 \in Nat
      BY <1>1
    <2>2. coll' = [coll EXCEPT !.error = TRUE, !.sem = coll.sem + 1]
      BY <1>2
    <2>3. coll'.error = TRUE
      BY <1>1, <2>2 DEF Collators
    <2>4. /\ coll' \in Collators /\ coll'.mapping = coll.mapping /\ coll'.queue = coll.queue
          /\ coll'.state = coll.state /\ coll'.sem = coll.sem + 1
      BY <1>1, <2>1, <2>2 DEF Collators
    <2> QED  BY <2>3, <2>4
  <1>5. Control'
    BY <1>1, <1>3, <1>4 DEF Control
  <1>6. Balanced'
    <2>1. ErrorToken(coll) = 0 /\ ErrorToken(coll') = 1
      BY <1>2, <1>4 DEF ErrorToken
    <2>2. coll'.sem = coll.sem + 1 /\ coll'.queue = coll.queue
      BY <1>4
    <2> QED  BY <1>1, <1>3, <2>1, <2>2 DEF Balanced
  <1>7. coll' \in Collators /\ coll'.mapping = coll.mapping /\ coll'.queue = coll.queue
        /\ UNCHANGED <<queryUnchanged, result, freed, results>>
        /\ qpc' \in {"idle", "wait", "expired", "front", "reading", "stopped", "detached"}
    BY <1>1, <1>2, <1>3, <1>4 DEF Typed
  <1> QED  BY <1>5, <1>6, <1>7, StepOfTokens


\* The query takes the front of the queue.
LEMMA StepFront ==
    ASSUME Inv, Front
    PROVE  Inv'
  <1>1. Typed /\ Contents /\ Control /\ Balanced /\ BuffersConserved /\ coll \in Collators
        /\ coll.sem \in Nat
    BY CollatorFields DEF Inv, Typed
  <1> DEFINE q == coll.queue
             m == Head(q).msg
             s == Head(q).seq
  <1>2. /\ qpc = "front" /\ q # <<>> /\ result' = [msg |-> m, seq |-> s, pos |-> 0]
        /\ coll' = [coll EXCEPT !.queue = Tail(q)]
        /\ results' = [results EXCEPT ![m] = @ + 1]
        /\ qpc' = "reading" /\ UNCHANGED <<queryUnchanged, freed>>
    BY DEF Front
  <1>3. UNCHANGED <<inputQueue, dataAvail, pushing, arrivals, cpc, buffer, lost, freed>>
    BY <1>2 DEF queryUnchanged, receiveVars
  <1>4. q \in Seq([msg : Messages, seq : Sequencers])
    BY <1>1, CollatorFields
  <1>5. \A k \in 1 .. Len(q) : q[k].msg \in Messages /\ q[k].seq \in Sequencers
    BY <1>1, CollatorFields
  <1> HIDE DEF q
  <1>6. /\ Tail(q) \in Seq([msg : Messages, seq : Sequencers])
        /\ Len(Tail(q)) = Len(q) - 1 /\ Len(q) \in Nat /\ Len(q) > 0 /\ Head(q) = q[1]
        /\ \A k \in 1 .. Len(Tail(q)) : Tail(q)[k] = q[k + 1] /\ k + 1 \in 1 .. Len(q)
        /\ Total(QueueSizes(Tail(q))) \in Nat
        /\ Total(QueueSizes(q)) = Total(QueueSizes(Tail(q))) + Len(Head(q).seq.list)
    BY <1>2, <1>4, QueueTail
  <1>7. 1 \in 1 .. Len(q)
    BY <1>6
  <1>8. m \in Messages /\ s \in Sequencers /\ Whole(m, s)
    BY <1>1, <1>5, <1>6, <1>7 DEF Contents, QueueOK, q
  <1>9. /\ coll' \in Collators /\ coll'.mapping = coll.mapping /\ coll'.queue = Tail(q)
        /\ coll'.state = coll.state /\ coll'.sem = coll.sem /\ coll'.error = coll.error
    <2> DEFINE r == Tail(q)
    <2>1. r \in Seq([msg : Messages, seq : Sequencers]) /\ coll' = [coll EXCEPT !.queue = r]
      BY <1>2, <1>6
    <2> HIDE DEF r
    <2>2. /\ coll' \in Collators /\ coll'.mapping = coll.mapping /\ coll'.queue = r
          /\ coll'.state = coll.state /\ coll'.sem = coll.sem /\ coll'.error = coll.error
      BY <1>1, <2>1 DEF Collators
    <2> QED  BY <2>2 DEF r
  <1>10. result' \in Results /\ result' # None /\ result'.msg = m /\ result'.seq = s /\ result'.pos = 0
    BY <1>2, <1>8, NoneIsApart DEF Results
  <1>11. results' \in [Messages -> Nat]
    <2>1. results \in [Messages -> Nat]
      BY <1>1 DEF Typed
    <2> HIDE DEF m
    <2> QED  BY <1>2, <1>8, <2>1
  <1> HIDE DEF m, s
  <1>12. Typed'
    <2>1. qpc' = "reading"
      BY <1>2
    <2> QED  BY <1>1, <1>3, <1>9, <1>10, <1>11, <2>1 DEF Typed
  <1>13. Readable(result')
    <2>1. Ordered(m, s) /\ s.contiguous = Packets[m] /\ Len(s.list) = Packets[m] /\ Packets[m] \in Nat
      BY <1>8, Fields DEF Whole
    <2>2. s.avail = Packets[m] + 1 /\ \A i \in 1 .. Packets[m] : Number(s.list[i]) = i - 1
      BY <2>1 DEF Ordered
    <2> QED  BY <1>10, <2>1, <2>2 DEF Readable
  <1>14. QueueOK(coll'.queue)
    <2>1. QueueOK(Tail(q))
      BY <1>1, <1>6 DEF Contents, QueueOK, q
    <2> QED  BY <1>9, <2>1
  <1>15. Contents'
    BY <1>1, <1>3, <1>9, <1>13, <1>14 DEF Contents
  <1>16. Control'
    <2>1. qpc = "front" /\ qpc' = "reading"
      BY <1>2
    <2> QED  BY <1>1, <1>3, <1>9, <1>10, <2>1 DEF Control
  <1>17. Balanced'
    <2>1. ErrorToken(coll') = ErrorToken(coll)
      BY <1>9, Zenon DEF ErrorToken
    <2>2. ErrorToken(coll) \in {0, 1}
      BY ErrorTokenType
    <2>3. coll'.sem = coll.sem /\ Len(coll'.queue) = Len(coll.queue) - 1 /\ Len(coll.queue) \in Nat
      BY <1>6, <1>9 DEF q
    <2>4. qpc = "front" /\ qpc' = "reading"
      BY <1>2
    <2> QED  BY <1>1, <1>3, <2>1, <2>2, <2>3, <2>4 DEF Balanced
  <1>18. BuffersConserved'
    <2>1. Arrived' = Arrived /\ result = None
      BY <1>1, <1>2, <1>3 DEF Arrived, Control
    <2>2. Arrived \in Nat /\ BuffersIn(coll) \in Nat /\ freed \in Nat /\ Len(inputQueue) \in Nat
      BY <1>1, Sums
    <2>3. BuffersIn(coll) = Total(MappingSizes(coll.mapping)) + Total(QueueSizes(q))
      BY <1>1, BuffersInParts DEF q
    <2>4. /\ BuffersIn(coll') = Total(MappingSizes(coll'.mapping)) + Total(QueueSizes(coll'.queue))
          /\ Total(MappingSizes(coll'.mapping)) \in Nat /\ Total(QueueSizes(coll'.queue)) \in Nat
      BY <1>9, BuffersInParts
    <2>5. Total(QueueSizes(q)) = Total(QueueSizes(coll'.queue)) + Len(result'.seq.list)
      BY <1>6, <1>9, <1>10 DEF s
    <2>6. Len(result'.seq.list) \in Nat
      BY <1>8, <1>10, SequencerFields
    <2>7. BuffersIn(coll) = BuffersIn(coll') + Len(result'.seq.list) /\ BuffersIn(coll') \in Nat
      BY <1>9, <2>3, <2>4, <2>5, <2>6
    <2>8. result' # None /\ freed' = freed /\ buffer' = buffer /\ inputQueue' = inputQueue
      BY <1>3, <1>10
    <2> QED  BY <1>1, <2>1, <2>2, <2>6, <2>7, <2>8 DEF BuffersConserved
  <1> QED  BY <1>12, <1>15, <1>16, <1>17, <1>18 DEF Inv

\* The cursor goes on.
LEMMA StepCursorNext ==
    ASSUME Inv, CursorNext
    PROVE  Inv'
  <1>1. Typed /\ Contents /\ Control /\ Balanced /\ BuffersConserved
    BY DEF Inv
  <1>2. /\ qpc = "reading" /\ ~AtEnd /\ result.seq.avail > 0
        /\ result' = [result EXCEPT !.pos = @ + 1, !.seq.avail = @ - 1]
        /\ UNCHANGED <<queryUnchanged, coll, qpc, freed, results>>
    BY DEF CursorNext
  <1>3. UNCHANGED <<inputQueue, dataAvail, pushing, arrivals, cpc, buffer, lost, coll, qpc, freed, results>>
    BY <1>2 DEF queryUnchanged, receiveVars
  <1>4. result \in Results /\ result # None /\ Readable(result)
    BY <1>1, <1>2 DEF Typed, Control, Contents
  <1>5. result.msg \in Messages /\ result.seq \in Sequencers /\ result.pos \in Nat
    BY <1>4 DEF Results
  <1>6. /\ result.seq.avail \in Nat /\ Len(result.seq.list) \in Nat /\ Packets[result.msg] \in Nat
    BY <1>5, SequencerFields, Fields
  <1>7. /\ result'.msg = result.msg /\ result'.pos = result.pos + 1 /\ result'.seq.list = result.seq.list
        /\ result'.seq.avail = result.seq.avail - 1 /\ result' \in Results
    <2> DEFINE u == [result.seq EXCEPT !.avail = result.seq.avail - 1]
    <2>1. result.seq.avail - 1 \in Nat
      BY <1>2, <1>6
    <2>2. u \in Sequencers /\ u.list = result.seq.list /\ u.avail = result.seq.avail - 1
      BY <1>5, <2>1 DEF Sequencers
    <2>3. result' = [result EXCEPT !.pos = result.pos + 1, !.seq = u]
      BY <1>2, <1>4 DEF Results
    <2> HIDE DEF u
    <2>4. result'.msg = result.msg /\ result'.pos = result.pos + 1 /\ result'.seq = u /\ result' \in Results
      <3>1. PICK j \in Nat : j = result.pos + 1
        BY <1>5
      <3>2. result' = [result EXCEPT !.pos = j, !.seq = u]
        BY <2>3, <3>1
      <3>3. result'.msg = result.msg /\ result'.pos = j /\ result'.seq = u
        BY <1>4, <3>2 DEF Results
      <3>4. result' \in Results
        BY <1>4, <2>2, <3>1, <3>2 DEF Results
      <3> QED  BY <3>1, <3>3, <3>4
    <2> QED  BY <2>2, <2>4
  <1>8. result' # None
    BY <1>7, NoneIsApart
  <1>9. Readable(result')
    <2>1. result.pos <= Packets[result.msg]
      BY <1>2, <1>4, <1>5, <1>6 DEF AtEnd, Readable
    <2> QED  BY <1>4, <1>5, <1>6, <1>7, <2>1 DEF Readable
  <1>10. Typed'
    BY <1>1, <1>3, <1>7 DEF Typed
  <1>11. Contents' /\ Control'
    BY <1>1, <1>2, <1>3, <1>8, <1>9 DEF Contents, Control
  <1>12. Balanced'
    BY <1>1, <1>3 DEF Balanced
  <1>13. BuffersConserved'
    <2>1. Arrived' = Arrived /\ result'.seq.list = result.seq.list
      BY <1>3, <1>7 DEF Arrived
    <2> QED  BY <1>1, <1>3, <1>4, <1>8, <2>1 DEF BuffersConserved
  <1> QED  BY <1>10, <1>11, <1>12, <1>13 DEF Inv

\* The result is released.
LEMMA StepReleaseResult ==
    ASSUME Inv, ReleaseResult
    PROVE  Inv'
  <1>1. Typed /\ Contents /\ Control /\ Balanced /\ BuffersConserved
    BY DEF Inv
  <1>2. /\ qpc = "reading" /\ freed' = freed + Len(result.seq.list) /\ result' = None /\ qpc' = "idle"
        /\ UNCHANGED <<queryUnchanged, coll, results>>
    BY DEF ReleaseResult
  <1>3. UNCHANGED <<inputQueue, dataAvail, pushing, arrivals, cpc, buffer, lost, coll, results>>
    BY <1>2 DEF queryUnchanged, receiveVars
  <1>4. result # None
    BY <1>1, <1>2 DEF Control
  <1>5. Arrived \in Nat /\ BuffersIn(coll) \in Nat /\ freed \in Nat /\ Len(inputQueue) \in Nat
        /\ Len(result.seq.list) \in Nat
    BY <1>1, <1>4, Sums
  <1>6. Typed'
    <2>1. freed' \in Nat
      BY <1>2, <1>5
    <2> QED  BY <1>1, <1>2, <1>3, <2>1 DEF Typed
  <1>7. Contents' /\ Control'
    BY <1>1, <1>2, <1>3 DEF Contents, Control
  <1>8. Balanced'
    BY <1>1, <1>2, <1>3 DEF Balanced
  <1>9. BuffersConserved'
    <2>1. Arrived' = Arrived
      BY <1>3 DEF Arrived
    <2> DEFINE h == Len(result.seq.list)
               x == IF buffer = None THEN 0 ELSE 1
               i == Len(inputQueue)
    <2>2. Arrived = freed + i + x + BuffersIn(coll) + h
      BY <1>1, <1>4 DEF BuffersConserved
    <2>3. BuffersConserved' <=> Arrived' = freed' + i + x + BuffersIn(coll) + 0
      BY <1>2, <1>3 DEF BuffersConserved
    <2>4. freed' = freed + h /\ i \in Nat /\ x \in Nat /\ h \in Nat
      BY <1>2, <1>5
    <2> HIDE DEF h, x, i
    <2> QED  BY <1>5, <2>1, <2>2, <2>3, <2>4
  <1> QED  BY <1>6, <1>7, <1>8, <1>9 DEF Inv

\* The query detaches its collator.
LEMMA StepDetachCollator ==
    ASSUME Inv, DetachCollator
    PROVE  Inv'
  <1>1. Typed /\ Contents /\ Control /\ Balanced /\ BuffersConserved /\ coll \in Collators
    BY DEF Inv, Typed
  <1>2. /\ coll.state = "attached" /\ qpc \in {"idle", "stopped"} /\ qpc' = "detached"
        /\ IF cpc \in {"attach", "signal"}
           THEN coll' = [coll EXCEPT !.state = "detached"] /\ UNCHANGED freed
           ELSE /\ coll' = [NewCollator EXCEPT !.state = "destroyed"]
                /\ freed' = freed + BuffersIn(coll)
        /\ UNCHANGED <<queryUnchanged, result, results>>
    BY DEF DetachCollator
  <1>3. UNCHANGED <<inputQueue, dataAvail, pushing, arrivals, cpc, buffer, lost, result, results>>
    BY <1>2 DEF queryUnchanged, receiveVars
  <1>4. freed \in Nat /\ BuffersIn(coll) \in Nat
    BY <1>1, Sums
  <1>5. /\ coll' \in Collators /\ MappingOK(coll'.mapping) /\ QueueOK(coll'.queue)
        /\ coll'.state = IF cpc \in {"attach", "signal"} THEN "detached" ELSE "destroyed"
        /\ BuffersIn(coll') \in Nat /\ freed' \in Nat
        /\ freed' + BuffersIn(coll') = freed + BuffersIn(coll)
    <2>1. CASE cpc \in {"attach", "signal"}
      <3>1. coll' = [coll EXCEPT !.state = "detached"] /\ freed' = freed
        BY <1>2, <2>1
      <3>2. coll' \in Collators /\ coll'.mapping = coll.mapping /\ coll'.queue = coll.queue
            /\ coll'.state = "detached"
        BY <1>1, <3>1 DEF Collators
      <3>3. BuffersIn(coll') = BuffersIn(coll)
        BY <1>1, <3>2, SameBuffers
      <3>4. MappingOK(coll'.mapping) /\ QueueOK(coll'.queue)
        BY <1>1, <3>2 DEF Contents
      <3> QED  BY <1>4, <2>1, <3>1, <3>2, <3>3, <3>4
    <2>2. CASE ~(cpc \in {"attach", "signal"})
      <3>1. coll' = [NewCollator EXCEPT !.state = "destroyed"] /\ freed' = freed + BuffersIn(coll)
        BY <1>2, <2>2
      <3>2. /\ coll' \in Collators /\ coll'.state = "destroyed" /\ MappingOK(coll'.mapping)
            /\ QueueOK(coll'.queue) /\ BuffersIn(coll') = 0
        BY <3>1, Destroyed
      <3>3. freed' = freed + BuffersIn(coll)
        BY <3>1
      <3> QED  BY <1>4, <2>2, <3>2, <3>3
    <2> QED  BY <2>1, <2>2
  <1>6. qpc' = "detached" /\ qpc \in {"idle", "stopped"}
    BY <1>2
  <1>7. Typed'
    BY <1>1, <1>3, <1>5, <1>6 DEF Typed
  <1>8. Contents'
    BY <1>1, <1>3, <1>5 DEF Contents
  <1>9. Control'
    BY <1>1, <1>2, <1>3, <1>5, <1>6 DEF Control
  <1>10. Balanced'
    BY <1>1, <1>3, <1>6 DEF Balanced
  <1>11. BuffersConserved'
    <2>1. freed' + BuffersIn(coll') + (IF buffer' = None THEN 0 ELSE 1)
            = freed + BuffersIn(coll) + (IF buffer = None THEN 0 ELSE 1)
      BY <1>3, <1>4, <1>5
    <2> QED  BY <1>1, <1>3, <1>5, <2>1, Conservation
  <1> QED  BY <1>7, <1>8, <1>9, <1>10, <1>11 DEF Inv


-----------------------------------------------------------------------------
(* The theorems.                                                              *)

\* The variables keep their types, the sequencers are ordered, the results whole, and
\* every token and every buffer is accounted for.
THEOREM Invariance ==
    Spec => []Inv
  <1>1. Init => Inv
    <2> SUFFICES ASSUME Init PROVE Inv
      OBVIOUS
    <2>1. /\ inputQueue = <<>> /\ dataAvail = 0 /\ pushing = FALSE /\ cpc = "pop" /\ buffer = None
          /\ coll = NewCollator /\ qpc = "idle" /\ result = None /\ arrivals = [p \in AllPackets |-> 0]
          /\ freed = 0 /\ results = [m \in Messages |-> 0] /\ lost = FALSE
      BY DEF Init
    <2>2. /\ coll.state = "none" /\ coll.mapping = [m \in Messages |-> None] /\ coll.queue = <<>>
          /\ coll.sem = 0 /\ coll.error = FALSE
      BY <2>1 DEF NewCollator
    <2>3. coll \in Collators
      <3>1. [m \in Messages |-> None] \in [Messages -> Sequencers \cup {None}]
        OBVIOUS
      <3>2. <<>> \in Seq([msg : Messages, seq : Sequencers])
        OBVIOUS
      <3>3. ASSUME NEW f \in [Messages -> Sequencers \cup {None}],
                   NEW q \in Seq([msg : Messages, seq : Sequencers])
            PROVE  [state |-> "none", mapping |-> f, queue |-> q, sem |-> 0,
                    error |-> FALSE, memLimitExceeded |-> FALSE] \in Collators
        BY DEF Collators
      <3>4. NewCollator \in Collators
        BY <3>1, <3>2, <3>3 DEF NewCollator
      <3> QED  BY <2>1, <3>4
    <2>4. Typed
      <3>1. pushing \in BOOLEAN /\ lost \in BOOLEAN
        BY <2>1
      <3>2. inputQueue \in Seq(Buffers) /\ arrivals \in [AllPackets -> Nat] /\ results \in [Messages -> Nat]
        BY <2>1
      <3> QED  BY <2>1, <2>3, <3>1, <3>2 DEF Typed
    <2>5. Contents
      <3>1. MappingOK(coll.mapping) /\ QueueOK(coll.queue)
        BY <2>2 DEF MappingOK, QueueOK
      <3>2. AllArePackets(inputQueue)
        BY <2>1 DEF AllArePackets
      <3> QED  BY <2>1, <3>1, <3>2 DEF Contents
    <2>6. Control
      BY <2>1, <2>2 DEF Control
    <2>7. Len(inputQueue) = 0 /\ Len(coll.queue) = 0
      BY <2>1, <2>2
    <2>8. Balanced
      <3>1. ErrorToken(coll) = 0
        BY <2>2 DEF ErrorToken
      <3>2. dataAvail + (IF pushing THEN 1 ELSE 0) = Len(inputQueue)
        BY <2>1, <2>7
      <3> QED  BY <2>1, <2>2, <2>7, <3>1, <3>2 DEF Balanced
    <2>9. BuffersConserved
      <3>1. Arrived = 0
        <4>1. \A x \in DOMAIN arrivals : arrivals[x] = 0
          BY <2>1
        <4> QED  BY <4>1, TotalZero DEF Arrived
      <3>2. Total(MappingSizes(coll.mapping)) = 0
        <4>1. \A m \in DOMAIN MappingSizes(coll.mapping) : MappingSizes(coll.mapping)[m] = 0
          BY <2>2 DEF MappingSizes, Size
        <4> QED  BY <4>1, TotalZero
      <3>3. Total(QueueSizes(coll.queue)) = 0
        <4>1. \A k \in DOMAIN QueueSizes(coll.queue) : QueueSizes(coll.queue)[k] = 0
          BY <2>2 DEF QueueSizes
        <4> QED  BY <4>1, TotalZero
      <3>4. BuffersIn(coll) = 0
        <4>1. BuffersIn(coll) = Total(MappingSizes(coll.mapping)) + Total(QueueSizes(coll.queue))
          BY <2>3, BuffersInParts
        <4> QED  BY <3>2, <3>3, <4>1
      <3> QED  BY <2>1, <2>7, <3>1, <3>4 DEF BuffersConserved
    <2> QED  BY <2>4, <2>5, <2>6, <2>8, <2>9 DEF Inv
  <1>2. Inv /\ [Next]_vars => Inv'
    <2> SUFFICES ASSUME Inv, [Next]_vars PROVE Inv'
      OBVIOUS
    <2>1. CASE Receive
      <3>1. PICK x \in AllPackets, resent \in BOOLEAN, duplicate \in BOOLEAN :
                 PushOwn(x[1], x[2], resent, duplicate)
        BY <2>1 DEF Receive
      <3> QED  BY <3>1, StepPushOwn
    <2>2. CASE SignalPushed
      BY <2>2, StepSignalPushed
    <2>3. CASE CollatorThread
      BY <2>3, StepPop, StepLookup, StepDiscard, StepRefuse, StepCollate, StepSignalResult
         DEF CollatorThread
    <2>4. CASE CreateCollator
      BY <2>4, StepCreateCollator
    <2>5. CASE QueryStep \/ TimeOut
      BY <2>5, StepWaiting, StepWaitEnds, StepFront DEF QueryStep
    <2>6. CASE CursorNext
      BY <2>6, StepCursorNext
    <2>7. CASE ReleaseResult
      BY <2>7, StepReleaseResult
    <2>8. CASE Interrupt
      BY <2>8, StepInterrupt
    <2>9. CASE DetachCollator
      BY <2>9, StepDetachCollator
    <2>10. CASE UNCHANGED vars
      <3>1. UNCHANGED <<inputQueue, dataAvail, pushing, cpc, buffer, coll, qpc, result, arrivals, freed,
                        results, lost>>
        BY <2>10 DEF vars
      <3>2. Typed' /\ Contents' /\ Control' /\ Balanced'
        BY <3>1 DEF Inv, Typed, Contents, Control, Balanced
      <3>3. BuffersConserved'
        <4>1. Arrived' = Arrived
          BY <3>1 DEF Arrived
        <4> QED  BY <3>1, <4>1 DEF Inv, BuffersConserved
      <3> QED  BY <3>2, <3>3 DEF Inv
    <2> QED  BY <2>1, <2>2, <2>3, <2>4, <2>5, <2>6, <2>7, <2>8, <2>9, <2>10 DEF Next
  <1> QED  BY <1>1, <1>2, PTL DEF Spec

\* A token of input_queue stands for a buffer in it and a token of the collator's
\* semaphore for a result or an interrupt, at every moment of every interleaving, and all
\* variables keep their types.
THEOREM TokensStayExact ==
    Spec => []TokensExact
  <1>1. Inv => TokensExact
    <2> SUFFICES ASSUME Inv PROVE TokensExact
      OBVIOUS
    <2>1. Typed /\ Balanced /\ coll \in Collators
      BY DEF Inv, Typed
    <2>2. /\ coll.state \in {"none", "attached", "detached", "destroyed"}
          /\ coll.mapping \in [Messages -> Sequencers \cup {None}]
          /\ coll.queue \in Seq([msg : Messages, seq : Sequencers])
          /\ coll.sem \in Nat /\ coll.error \in BOOLEAN /\ coll.memLimitExceeded \in BOOLEAN
      BY <2>1, CollatorFields
    <2>3. TypeOK
      BY <2>1, <2>2, Zenon DEF Typed, TypeOK
    <2> QED  BY <2>1, <2>3, Zenon DEF Balanced, TokensExact, ErrorToken
  <1> QED  BY <1>1, Invariance, PTL

\* A result is whole and in order, and its cursor never waits.
THEOREM ResultsAreReadable ==
    Spec => []ResultsReadable
  <1>1. Inv => ResultsReadable
    <2> SUFFICES ASSUME Inv PROVE ResultsReadable
      OBVIOUS
    <2>1. Typed /\ Contents /\ Control /\ coll \in Collators
      BY DEF Inv, Typed
    <2>2. ASSUME NEW k \in DOMAIN coll.queue
          PROVE  /\ Len(coll.queue[k].seq.list) = Packets[coll.queue[k].msg]
                 /\ coll.queue[k].seq.avail = Packets[coll.queue[k].msg] + 1
      <3>1. k \in 1 .. Len(coll.queue) /\ coll.queue[k].msg \in Messages
        <4>1. coll.queue \in Seq([msg : Messages, seq : Sequencers])
              /\ \A j \in 1 .. Len(coll.queue) : coll.queue[j].msg \in Messages /\ coll.queue[j].seq \in Sequencers
          BY <2>1, CollatorFields
        <4>2. DOMAIN coll.queue = 1 .. Len(coll.queue)
          BY <4>1
        <4> QED  BY <4>1, <4>2
      <3>2. Whole(coll.queue[k].msg, coll.queue[k].seq)
        BY <2>1, <3>1 DEF Contents, QueueOK
      <3> QED  BY <3>1, <3>2 DEF Whole, Ordered
    <2>3. ASSUME qpc = "reading", ~AtEnd
          PROVE  result.seq.avail > 0 /\ (result.pos > 0 => Number(result.seq.list[result.pos]) = result.pos - 1)
      <3>1. result # None /\ result \in Results /\ Readable(result)
        BY <2>1, <2>3 DEF Typed, Control, Contents
      <3>2. result.msg \in Messages /\ result.pos \in Nat /\ result.seq \in Sequencers
        BY <3>1 DEF Results
      <3>3. Packets[result.msg] \in Nat
        BY <3>2, Fields
      <3>4. result.pos <= Packets[result.msg]
        BY <2>3, <3>1, <3>2, <3>3 DEF AtEnd, Readable
      <3>5. result.seq.avail > 0
        BY <3>1, <3>2, <3>3, <3>4 DEF Readable
      <3>6. result.pos > 0 => result.pos \in 1 .. Packets[result.msg]
        BY <3>2, <3>3, <3>4
      <3> QED  BY <3>1, <3>5, <3>6 DEF Readable
    <2> QED  BY <2>2, <2>3 DEF ResultsReadable
  <1> QED  BY <1>1, Invariance, PTL

\* The sequencers are sorted, without duplicates, and count what can be read exactly.
THEOREM SequencersAreExact ==
    Spec => []SequencersExact
  <1>1. Inv => SequencersExact
    <2> SUFFICES ASSUME Inv, NEW s \in Live
                 PROVE  /\ \A i \in 1 .. Len(s.list) - 1 : s.list[i] < s.list[i + 1]
                        /\ s.tail = s.list[Len(s.list)]
                        /\ \A i \in 1 .. s.contiguous : Number(s.list[i]) = i - 1
                        /\ s.contiguous < Len(s.list) => Number(s.list[s.contiguous + 1]) # s.contiguous
      BY DEF SequencersExact
    <2>1. Typed /\ Contents /\ coll \in Collators
      BY DEF Inv, Typed
    <2>2. \E m \in Messages : Ordered(m, s) /\ Len(s.list) # 0
      <3>1. CASE \E m \in Messages : s = coll.mapping[m] /\ s # None
        <4>1. PICK m \in Messages : s = coll.mapping[m] /\ s # None
          BY <3>1
        <4>2. Partial(m, s)
          BY <2>1, <4>1 DEF Contents, MappingOK
        <4>3. Ordered(m, s) /\ Len(s.list) > 0
          BY <4>2 DEF Partial
        <4> QED  BY <4>3
      <3>2. CASE \E k \in DOMAIN coll.queue : s = coll.queue[k].seq
        <4>1. PICK k \in DOMAIN coll.queue : s = coll.queue[k].seq
          BY <3>2
        <4>2. coll.queue \in Seq([msg : Messages, seq : Sequencers])
              /\ \A j \in 1 .. Len(coll.queue) : coll.queue[j].msg \in Messages /\ coll.queue[j].seq \in Sequencers
          BY <2>1, CollatorFields
        <4>3. DOMAIN coll.queue = 1 .. Len(coll.queue)
          BY <4>2
        <4>4. k \in 1 .. Len(coll.queue) /\ coll.queue[k].msg \in Messages
          BY <4>1, <4>2, <4>3
        <4>5. Whole(coll.queue[k].msg, s)
          BY <2>1, <4>1, <4>4 DEF Contents, QueueOK
        <4>6. Packets[coll.queue[k].msg] \in Nat /\ Packets[coll.queue[k].msg] >= 1
          BY <4>4, Fields
        <4>7. Ordered(coll.queue[k].msg, s) /\ Len(s.list) # 0
          BY <4>5, <4>6 DEF Whole
        <4> QED  BY <4>4, <4>7
      <3> QED  BY <3>1, <3>2 DEF Live
    <2>3. PICK m \in Messages : Ordered(m, s) /\ Len(s.list) # 0
      BY <2>2
    <2>4. Len(s.list) \in Nat
      BY <2>3, SequencerFields DEF Ordered
    <2>5. \A i \in 1 .. Len(s.list) - 1 : s.list[i] < s.list[i + 1]
      <3> SUFFICES ASSUME NEW i \in 1 .. Len(s.list) - 1 PROVE s.list[i] < s.list[i + 1]
        OBVIOUS
      <3>1. i \in 1 .. Len(s.list) /\ i + 1 \in 1 .. Len(s.list) /\ i < i + 1
        BY <2>4
      <3> QED  BY <2>3, <3>1 DEF Ordered
    <2> QED  BY <2>3, <2>5 DEF Ordered
  <1> QED  BY <1>1, Invariance, PTL

\* Every buffer that arrived is in one place, or was released once.
THEOREM BuffersAreConserved ==
    Spec => []BuffersConserved
  <1>1. Inv => BuffersConserved
    BY DEF Inv
  <1> QED  BY <1>1, Invariance, PTL
=============================================================================
