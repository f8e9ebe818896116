----------------------- MODULE ReaderWriterQueue_proofs -----------------------
(* The queue between threads hands every item to one reader, in order, and    *)
(* wakes whoever waits, for any number of readers, writers, items and slots   *)
(* that the fields of its word can hold.                                      *)
EXTENDS ReaderWriterQueue, FiniteSetTheorems, TLAPS

-----------------------------------------------------------------------------
(* Numbers that wrap around.                                                  *)

\* The remainder lies below the modulus.
LEMMA ModRange ==
    ASSUME NEW N \in Nat \ {0}, NEW a \in Int
    PROVE  a % N \in 0 .. N - 1
  OBVIOUS

\* Every number is a multiple of the modulus and a remainder.
LEMMA ModSplit ==
    ASSUME NEW N \in Nat \ {0}, NEW a \in Int
    PROVE  \E q \in Int, r \in 0 .. N - 1 : a = N * q + r /\ a % N = r
  <1>1. ASSUME NEW x, x = a \div N, NEW y, y = a % N
        PROVE  x \in Int /\ y \in 0 .. N - 1 /\ a = N * x + y
    BY <1>1
  <1> DEFINE x == a \div N
             y == a % N
  <1>2. x \in Int /\ y \in 0 .. N - 1 /\ a = N * x + y
    BY <1>1
  <1>3. a % N = y
    OBVIOUS
  <1> HIDE DEF x, y
  <1> QED  BY <1>2, <1>3

\* The remainder is the only one.
LEMMA ModUnique ==
    ASSUME NEW N \in Nat \ {0}, NEW a \in Int, NEW q \in Int, NEW r \in 0 .. N - 1,
           a = N * q + r
    PROVE  a % N = r
  OBVIOUS

\* A number below the modulus is its own remainder.
LEMMA ModSmall ==
    ASSUME NEW N \in Nat \ {0}, NEW a \in 0 .. N - 1
    PROVE  a % N = a
  OBVIOUS

\* A multiple of the modulus does not change the remainder.
LEMMA ModMultiple ==
    ASSUME NEW N \in Nat \ {0}, NEW a \in Int, NEW b \in Int, NEW k \in Int, b = N * k + a
    PROVE  b % N = a % N
  <1>1. PICK q \in Int, r \in 0 .. N - 1 : a = N * q + r /\ a % N = r
    BY ModSplit
  <1>2. k + q \in Int /\ N * (k + q) = N * k + N * q
    OBVIOUS
  <1>3. b = N * (k + q) + r
    BY <1>1, <1>2
  <1>4. b % N = r
    BY <1>2, <1>3, ModUnique
  <1> QED  BY <1>1, <1>4

\* Equal remainders of numbers less than the modulus apart: they are equal.
LEMMA ModSame ==
    ASSUME NEW N \in Nat \ {0}, NEW a \in Int, NEW b \in Int,
           a % N = b % N, a <= b, b < a + N
    PROVE  a = b
  <1>1. PICK p \in Int, r \in 0 .. N - 1 : a = N * p + r /\ a % N = r
    BY ModSplit
  <1>2. PICK q \in Int, t \in 0 .. N - 1 : b = N * q + t /\ b % N = t
    BY ModSplit
  <1>3. r = t
    BY <1>1, <1>2
  <1> DEFINE d == q - p
  <1>4. d \in Int /\ q = p + d
    OBVIOUS
  <1> HIDE DEF d
  <1>5. N * q = N * p + N * d
    BY <1>4
  <1>6. b - a = N * d
    BY <1>1, <1>2, <1>3, <1>4, <1>5
  <1>7. d >= 1 => N * d >= N
    BY <1>4
  <1>8. d <= 0 - 1 => N * d <= 0 - N
    BY <1>4
  <1>9. d = 0
    BY <1>4, <1>6, <1>7, <1>8
  <1> QED  BY <1>4, <1>6, <1>9

\* Adding before or after the wrap around is the same.
LEMMA ModAdd ==
    ASSUME NEW N \in Nat \ {0}, NEW a \in Int, NEW b \in Int
    PROVE  ((a % N) + b) % N = (a + b) % N
  <1>1. PICK q \in Int, r \in 0 .. N - 1 : a = N * q + r /\ a % N = r
    BY ModSplit
  <1>2. a + b = N * q + (r + b) /\ r + b \in Int /\ a + b \in Int
    BY <1>1
  <1>3. (a + b) % N = (r + b) % N
    BY <1>2, ModMultiple
  <1> QED  BY <1>1, <1>3

\* The remainder by a divisor of the modulus can be taken after the wrap around.
LEMMA ModDivisor ==
    ASSUME NEW N \in Nat \ {0}, NEW K \in Nat \ {0}, N % K = 0, NEW a \in Int
    PROVE  (a % N) % K = a % K
  <1>1. PICK q \in Int, m \in 0 .. N - 1 : a = N * q + m /\ a % N = m
    BY ModSplit
  <1>0. N \in Int
    OBVIOUS
  <1>2. PICK k \in Int, r \in 0 .. K - 1 : N = K * k + r /\ N % K = r
    BY <1>0, ModSplit
  <1>3. N = K * k
    BY <1>2
  <1> DEFINE j == k * q
  <1>4. j \in Int /\ N * q = K * j
    BY <1>3
  <1> HIDE DEF j
  <1>5. m \in Int /\ a = K * j + m
    BY <1>1, <1>4
  <1>6. a % K = m % K
    BY <1>4, <1>5, ModMultiple
  <1> QED  BY <1>1, <1>6

-----------------------------------------------------------------------------
(* Counting.                                                                  *)

\* Sets that agree but for one element differ by one in size, or not at all.
LEMMA CountChange ==
    ASSUME NEW S, IsFiniteSet(S), NEW A, NEW B, A \subseteq S, B \subseteq S,
           NEW x, \A y \in S : y # x => (y \in A <=> y \in B)
    PROVE  /\ Cardinality(A) \in Nat /\ Cardinality(B) \in Nat
           /\ Cardinality(B) = Cardinality(A) + (IF x \in B THEN 1 ELSE 0)
                                              - (IF x \in A THEN 1 ELSE 0)
  <1>1. IsFiniteSet(A) /\ IsFiniteSet(B)
    BY FS_Subset
  <1>2. Cardinality(A) \in Nat /\ Cardinality(B) \in Nat
    BY <1>1, FS_CardinalityType
  <1>3. CASE x \in A <=> x \in B
    <2>1. A = B
      BY <1>3
    <2> QED  BY <1>2, <1>3, <2>1
  <1>4. CASE x \in A /\ x \notin B
    <2>1. A = B \cup {x}
      BY <1>4
    <2>2. Cardinality(A) = Cardinality(B) + 1
      BY <1>1, <1>4, <2>1, FS_AddElement
    <2> QED  BY <1>2, <1>4, <2>2
  <1>5. CASE x \notin A /\ x \in B
    <2>1. B = A \cup {x}
      BY <1>5
    <2>2. Cardinality(B) = Cardinality(A) + 1
      BY <1>1, <1>5, <2>1, FS_AddElement
    <2> QED  BY <1>2, <1>5, <2>2
  <1> QED  BY <1>3, <1>4, <1>5

\* The size of a part of a finite set, and when it is zero.
LEMMA CountBounds ==
    ASSUME NEW S, IsFiniteSet(S), NEW A, A \subseteq S
    PROVE  /\ IsFiniteSet(A) /\ Cardinality(A) \in Nat /\ Cardinality(S) \in Nat
           /\ Cardinality(A) <= Cardinality(S)
           /\ Cardinality(A) = 0 <=> A = {}
  <1>1. A \in SUBSET S
    OBVIOUS
  <1>2. IsFiniteSet(A) /\ Cardinality(A) <= Cardinality(S)
    BY <1>1, FS_Subset
  <1>3. Cardinality(A) \in Nat /\ Cardinality(S) \in Nat
    BY <1>2, FS_CardinalityType
  <1>4. Cardinality(A) = 0 <=> A = {}
    BY <1>2, FS_EmptySet
  <1> QED  BY <1>2, <1>3, <1>4

\* reset() leaves the numbers of waiting threads in the word, so each use of the
\* queue may add every thread once more: the fields have to hold them.
FieldsSuffice ==
    /\ (MaxResets + 1) * Cardinality(Readers) < ReaderLimit
    /\ (MaxResets + 1) * Cardinality(Writers) < WriterLimit

-----------------------------------------------------------------------------
(* Types.                                                                     *)

Places == {"idle", "try", "check", "last", "park", "parked", "wait", "sleep", "woken",
           "slot", "store", "signal", "stop", "wake", "done"}
Slots == 0 .. NumSlots - 1
Cells == [seq : Sequence, value : Items \cup {NoItem}]
ItemOrNone == Items \cup {NoItem}

\* Where a writer has an item in hand, and where a thread owns a slot.
Producing == {"try", "check", "park", "parked", "wait", "sleep", "woken", "slot", "store"}
Claiming == {"slot", "store"}

\* The types, but for the counts of active threads and what was received.
Types ==
    /\ state \in State /\ slot \in [Slots -> Cells]
    /\ readTokens \in Nat /\ writeTokens \in Nat
    /\ activeReaders \in Int /\ activeWriters \in Int /\ aborted \in BOOLEAN
    /\ pc \in [Threads -> Places] /\ cur \in [Threads -> State]
    /\ next \in [Writers -> Nat] /\ result \in [Readers -> ItemOrNone]
    /\ apc \in {"idle", "signal"} /\ cuts \in 0 .. MaxCuts /\ resets \in 0 .. MaxResets
    /\ line \in Seq(Items) /\ due \in [Readers -> ItemOrNone]
    /\ early \in BOOLEAN

\* The count is that of the line, and what the items of the writers are.
Proper ==
    /\ Len(line) = state.count
    /\ apc = "signal" => aborted
    /\ \A w \in Writers : /\ next[w] >= 1 /\ next[w] <= NumItems + 1
                          /\ pc[w] \in Producing => next[w] <= NumItems
    /\ \A r \in Readers : pc[r] \in Claiming => due[r] \in Items

\* What the arithmetic needs of the constants.
LEMMA Widths ==
    /\ SeqSpace \in Nat \ {0} /\ NumSlots \in Nat \ {0} /\ ReaderLimit \in Nat \ {0}
    /\ WriterLimit \in Nat \ {0} /\ MaxItems \in Nat \ {0} /\ MaxItems < NumSlots /\ NumSlots > 1
    /\ SeqSpace % NumSlots = 0 /\ NumSlots * WriterLimit <= SeqSpace
    /\ FirstSeq \in Sequence /\ FirstItems \in Nat /\ LaterItems \in Nat
    /\ MaxCuts \in Nat /\ MaxResets \in Nat /\ Sequence = 0 .. SeqSpace - 1
    /\ FirstSeq \in Nat
  BY QueueAssumption DEF Sequence

\* There are finitely many readers and writers, and no thread is both.
LEMMA ThreadSets ==
    /\ IsFiniteSet(Readers) /\ IsFiniteSet(Writers)
    /\ Cardinality(Readers) \in Nat /\ Cardinality(Writers) \in Nat
    /\ Cardinality(Readers) < ReaderLimit /\ Cardinality(Writers) < WriterLimit
    /\ \A t \in Readers : t \in Threads /\ t \notin Writers
    /\ \A t \in Writers : t \in Threads /\ t \notin Readers
  <1>1. Cardinality(Readers) \in Nat /\ Cardinality(Writers) \in Nat
    BY QueueAssumption, FS_CardinalityType
  <1> QED  BY <1>1, QueueAssumption DEF Threads

\* The fields of a word.
LEMMA StateFields ==
    ASSUME NEW s \in State
    PROVE  /\ s.deq \in Sequence /\ s.readers \in 0 .. ReaderLimit - 1
           /\ s.writers \in 0 .. WriterLimit - 1 /\ s.count \in 0 .. MaxItems
  BY DEF State

\* A number modulo the space of the numbers is one of them.
LEMMA SeqType ==
    ASSUME NEW n \in Int
    PROVE  Seq1(n) \in Sequence
  BY Widths, ModRange DEF Seq1

\* The word after an item was added: a waiting reader is taken off the count.
LEMMA EnqueuedFields ==
    ASSUME NEW s \in State, s.count # MaxItems
    PROVE  /\ Enqueued(s) \in State
           /\ Enqueued(s).deq = s.deq /\ Enqueued(s).writers = s.writers
           /\ Enqueued(s).count = s.count + 1
           /\ Enqueued(s).readers = IF s.readers = 0 THEN 0 ELSE s.readers - 1
  <1>1. /\ s.deq \in Sequence /\ s.readers \in 0 .. ReaderLimit - 1
        /\ s.writers \in 0 .. WriterLimit - 1 /\ s.count \in 0 .. MaxItems
    BY StateFields
  <1>2. /\ s.count + 1 \in 0 .. MaxItems
        /\ (IF s.readers = 0 THEN 0 ELSE s.readers - 1) \in 0 .. ReaderLimit - 1
    BY <1>1, Widths
  <1> QED  BY <1>1, <1>2 DEF Enqueued, OneFewer, State

\* The word after an item was removed: a waiting writer is taken off the count.
LEMMA DequeuedFields ==
    ASSUME NEW s \in State, s.count # 0
    PROVE  /\ Dequeued(s) \in State
           /\ Dequeued(s).deq = Seq1(s.deq + 1) /\ Dequeued(s).readers = s.readers
           /\ Dequeued(s).count = s.count - 1
           /\ Dequeued(s).writers = IF s.writers = 0 THEN 0 ELSE s.writers - 1
  <1>1. /\ s.deq \in Sequence /\ s.readers \in 0 .. ReaderLimit - 1
        /\ s.writers \in 0 .. WriterLimit - 1 /\ s.count \in 0 .. MaxItems
    BY StateFields
  <1>2. /\ s.count - 1 \in 0 .. MaxItems
        /\ (IF s.writers = 0 THEN 0 ELSE s.writers - 1) \in 0 .. WriterLimit - 1
    BY <1>1, Widths
  <1>3. s.deq + 1 \in Int
    BY <1>1, Widths
  <1>4. Seq1(s.deq + 1) \in Sequence
    BY <1>3, SeqType
  <1> QED  BY <1>1, <1>2, <1>4 DEF Dequeued, OneFewer, State

\* A thread that is added to the word changes nothing else, while its field has room.
LEMMA WithReaderFields ==
    ASSUME NEW s \in State, s.readers + 1 < ReaderLimit
    PROVE  /\ WithReader(s) \in State
           /\ WithReader(s).deq = s.deq /\ WithReader(s).writers = s.writers
           /\ WithReader(s).count = s.count /\ WithReader(s).readers = s.readers + 1
  <1>1. /\ s.deq \in Sequence /\ s.readers \in 0 .. ReaderLimit - 1
        /\ s.writers \in 0 .. WriterLimit - 1 /\ s.count \in 0 .. MaxItems
    BY StateFields
  <1>2. s.readers + 1 \in 0 .. ReaderLimit - 1
    BY <1>1, Widths
  <1> QED  BY <1>1, <1>2 DEF WithReader, State

\* The same for a writer.
LEMMA WithWriterFields ==
    ASSUME NEW s \in State, s.writers + 1 < WriterLimit
    PROVE  /\ WithWriter(s) \in State
           /\ WithWriter(s).deq = s.deq /\ WithWriter(s).readers = s.readers
           /\ WithWriter(s).count = s.count /\ WithWriter(s).writers = s.writers + 1
  <1>1. /\ s.deq \in Sequence /\ s.readers \in 0 .. ReaderLimit - 1
        /\ s.writers \in 0 .. WriterLimit - 1 /\ s.count \in 0 .. MaxItems
    BY StateFields
  <1>2. s.writers + 1 \in 0 .. WriterLimit - 1
    BY <1>1, Widths
  <1> QED  BY <1>1, <1>2 DEF WithWriter, State

-----------------------------------------------------------------------------
(* Counting the threads.                                                      *)

\* How many threads of S are at a place of M.
CountAt(S, M) == Cardinality({t \in S : pc[t] \in M})

Sleepers == {"parked", "wait", "sleep"}
Gone == {"parked", "wait", "sleep", "woken", "stop", "wake", "done"}
Unparked == Places \ {"park"}
Active == Places \ {"wake", "done"}

One(b) == IF b THEN 1 ELSE 0

\* c threads are counted in the word, k tokens are there, n threads will signal, w
\* threads wait, g of them or have gone since, u are not about to wait; act threads
\* of the other kind are active, and m counts were left by earlier uses of the queue.
\* Those that wait are covered.  While all is as usual, nothing else is counted;
\* after an abort, or when no thread of the other kind is left, nobody waits twice.
Sided(c, k, n, w, g, u, act, m) ==
    /\ w <= c + k + n
    /\ ~aborted /\ act > 0 => c + k + n <= m + w
    /\ aborted /\ act > 0 => c + n <= m + g
    /\ act <= 0 => c + n <= m + u

ReaderSide ==
    Sided(state.readers, readTokens, Cardinality(WillSignalReader), CountAt(Readers, Sleepers),
          CountAt(Readers, Gone), CountAt(Readers, Unparked), activeWriters,
          resets * Cardinality(Readers))

WriterSide ==
    Sided(state.writers, writeTokens, Cardinality(WillSignalWriter), CountAt(Writers, Sleepers),
          CountAt(Writers, Gone), CountAt(Writers, Unparked), activeReaders,
          resets * Cardinality(Writers))

\* The threads that have not stopped; the last one to stop wakes the other side.
Actives ==
    /\ activeReaders = CountAt(Readers, Active) /\ activeWriters = CountAt(Writers, Active)
    /\ (\E t \in Readers : pc[t] = "wake") => activeReaders <= 0
    /\ (\E t \in Writers : pc[t] = "wake") => activeWriters <= 0

Counts == ReaderSide /\ WriterSide /\ Actives

\* The types of the counts, and how they compare.
LEMMA CountTypes ==
    ASSUME Types, NEW S \in {Readers, Writers}
    PROVE  /\ CountAt(S, Sleepers) \in Nat /\ CountAt(S, Gone) \in Nat
           /\ CountAt(S, Unparked) \in Nat /\ CountAt(S, Active) \in Nat
           /\ CountAt(S, Sleepers) <= CountAt(S, Gone) /\ CountAt(S, Gone) <= CountAt(S, Unparked)
           /\ CountAt(S, Unparked) <= Cardinality(S) /\ CountAt(S, Active) <= Cardinality(S)
           /\ Cardinality(WillSignalReader) \in Nat /\ Cardinality(WillSignalWriter) \in Nat
           /\ Cardinality(S) \in Nat
  <1> DEFINE A == {t \in S : pc[t] \in Sleepers}
             B == {t \in S : pc[t] \in Gone}
             C == {t \in S : pc[t] \in Unparked}
             D == {t \in S : pc[t] \in Active}
  <1>1. IsFiniteSet(S)
    BY ThreadSets
  <1>2. A \subseteq B /\ B \subseteq C /\ C \subseteq S /\ D \subseteq S
    BY DEF Sleepers, Gone, Unparked, Places
  <1>3. IsFiniteSet(C) /\ Cardinality(C) <= Cardinality(S) /\ Cardinality(C) \in Nat
        /\ Cardinality(S) \in Nat
    BY <1>1, <1>2, CountBounds
  <1>4. IsFiniteSet(B) /\ Cardinality(B) <= Cardinality(C) /\ Cardinality(B) \in Nat
    BY <1>2, <1>3, CountBounds
  <1>5. Cardinality(A) <= Cardinality(B) /\ Cardinality(A) \in Nat
    BY <1>2, <1>4, CountBounds
  <1>6. Cardinality(D) <= Cardinality(S) /\ Cardinality(D) \in Nat
    BY <1>1, <1>2, CountBounds
  <1>7. WillSignalReader \subseteq Writers /\ WillSignalWriter \subseteq Readers
    BY DEF WillSignalReader, WillSignalWriter
  <1>8. Cardinality(WillSignalReader) \in Nat /\ Cardinality(WillSignalWriter) \in Nat
    BY <1>7, ThreadSets, CountBounds
  <1> QED  BY <1>3, <1>4, <1>5, <1>6, <1>8 DEF CountAt

\* Only thread t moves.
Moves(t) == \A u \in Threads : u # t => pc'[u] = pc[u] /\ cur'[u] = cur[u]

\* A step of one thread changes a count by that thread.
LEMMA CountMoves ==
    ASSUME NEW S \in {Readers, Writers}, NEW M, NEW t \in Threads, Moves(t)
    PROVE  CountAt(S, M)' = CountAt(S, M) + One(t \in S /\ pc'[t] \in M) - One(t \in S /\ pc[t] \in M)
           /\ CountAt(S, M) \in Nat /\ CountAt(S, M)' \in Nat
  <1> DEFINE A == {u \in S : pc[u] \in M}
             B == {u \in S : pc'[u] \in M}
  <1>1. IsFiniteSet(S) /\ A \subseteq S /\ B \subseteq S /\ S \subseteq Threads
    BY ThreadSets
  <1>2. \A y \in S : y # t => (y \in A <=> y \in B)
    BY <1>1 DEF Moves
  <1>3. t \in B <=> t \in S /\ pc'[t] \in M
    OBVIOUS
  <1>4. t \in A <=> t \in S /\ pc[t] \in M
    OBVIOUS
  <1>5. CountAt(S, M)' = Cardinality(B) /\ CountAt(S, M) = Cardinality(A)
    BY DEF CountAt
  <1> HIDE DEF A, B
  <1>6. /\ Cardinality(A) \in Nat /\ Cardinality(B) \in Nat
        /\ Cardinality(B) = Cardinality(A) + (IF t \in B THEN 1 ELSE 0) - (IF t \in A THEN 1 ELSE 0)
    BY <1>1, <1>2, CountChange
  <1> QED  BY <1>3, <1>4, <1>5, <1>6 DEF One

\* The same for those that will signal.
LEMMA SignalMoves ==
    ASSUME NEW t \in Threads, Moves(t)
    PROVE  /\ Cardinality(WillSignalReader) \in Nat /\ Cardinality(WillSignalReader)' \in Nat
           /\ Cardinality(WillSignalWriter) \in Nat /\ Cardinality(WillSignalWriter)' \in Nat
           /\ Cardinality(WillSignalReader)' = Cardinality(WillSignalReader)
                 + One(t \in WillSignalReader') - One(t \in WillSignalReader)
           /\ Cardinality(WillSignalWriter)' = Cardinality(WillSignalWriter)
                 + One(t \in WillSignalWriter') - One(t \in WillSignalWriter)
  <1> DEFINE A == WillSignalReader
             B == WillSignalReader'
             C == WillSignalWriter
             D == WillSignalWriter'
  <1>1. A \subseteq Writers /\ B \subseteq Writers /\ C \subseteq Readers /\ D \subseteq Readers
    BY DEF WillSignalReader, WillSignalWriter
  <1>2. \A y \in Writers : y # t => (y \in A <=> y \in B)
    BY ThreadSets DEF Moves, WillSignalReader
  <1>3. \A y \in Readers : y # t => (y \in C <=> y \in D)
    BY ThreadSets DEF Moves, WillSignalWriter
  <1> HIDE DEF A, B, C, D
  <1>4. /\ Cardinality(A) \in Nat /\ Cardinality(B) \in Nat
        /\ Cardinality(B) = Cardinality(A) + (IF t \in B THEN 1 ELSE 0) - (IF t \in A THEN 1 ELSE 0)
    BY <1>1, <1>2, ThreadSets, CountChange
  <1>5. /\ Cardinality(C) \in Nat /\ Cardinality(D) \in Nat
        /\ Cardinality(D) = Cardinality(C) + (IF t \in D THEN 1 ELSE 0) - (IF t \in C THEN 1 ELSE 0)
    BY <1>1, <1>3, ThreadSets, CountChange
  <1> QED  BY <1>4, <1>5 DEF One, A, B, C, D

\* The counts of one side when a thread of the other moves, and of its own.
SameAt(S) ==
    /\ CountAt(S, Sleepers)' = CountAt(S, Sleepers) /\ CountAt(S, Gone)' = CountAt(S, Gone)
    /\ CountAt(S, Unparked)' = CountAt(S, Unparked) /\ CountAt(S, Active)' = CountAt(S, Active)

ShiftAt(S, t) ==
    /\ CountAt(S, Sleepers)' = CountAt(S, Sleepers) + One(pc'[t] \in Sleepers) - One(pc[t] \in Sleepers)
    /\ CountAt(S, Gone)' = CountAt(S, Gone) + One(pc'[t] \in Gone) - One(pc[t] \in Gone)
    /\ CountAt(S, Unparked)' = CountAt(S, Unparked) + One(pc'[t] \in Unparked) - One(pc[t] \in Unparked)
    /\ CountAt(S, Active)' = CountAt(S, Active) + One(pc'[t] \in Active) - One(pc[t] \in Active)

\* One step of a reader.
LEMMA ReaderMoves ==
    ASSUME NEW r \in Readers, Moves(r)
    PROVE  /\ SameAt(Writers) /\ ShiftAt(Readers, r)
           /\ Cardinality(WillSignalReader)' = Cardinality(WillSignalReader)
           /\ Cardinality(WillSignalWriter)' = Cardinality(WillSignalWriter)
                 + One(r \in WillSignalWriter') - One(r \in WillSignalWriter)
  <1>1. r \in Threads /\ r \notin Writers
    BY ThreadSets
  <1>2. ASSUME NEW M
        PROVE  /\ CountAt(Writers, M)' = CountAt(Writers, M)
               /\ CountAt(Readers, M)' = CountAt(Readers, M) + One(pc'[r] \in M) - One(pc[r] \in M)
    <2>1. CountAt(Writers, M)' = CountAt(Writers, M) + One(r \in Writers /\ pc'[r] \in M)
                                                     - One(r \in Writers /\ pc[r] \in M)
          /\ CountAt(Writers, M) \in Nat
      BY <1>1, CountMoves
    <2>2. CountAt(Readers, M)' = CountAt(Readers, M) + One(r \in Readers /\ pc'[r] \in M)
                                                     - One(r \in Readers /\ pc[r] \in M)
      BY <1>1, CountMoves
    <2> QED  BY <1>1, <2>1, <2>2 DEF One
  <1>3. r \notin WillSignalReader /\ r \notin WillSignalReader'
    BY <1>1 DEF WillSignalReader
  <1>4. /\ Cardinality(WillSignalReader) \in Nat
        /\ Cardinality(WillSignalReader)' = Cardinality(WillSignalReader)
                 + One(r \in WillSignalReader') - One(r \in WillSignalReader)
        /\ Cardinality(WillSignalWriter)' = Cardinality(WillSignalWriter)
                 + One(r \in WillSignalWriter') - One(r \in WillSignalWriter)
    BY <1>1, SignalMoves
  <1>5. Cardinality(WillSignalReader)' = Cardinality(WillSignalReader)
    BY <1>3, <1>4 DEF One
  <1> QED  BY <1>2, <1>4, <1>5 DEF SameAt, ShiftAt

\* One step of a writer.
LEMMA WriterMoves ==
    ASSUME NEW w \in Writers, Moves(w)
    PROVE  /\ SameAt(Readers) /\ ShiftAt(Writers, w)
           /\ Cardinality(WillSignalWriter)' = Cardinality(WillSignalWriter)
           /\ Cardinality(WillSignalReader)' = Cardinality(WillSignalReader)
                 + One(w \in WillSignalReader') - One(w \in WillSignalReader)
  <1>1. w \in Threads /\ w \notin Readers
    BY ThreadSets
  <1>2. ASSUME NEW M
        PROVE  /\ CountAt(Readers, M)' = CountAt(Readers, M)
               /\ CountAt(Writers, M)' = CountAt(Writers, M) + One(pc'[w] \in M) - One(pc[w] \in M)
    <2>1. CountAt(Readers, M)' = CountAt(Readers, M) + One(w \in Readers /\ pc'[w] \in M)
                                                     - One(w \in Readers /\ pc[w] \in M)
          /\ CountAt(Readers, M) \in Nat
      BY <1>1, CountMoves
    <2>2. CountAt(Writers, M)' = CountAt(Writers, M) + One(w \in Writers /\ pc'[w] \in M)
                                                     - One(w \in Writers /\ pc[w] \in M)
      BY <1>1, CountMoves
    <2> QED  BY <1>1, <2>1, <2>2 DEF One
  <1>3. w \notin WillSignalWriter /\ w \notin WillSignalWriter'
    BY <1>1 DEF WillSignalWriter
  <1>4. /\ Cardinality(WillSignalWriter) \in Nat
        /\ Cardinality(WillSignalWriter)' = Cardinality(WillSignalWriter)
                 + One(w \in WillSignalWriter') - One(w \in WillSignalWriter)
        /\ Cardinality(WillSignalReader)' = Cardinality(WillSignalReader)
                 + One(w \in WillSignalReader') - One(w \in WillSignalReader)
    BY <1>1, SignalMoves
  <1>5. Cardinality(WillSignalWriter)' = Cardinality(WillSignalWriter)
    BY <1>3, <1>4 DEF One
  <1> QED  BY <1>2, <1>4, <1>5 DEF SameAt, ShiftAt

\* What earlier uses of the queue have left behind is bounded.
LEMMA Leftover ==
    ASSUME FieldsSuffice, Types
    PROVE  /\ resets * Cardinality(Readers) \in Nat /\ resets * Cardinality(Writers) \in Nat
           /\ resets * Cardinality(Readers) + Cardinality(Readers) < ReaderLimit
           /\ resets * Cardinality(Writers) + Cardinality(Writers) < WriterLimit
           /\ (resets + 1) * Cardinality(Readers) = resets * Cardinality(Readers) + Cardinality(Readers)
           /\ (resets + 1) * Cardinality(Writers) = resets * Cardinality(Writers) + Cardinality(Writers)
  <1>1. ASSUME NEW n \in Nat, NEW x \in Nat, NEW y \in Nat, NEW l \in Nat, x <= y, (y + 1) * n < l
        PROVE  x * n \in Nat /\ x * n + n < l /\ (x + 1) * n = x * n + n
    <2>1. x * n \in Nat /\ y * n \in Nat /\ (x + 1) * n = x * n + n /\ (y + 1) * n = y * n + n
      OBVIOUS
    <2>2. x * n <= y * n
      BY <1>1
    <2> QED  BY <1>1, <2>1, <2>2
  <1>2. resets \in Nat /\ MaxResets \in Nat /\ resets <= MaxResets
    BY Widths DEF Types
  <1>3. /\ Cardinality(Readers) \in Nat /\ Cardinality(Writers) \in Nat
        /\ ReaderLimit \in Nat /\ WriterLimit \in Nat
    BY ThreadSets, Widths
  <1> QED  BY <1>1, <1>2, <1>3 DEF FieldsSuffice

-----------------------------------------------------------------------------
(* The steps keep types and counts.                                           *)

Base == Types /\ Proper /\ Counts

\* A thread of a side steps from place to place: nobody falls asleep uncounted, who
\* wakes has a reason, and after an abort, or alone, nobody is about to wait again.
Orderly(t, act) ==
    /\ pc'[t] \in Sleepers => pc[t] \in Sleepers
    /\ pc[t] \in Sleepers /\ pc'[t] \notin Sleepers => aborted \/ act <= 0
    /\ aborted /\ act > 0 /\ pc[t] \in Gone => pc'[t] \in Gone
    /\ act <= 0 => pc'[t] # "park"
    /\ pc[t] \in Active /\ pc'[t] \in Active

\* Such a step of a reader that holds no slot and owes no signal.
LEMMA ReaderSteps ==
    ASSUME Base, Types', NEW r \in Readers, Moves(r), Orderly(r, activeWriters),
           r \in WillSignalWriter <=> r \in WillSignalWriter',
           UNCHANGED <<state, readTokens, writeTokens, activeReaders, activeWriters, aborted, resets>>
    PROVE  Counts'
  <1>1. /\ SameAt(Writers) /\ ShiftAt(Readers, r)
        /\ Cardinality(WillSignalReader)' = Cardinality(WillSignalReader)
        /\ Cardinality(WillSignalWriter)' = Cardinality(WillSignalWriter)
              + One(r \in WillSignalWriter') - One(r \in WillSignalWriter)
    BY ReaderMoves
  <1>2. /\ CountAt(Readers, Sleepers) \in Nat /\ CountAt(Readers, Gone) \in Nat
        /\ CountAt(Readers, Unparked) \in Nat /\ CountAt(Readers, Active) \in Nat
        /\ Cardinality(WillSignalReader) \in Nat /\ Cardinality(WillSignalWriter) \in Nat
    BY CountTypes DEF Base
  <1>3. Types /\ ReaderSide /\ WriterSide /\ Actives /\ r \in Threads
    BY ThreadSets DEF Base, Counts
  <1>4. pc[r] \in Places /\ pc'[r] \in Places /\ state.readers \in Nat
    BY <1>3, StateFields, Widths DEF Types
  <1>5. PICK m \in Nat : m = resets * Cardinality(Readers)
    BY <1>3, ThreadSets, Widths DEF Types
  <1>6. Cardinality(WillSignalWriter)' = Cardinality(WillSignalWriter)
    BY <1>1, <1>2 DEF One
  <1>7. WriterSide'
    BY <1>1, <1>3, <1>6 DEF WriterSide, Sided, SameAt
  <1>8. ReaderSide'
    <2>1. ~(pc[r] \in Unparked) \/ pc'[r] \in Unparked \/ activeWriters > 0
      BY <1>3, <1>4 DEF Orderly, Unparked, Types
    <2>2. readTokens \in Nat /\ activeWriters \in Int
      BY <1>3 DEF Types
    <2> QED  BY <1>1, <1>2, <1>3, <1>4, <1>5, <2>1, <2>2 DEF ReaderSide, Sided, ShiftAt, One, Orderly
  <1>9. Actives'
    <2>1. CountAt(Readers, Active)' = CountAt(Readers, Active)
          /\ CountAt(Writers, Active)' = CountAt(Writers, Active)
      BY <1>1, <1>2 DEF ShiftAt, SameAt, One, Orderly
    <2>2. \A t \in Threads : pc'[t] = "wake" => pc[t] = "wake"
      BY DEF Moves, Orderly, Active
    <2> QED  BY <1>3, <2>1, <2>2, ThreadSets DEF Actives
  <1> QED  BY <1>7, <1>8, <1>9 DEF Counts

\* The same for a writer.
LEMMA WriterSteps ==
    ASSUME Base, Types', NEW w \in Writers, Moves(w), Orderly(w, activeReaders),
           w \in WillSignalReader <=> w \in WillSignalReader',
           UNCHANGED <<state, readTokens, writeTokens, activeReaders, activeWriters, aborted, resets>>
    PROVE  Counts'
  <1>1. /\ SameAt(Readers) /\ ShiftAt(Writers, w)
        /\ Cardinality(WillSignalWriter)' = Cardinality(WillSignalWriter)
        /\ Cardinality(WillSignalReader)' = Cardinality(WillSignalReader)
              + One(w \in WillSignalReader') - One(w \in WillSignalReader)
    BY WriterMoves
  <1>2. /\ CountAt(Writers, Sleepers) \in Nat /\ CountAt(Writers, Gone) \in Nat
        /\ CountAt(Writers, Unparked) \in Nat /\ CountAt(Writers, Active) \in Nat
        /\ Cardinality(WillSignalReader) \in Nat /\ Cardinality(WillSignalWriter) \in Nat
    BY CountTypes DEF Base
  <1>3. Types /\ ReaderSide /\ WriterSide /\ Actives /\ w \in Threads
    BY ThreadSets DEF Base, Counts
  <1>4. pc[w] \in Places /\ pc'[w] \in Places /\ state.writers \in Nat
    BY <1>3, StateFields, Widths DEF Types
  <1>5. PICK m \in Nat : m = resets * Cardinality(Writers)
    BY <1>3, ThreadSets, Widths DEF Types
  <1>6. Cardinality(WillSignalReader)' = Cardinality(WillSignalReader)
    BY <1>1, <1>2 DEF One
  <1>7. ReaderSide'
    BY <1>1, <1>3, <1>6 DEF ReaderSide, Sided, SameAt
  <1>8. WriterSide'
    <2>1. ~(pc[w] \in Unparked) \/ pc'[w] \in Unparked \/ activeReaders > 0
      BY <1>3, <1>4 DEF Orderly, Unparked, Types
    <2>2. writeTokens \in Nat /\ activeReaders \in Int
      BY <1>3 DEF Types
    <2> QED  BY <1>1, <1>2, <1>3, <1>4, <1>5, <2>1, <2>2 DEF WriterSide, Sided, ShiftAt, One, Orderly
  <1>9. Actives'
    <2>1. CountAt(Readers, Active)' = CountAt(Readers, Active)
          /\ CountAt(Writers, Active)' = CountAt(Writers, Active)
      BY <1>1, <1>2 DEF ShiftAt, SameAt, One, Orderly
    <2>2. \A t \in Threads : pc'[t] = "wake" => pc[t] = "wake"
      BY DEF Moves, Orderly, Active
    <2> QED  BY <1>3, <2>1, <2>2, ThreadSets DEF Actives
  <1> QED  BY <1>7, <1>8, <1>9 DEF Counts

\* A decision of a thread that holds no slot keeps the types.
LEMMA StepTypes ==
    ASSUME Base, NEW t \in Threads, NEW from \in Places \ Claiming, NEW to \in Places \ Claiming,
           Step(t, from, to), t \in Writers /\ to \in Producing => next[t] <= NumItems
    PROVE  /\ Types' /\ Proper' /\ Moves(t) /\ pc[t] = from /\ pc'[t] = to
           /\ UNCHANGED <<state, readTokens, writeTokens, activeReaders, activeWriters, aborted, resets,
                          slot, next, result, apc, cuts, line, due, received, early>>
  <1>1. /\ pc[t] = from /\ pc' = [pc EXCEPT ![t] = to]
        /\ cur' = [cur EXCEPT ![t] = IF to = "park" THEN cur[t] ELSE Empty]
        /\ UNCHANGED <<state, readTokens, writeTokens, activeReaders, activeWriters, aborted, resets,
                       slot, next, result, apc, cuts, line, due, received, early>>
    BY DEF Step, Goto, tokens, active, others, counters, history
  <1>2. Types /\ Proper
    BY DEF Base
  <1>3. Empty \in State
    BY Widths DEF Empty, State
  <1>4. cur' \in [Threads -> State]
    <2>1. cur[t] \in State
      BY <1>2 DEF Types
    <2> QED  BY <1>1, <1>2, <1>3, <2>1 DEF Types
  <1>5. Types' /\ pc'[t] = to /\ Moves(t)
    BY <1>1, <1>2, <1>4 DEF Types, Moves
  <1>6. Proper'
    <2>1. \A u \in Threads : u # t => pc'[u] = pc[u]
      BY <1>1, <1>2 DEF Types
    <2>2. NumItems' = NumItems
      BY <1>1 DEF NumItems
    <2> QED  BY <1>1, <1>2, <1>5, <2>1, <2>2, ThreadSets DEF Proper, Claiming
  <1> QED  BY <1>1, <1>5, <1>6

\* A step that touches no slot, no claim of one and no item.
Aside ==
    /\ UNCHANGED <<slot, line, due, next, received>>
    /\ state'.deq = state.deq /\ state'.count = state.count
    /\ \A t \in Threads :
         /\ pc'[t] \in Claiming <=> pc[t] \in Claiming
         /\ pc[t] \in Claiming => pc'[t] = pc[t] /\ cur'[t] = cur[t]
    /\ \A r \in Readers : pc[r] \in Claiming => result'[r] = result[r]

\* A reader begins, finds the queue empty, looks again, is counted, or wakes up.
LEMMA ReaderDecides ==
    ASSUME Base, NEW r \in Readers,
           \/ DequeueBegin(r) \/ DequeueCheck(r) \/ DequeueLast(r)
           \/ Parked(r) \/ DequeueWait(r) \/ Woken(r)
    PROVE  Base' /\ Aside
  <1>1. r \in Threads /\ r \notin Writers /\ activeWriters \in Int
    BY ThreadSets DEF Base, Types
  <1>2. ASSUME NEW from \in Places \ Claiming, NEW to \in Places \ Claiming, Step(r, from, to),
               from # "signal", to # "signal", from \in Active, to \in Active,
               to \in Sleepers => from \in Sleepers,
               from \in Sleepers /\ to \notin Sleepers => aborted \/ activeWriters <= 0,
               aborted /\ activeWriters > 0 /\ from \in Gone => to \in Gone,
               activeWriters <= 0 => to # "park"
        PROVE  Base' /\ Aside
    <2>1. /\ Types' /\ Proper' /\ Moves(r) /\ pc[r] = from /\ pc'[r] = to
          /\ UNCHANGED <<state, readTokens, writeTokens, activeReaders, activeWriters, aborted, resets,
                         slot, next, result, apc, cuts, line, due, received, early>>
      BY <1>1, <1>2, StepTypes
    <2>2. Orderly(r, activeWriters)
      BY <1>2, <2>1 DEF Orderly
    <2>3. r \in WillSignalWriter <=> r \in WillSignalWriter'
      BY <1>2, <2>1 DEF WillSignalWriter, Claiming
    <2>4. Counts'
      BY <2>1, <2>2, <2>3, ReaderSteps
    <2>5. Aside
      BY <1>2, <2>1 DEF Aside, Moves
    <2> QED  BY <2>1, <2>4, <2>5 DEF Base
  <1>3. CASE DequeueBegin(r)
    <2>1. PICK to \in {"stop", "try"} : Step(r, "idle", to)
      BY <1>3 DEF DequeueBegin, Unless
    <2> QED  BY <1>2, <2>1 DEF Places, Claiming, Active, Sleepers, Gone
  <1>4. CASE DequeueCheck(r)
    <2>1. PICK to \in {"last", "park"} : Step(r, "check", to) /\ (activeWriters <= 0 => to # "park")
      <3>1. activeWriters \in Nat
        BY CountTypes DEF Base, Counts, Actives
      <3> QED  BY <1>4, <3>1 DEF DequeueCheck, AllWritersStopped
    <2> QED  BY <1>2, <2>1 DEF Places, Claiming, Active, Sleepers, Gone
  <1>5. CASE DequeueLast(r)
    <2>1. PICK to \in {"stop", "try"} : Step(r, "last", to)
      BY <1>5 DEF DequeueLast, Unless
    <2> QED  BY <1>2, <2>1 DEF Places, Claiming, Active, Sleepers, Gone
  <1>6. CASE Parked(r)
    <2>1. PICK to \in {"stop", "wait"} : Step(r, "parked", to) /\ (to = "stop" => aborted)
      BY <1>6 DEF Parked, Unless
    <2> QED  BY <1>2, <2>1 DEF Places, Claiming, Active, Sleepers, Gone
  <1>7. CASE DequeueWait(r)
    <2>1. PICK to \in {"try", "sleep"} : Step(r, "wait", to) /\ (to = "try" => activeWriters <= 0)
      BY <1>7 DEF DequeueWait, AllWritersStopped
    <2> QED  BY <1>1, <1>2, <2>1 DEF Places, Claiming, Active, Sleepers, Gone
  <1>8. CASE Woken(r)
    <2>1. PICK to \in {"stop", "try"} : Step(r, "woken", to) /\ (aborted => to = "stop")
      BY <1>8 DEF Woken, Unless
    <2> QED  BY <1>2, <2>1 DEF Places, Claiming, Active, Sleepers, Gone
  <1> QED  BY <1>3, <1>4, <1>5, <1>6, <1>7, <1>8

\* A writer begins or ends, finds the queue full, is counted, or wakes up.
LEMMA WriterDecides ==
    ASSUME Base, NEW w \in Writers,
           \/ EnqueueBegin(w) \/ EnqueueCheck(w) \/ Parked(w) \/ EnqueueWait(w) \/ Woken(w)
           \/ LastItem(w)
    PROVE  Base' /\ Aside
  <1>1. w \in Threads /\ w \notin Readers /\ activeReaders \in Int
    BY ThreadSets DEF Base, Types
  <1>2. ASSUME NEW from \in Places \ Claiming, NEW to \in Places \ Claiming, Step(w, from, to),
               from # "signal", to # "signal", from \in Active, to \in Active,
               to \in Sleepers => from \in Sleepers,
               from \in Sleepers /\ to \notin Sleepers => aborted \/ activeReaders <= 0,
               aborted /\ activeReaders > 0 /\ from \in Gone => to \in Gone,
               activeReaders <= 0 => to # "park",
               to \in Producing => from \in Producing \/ next[w] <= NumItems
        PROVE  Base' /\ Aside
    <2>0. to \in Producing => next[w] <= NumItems
      BY <1>2 DEF Base, Proper, Step
    <2>1. /\ Types' /\ Proper' /\ Moves(w) /\ pc[w] = from /\ pc'[w] = to
          /\ UNCHANGED <<state, readTokens, writeTokens, activeReaders, activeWriters, aborted, resets,
                         slot, next, result, apc, cuts, line, due, received, early>>
      BY <1>1, <1>2, <2>0, StepTypes
    <2>2. Orderly(w, activeReaders)
      BY <1>2, <2>1 DEF Orderly
    <2>3. w \in WillSignalReader <=> w \in WillSignalReader'
      BY <1>2, <2>1 DEF WillSignalReader, Claiming
    <2>4. Counts'
      BY <2>1, <2>2, <2>3, WriterSteps
    <2>5. Aside
      BY <1>2, <2>1 DEF Aside, Moves
    <2> QED  BY <2>1, <2>4, <2>5 DEF Base
  <1>3. CASE EnqueueBegin(w)
    <2>1. PICK to \in {"stop", "try"} : Step(w, "idle", to) /\ next[w] <= NumItems
      BY <1>3 DEF EnqueueBegin, Unless
    <2> QED  BY <1>2, <2>1 DEF Places, Claiming, Active, Sleepers, Gone
  <1>4. CASE EnqueueCheck(w)
    <2>1. PICK to \in {"stop", "park"} : Step(w, "check", to) /\ (activeReaders <= 0 => to # "park")
      <3>1. activeReaders \in Nat
        BY CountTypes DEF Base, Counts, Actives
      <3> QED  BY <1>4, <3>1 DEF EnqueueCheck, Unless, AllReadersStopped
    <2> QED  BY <1>2, <2>1 DEF Places, Claiming, Active, Sleepers, Gone, Producing
  <1>6. CASE Parked(w)
    <2>1. PICK to \in {"stop", "wait"} : Step(w, "parked", to) /\ (to = "stop" => aborted)
      BY <1>6 DEF Parked, Unless
    <2> QED  BY <1>2, <2>1 DEF Places, Claiming, Active, Sleepers, Gone, Producing
  <1>7. CASE EnqueueWait(w)
    <2>1. PICK to \in {"stop", "sleep"} : Step(w, "wait", to) /\ (to = "stop" => activeReaders <= 0)
      BY <1>7 DEF EnqueueWait, Unless, AllReadersStopped
    <2> QED  BY <1>1, <1>2, <2>1 DEF Places, Claiming, Active, Sleepers, Gone, Producing
  <1>8. CASE Woken(w)
    <2>1. PICK to \in {"stop", "try"} : Step(w, "woken", to) /\ (aborted => to = "stop")
      BY <1>8 DEF Woken, Unless
    <2> QED  BY <1>2, <2>1 DEF Places, Claiming, Active, Sleepers, Gone, Producing
  <1>9. CASE LastItem(w)
    <2>1. Step(w, "idle", "stop")
      BY <1>9 DEF LastItem
    <2> QED  BY <1>2, <2>1 DEF Places, Claiming, Active, Sleepers, Gone, Producing
  <1> QED  BY <1>3, <1>4, <1>6, <1>7, <1>8, <1>9

\* A reader that is added to the word: there is room in the field.
LEMMA ReaderParks ==
    ASSUME FieldsSuffice, Base, NEW r \in Readers, Park(r, WithReader(state))
    PROVE  Base' /\ Aside
  <1>1. /\ pc[r] = "park" /\ cur' = [cur EXCEPT ![r] = Empty]
        /\ \/ state' = WithReader(state) /\ pc' = [pc EXCEPT ![r] = "parked"]
           \/ state' = state /\ pc' = [pc EXCEPT ![r] = "try"]
        /\ UNCHANGED <<readTokens, writeTokens, activeReaders, activeWriters, aborted, resets,
                       slot, next, result, apc, cuts, line, due, received, early>>
    BY DEF Park, Goto, Forget, tokens, active, others, counters, history
  <1>2. /\ Types /\ Proper /\ ReaderSide /\ WriterSide /\ Actives
        /\ r \in Threads /\ r \notin Writers
    BY ThreadSets DEF Base, Counts
  <1>3. /\ SameAt(Writers) /\ ShiftAt(Readers, r)
        /\ Cardinality(WillSignalReader)' = Cardinality(WillSignalReader)
        /\ Cardinality(WillSignalWriter)' = Cardinality(WillSignalWriter)
              + One(r \in WillSignalWriter') - One(r \in WillSignalWriter)
    <2>1. Moves(r)
      BY <1>1, <1>2 DEF Types, Moves
    <2> QED  BY <2>1, ReaderMoves
  <1>4. pc'[r] \in {"parked", "try"} /\ Moves(r)
    BY <1>1, <1>2 DEF Types, Moves
  <1>5. /\ CountAt(Readers, Sleepers) \in Nat /\ CountAt(Readers, Gone) \in Nat
        /\ CountAt(Readers, Unparked) \in Nat /\ CountAt(Readers, Active) \in Nat
        /\ CountAt(Readers, Sleepers) <= CountAt(Readers, Gone)
        /\ CountAt(Readers, Gone) <= CountAt(Readers, Unparked)
        /\ Cardinality(WillSignalReader) \in Nat /\ Cardinality(WillSignalWriter) \in Nat
    BY <1>2, CountTypes
  <1>6. CountAt(Readers, Unparked) + 1 <= Cardinality(Readers)
    <2>1. {t \in Readers : pc[t] \in Unparked} \subseteq Readers \ {r}
      BY <1>1 DEF Unparked
    <2>2. IsFiniteSet(Readers \ {r}) /\ Cardinality(Readers \ {r}) = Cardinality(Readers) - 1
      BY ThreadSets, FS_RemoveElement
    <2> QED  BY <1>5, <2>1, <2>2, CountBounds, ThreadSets DEF CountAt
  <1>7. PICK m \in Nat : m = resets * Cardinality(Readers) /\ m + Cardinality(Readers) < ReaderLimit
    BY <1>2, Leftover
  <1>8. state.readers \in Nat /\ readTokens \in Nat /\ activeWriters \in Int /\ aborted \in BOOLEAN
        /\ Cardinality(Readers) \in Nat /\ ReaderLimit \in Nat
    BY <1>2, StateFields, Widths, ThreadSets DEF Types
  <1>9. state.readers + 1 < ReaderLimit
    <2>1. state.readers + Cardinality(WillSignalReader) <= m + CountAt(Readers, Unparked)
      BY <1>2, <1>5, <1>7, <1>8 DEF ReaderSide, Sided
    <2> QED  BY <1>5, <1>6, <1>7, <1>8, <2>1
  <1>10. /\ WithReader(state) \in State
         /\ WithReader(state).deq = state.deq /\ WithReader(state).writers = state.writers
         /\ WithReader(state).count = state.count /\ WithReader(state).readers = state.readers + 1
    BY <1>2, <1>9, WithReaderFields DEF Types
  <1>11. /\ state' \in State /\ state'.deq = state.deq /\ state'.writers = state.writers
         /\ state'.count = state.count
         /\ state'.readers = state.readers + One(pc'[r] = "parked")
    BY <1>1, <1>2, <1>8, <1>10 DEF Types, One
  <1>12. Types'
    <2>1. Empty \in State
      BY Widths DEF Empty, State
    <2> QED  BY <1>1, <1>2, <1>11, <2>1 DEF Types, Places
  <1>13. Proper'
    <2>1. NumItems' = NumItems
      BY <1>1 DEF NumItems
    <2>2. \A u \in Threads : u # r => pc'[u] = pc[u]
      BY <1>4 DEF Moves
    <2> QED  BY <1>1, <1>2, <1>4, <1>11, <2>1, <2>2, ThreadSets DEF Proper, Claiming
  <1>14. Cardinality(WillSignalWriter)' = Cardinality(WillSignalWriter)
    <2>1. r \notin WillSignalWriter /\ r \notin WillSignalWriter'
      BY <1>1, <1>4 DEF WillSignalWriter
    <2> QED  BY <1>3, <1>5, <2>1 DEF One
  <1>15. WriterSide'
    BY <1>1, <1>2, <1>3, <1>11, <1>14 DEF WriterSide, Sided, SameAt
  <1>16. ReaderSide'
    BY <1>1, <1>2, <1>3, <1>4, <1>5, <1>7, <1>8, <1>11
    DEF ReaderSide, Sided, ShiftAt, One, Sleepers, Gone, Unparked, Places
  <1>17. Actives'
    <2>1. CountAt(Readers, Active)' = CountAt(Readers, Active)
          /\ CountAt(Writers, Active)' = CountAt(Writers, Active)
      BY <1>1, <1>3, <1>4, <1>5 DEF ShiftAt, SameAt, One, Active, Places
    <2>2. \A t \in Threads : pc'[t] = "wake" => pc[t] = "wake"
      BY <1>4 DEF Moves
    <2> QED  BY <1>1, <1>2, <2>1, <2>2, ThreadSets DEF Actives
  <1>18. Aside
    BY <1>1, <1>2, <1>4, <1>11 DEF Aside, Claiming, Moves
  <1> QED  BY <1>12, <1>13, <1>15, <1>16, <1>17, <1>18 DEF Base, Counts

\* A writer that is added to the word: there is room in the field.
LEMMA WriterParks ==
    ASSUME FieldsSuffice, Base, NEW w \in Writers, Park(w, WithWriter(state))
    PROVE  Base' /\ Aside /\ state'.readers = state.readers
  <1>1. /\ pc[w] = "park" /\ cur' = [cur EXCEPT ![w] = Empty]
        /\ \/ state' = WithWriter(state) /\ pc' = [pc EXCEPT ![w] = "parked"]
           \/ state' = state /\ pc' = [pc EXCEPT ![w] = "try"]
        /\ UNCHANGED <<writeTokens, readTokens, activeWriters, activeReaders, aborted, resets,
                       slot, next, result, apc, cuts, line, due, received, early>>
    BY DEF Park, Goto, Forget, tokens, active, others, counters, history
  <1>2. /\ Types /\ Proper /\ WriterSide /\ ReaderSide /\ Actives
        /\ w \in Threads /\ w \notin Readers
    BY ThreadSets DEF Base, Counts
  <1>3. /\ SameAt(Readers) /\ ShiftAt(Writers, w)
        /\ Cardinality(WillSignalWriter)' = Cardinality(WillSignalWriter)
        /\ Cardinality(WillSignalReader)' = Cardinality(WillSignalReader)
              + One(w \in WillSignalReader') - One(w \in WillSignalReader)
    <2>1. Moves(w)
      BY <1>1, <1>2 DEF Types, Moves
    <2> QED  BY <2>1, WriterMoves
  <1>4. pc'[w] \in {"parked", "try"} /\ Moves(w)
    BY <1>1, <1>2 DEF Types, Moves
  <1>5. /\ CountAt(Writers, Sleepers) \in Nat /\ CountAt(Writers, Gone) \in Nat
        /\ CountAt(Writers, Unparked) \in Nat /\ CountAt(Writers, Active) \in Nat
        /\ CountAt(Writers, Sleepers) <= CountAt(Writers, Gone)
        /\ CountAt(Writers, Gone) <= CountAt(Writers, Unparked)
        /\ Cardinality(WillSignalWriter) \in Nat /\ Cardinality(WillSignalReader) \in Nat
    BY <1>2, CountTypes
  <1>6. CountAt(Writers, Unparked) + 1 <= Cardinality(Writers)
    <2>1. {t \in Writers : pc[t] \in Unparked} \subseteq Writers \ {w}
      BY <1>1 DEF Unparked
    <2>2. IsFiniteSet(Writers \ {w}) /\ Cardinality(Writers \ {w}) = Cardinality(Writers) - 1
      BY ThreadSets, FS_RemoveElement
    <2> QED  BY <1>5, <2>1, <2>2, CountBounds, ThreadSets DEF CountAt
  <1>7. PICK m \in Nat : m = resets * Cardinality(Writers) /\ m + Cardinality(Writers) < WriterLimit
    BY <1>2, Leftover
  <1>8. state.writers \in Nat /\ writeTokens \in Nat /\ activeReaders \in Int /\ aborted \in BOOLEAN
        /\ Cardinality(Writers) \in Nat /\ WriterLimit \in Nat
    BY <1>2, StateFields, Widths, ThreadSets DEF Types
  <1>9. state.writers + 1 < WriterLimit
    <2>1. state.writers + Cardinality(WillSignalWriter) <= m + CountAt(Writers, Unparked)
      BY <1>2, <1>5, <1>7, <1>8 DEF WriterSide, Sided
    <2> QED  BY <1>5, <1>6, <1>7, <1>8, <2>1
  <1>10. /\ WithWriter(state) \in State
         /\ WithWriter(state).deq = state.deq /\ WithWriter(state).readers = state.readers
         /\ WithWriter(state).count = state.count /\ WithWriter(state).writers = state.writers + 1
    BY <1>2, <1>9, WithWriterFields DEF Types
  <1>11. /\ state' \in State /\ state'.deq = state.deq /\ state'.readers = state.readers
         /\ state'.count = state.count
         /\ state'.writers = state.writers + One(pc'[w] = "parked")
    BY <1>1, <1>2, <1>8, <1>10 DEF Types, One
  <1>12. Types'
    <2>1. Empty \in State
      BY Widths DEF Empty, State
    <2> QED  BY <1>1, <1>2, <1>11, <2>1 DEF Types, Places
  <1>13. Proper'
    <2>1. NumItems' = NumItems
      BY <1>1 DEF NumItems
    <2>2. \A u \in Threads : u # w => pc'[u] = pc[u]
      BY <1>4 DEF Moves
    <2> QED  BY <1>1, <1>2, <1>4, <1>11, <2>1, <2>2, ThreadSets DEF Proper, Claiming, Producing
  <1>14. Cardinality(WillSignalReader)' = Cardinality(WillSignalReader)
    <2>1. w \notin WillSignalReader /\ w \notin WillSignalReader'
      BY <1>1, <1>4 DEF WillSignalReader
    <2> QED  BY <1>3, <1>5, <2>1 DEF One
  <1>15. ReaderSide'
    BY <1>1, <1>2, <1>3, <1>11, <1>14 DEF ReaderSide, Sided, SameAt
  <1>16. WriterSide'
    BY <1>1, <1>2, <1>3, <1>4, <1>5, <1>7, <1>8, <1>11
    DEF WriterSide, Sided, ShiftAt, One, Sleepers, Gone, Unparked, Places
  <1>17. Actives'
    <2>1. CountAt(Writers, Active)' = CountAt(Writers, Active)
          /\ CountAt(Readers, Active)' = CountAt(Readers, Active)
      BY <1>1, <1>3, <1>4, <1>5 DEF ShiftAt, SameAt, One, Active, Places
    <2>2. \A t \in Threads : pc'[t] = "wake" => pc[t] = "wake"
      BY <1>4 DEF Moves
    <2> QED  BY <1>1, <1>2, <2>1, <2>2, ThreadSets DEF Actives
  <1>18. Aside
    BY <1>1, <1>2, <1>4, <1>11 DEF Aside, Claiming, Moves
  <1> QED  BY <1>11, <1>12, <1>13, <1>15, <1>16, <1>17, <1>18 DEF Base, Counts

\* What is known of the counts, whoever moves.
Known ==
    /\ Types /\ Proper /\ ReaderSide /\ WriterSide /\ Actives
    /\ CountAt(Readers, Sleepers) \in Nat /\ CountAt(Readers, Gone) \in Nat
    /\ CountAt(Readers, Unparked) \in Nat /\ CountAt(Readers, Active) \in Nat
    /\ CountAt(Readers, Sleepers) <= CountAt(Readers, Gone)
    /\ CountAt(Readers, Gone) <= CountAt(Readers, Unparked)
    /\ CountAt(Writers, Sleepers) \in Nat /\ CountAt(Writers, Gone) \in Nat
    /\ CountAt(Writers, Unparked) \in Nat /\ CountAt(Writers, Active) \in Nat
    /\ CountAt(Writers, Sleepers) <= CountAt(Writers, Gone)
    /\ CountAt(Writers, Gone) <= CountAt(Writers, Unparked)
    /\ Cardinality(WillSignalReader) \in Nat /\ Cardinality(WillSignalWriter) \in Nat
    /\ state.readers \in Nat /\ state.writers \in Nat /\ state.count \in Nat
    /\ readTokens \in Nat /\ writeTokens \in Nat
    /\ activeReaders \in Nat /\ activeWriters \in Nat
    /\ resets * Cardinality(Readers) \in Nat /\ resets * Cardinality(Writers) \in Nat

\* The facts about the counts that the steps need.
LEMMA CountFacts ==
    ASSUME Base
    PROVE  Known
  <1>1. Types /\ Proper /\ ReaderSide /\ WriterSide /\ Actives
    BY DEF Base, Counts
  <1>2. /\ CountAt(Readers, Sleepers) \in Nat /\ CountAt(Readers, Gone) \in Nat
        /\ CountAt(Readers, Unparked) \in Nat /\ CountAt(Readers, Active) \in Nat
        /\ CountAt(Readers, Sleepers) <= CountAt(Readers, Gone)
        /\ CountAt(Readers, Gone) <= CountAt(Readers, Unparked)
        /\ Cardinality(WillSignalReader) \in Nat /\ Cardinality(WillSignalWriter) \in Nat
    BY <1>1, CountTypes
  <1>3. /\ CountAt(Writers, Sleepers) \in Nat /\ CountAt(Writers, Gone) \in Nat
        /\ CountAt(Writers, Unparked) \in Nat /\ CountAt(Writers, Active) \in Nat
        /\ CountAt(Writers, Sleepers) <= CountAt(Writers, Gone)
        /\ CountAt(Writers, Gone) <= CountAt(Writers, Unparked)
    BY <1>1, CountTypes
  <1>4. state.readers \in Nat /\ state.writers \in Nat /\ state.count \in Nat
    BY <1>1, StateFields, Widths DEF Types
  <1>5. readTokens \in Nat /\ writeTokens \in Nat /\ activeReaders \in Nat /\ activeWriters \in Nat
    BY <1>1, <1>2, <1>3 DEF Types, Actives
  <1>6. resets * Cardinality(Readers) \in Nat /\ resets * Cardinality(Writers) \in Nat
    BY <1>1, ThreadSets, Widths DEF Types
  <1> QED  BY <1>1, <1>2, <1>3, <1>4, <1>5, <1>6 DEF Known

\* A step of one reader, or of one writer, seen from the counts.
ReaderMoved(r) ==
    /\ SameAt(Writers) /\ ShiftAt(Readers, r)
    /\ Cardinality(WillSignalReader)' = Cardinality(WillSignalReader)
    /\ Cardinality(WillSignalWriter)' = Cardinality(WillSignalWriter)
          + One(r \in WillSignalWriter') - One(r \in WillSignalWriter)

WriterMoved(w) ==
    /\ SameAt(Readers) /\ ShiftAt(Writers, w)
    /\ Cardinality(WillSignalWriter)' = Cardinality(WillSignalWriter)
    /\ Cardinality(WillSignalReader)' = Cardinality(WillSignalReader)
          + One(w \in WillSignalReader') - One(w \in WillSignalReader)

\* A sleeping reader takes a token.
LEMMA ReaderWakes ==
    ASSUME Base, NEW r \in Readers, DequeueWake(r)
    PROVE  Base' /\ Aside
  <1>1. /\ pc[r] = "sleep" /\ readTokens > 0 /\ readTokens' = readTokens - 1
        /\ pc' = [pc EXCEPT ![r] = "woken"]
        /\ UNCHANGED <<state, writeTokens, activeReaders, activeWriters, aborted, resets, cur,
                       slot, next, result, apc, cuts, line, due, received, early>>
    BY DEF DequeueWake, Goto, active, others, counters, history
  <1>2. Known /\ r \in Threads /\ r \notin Writers
    BY CountFacts, ThreadSets
  <1>3. pc'[r] = "woken" /\ \A u \in Threads : u # r => pc'[u] = pc[u]
    BY <1>1, <1>2 DEF Known, Types
  <1>4. Moves(r)
    BY <1>1, <1>3 DEF Moves
  <1>5. ReaderMoved(r)
    BY <1>4, ReaderMoves DEF ReaderMoved
  <1>6. Types'
    <2>1. Types /\ "woken" \in Places
      BY <1>2 DEF Known, Places
    <2>2. readTokens' \in Nat
      BY <1>1, <2>1 DEF Types
    <2>3. pc' \in [Threads -> Places]
      BY <1>1, <2>1 DEF Types
    <2> QED  BY <1>1, <2>1, <2>2, <2>3 DEF Types
  <1>7. Proper'
    <2>1. NumItems' = NumItems
      BY <1>1 DEF NumItems
    <2> QED  BY <1>1, <1>2, <1>3, <2>1, ThreadSets DEF Known, Proper, Claiming, Producing
  <1>8. r \in WillSignalWriter <=> r \in WillSignalWriter'
    BY <1>1, <1>3 DEF WillSignalWriter
  <1>9. WriterSide'
    BY <1>1, <1>2, <1>5, <1>8 DEF Known, ReaderMoved, WriterSide, Sided, SameAt, One
  <1>10. ReaderSide'
    BY <1>1, <1>2, <1>3, <1>5
    DEF Known, ReaderMoved, ReaderSide, Sided, ShiftAt, One, Sleepers, Gone, Unparked, Places
  <1>11. Actives'
    BY <1>1, <1>2, <1>3, <1>5, ThreadSets
    DEF Known, ReaderMoved, Actives, ShiftAt, SameAt, One, Active, Places
  <1>12. Aside
    BY <1>1, <1>3 DEF Aside, Claiming
  <1> QED  BY <1>6, <1>7, <1>9, <1>10, <1>11, <1>12 DEF Base, Counts

\* A sleeping writer takes a token.
LEMMA WriterWakes ==
    ASSUME Base, NEW w \in Writers, EnqueueWake(w)
    PROVE  Base' /\ Aside
  <1>1. /\ pc[w] = "sleep" /\ writeTokens > 0 /\ writeTokens' = writeTokens - 1
        /\ pc' = [pc EXCEPT ![w] = "woken"]
        /\ UNCHANGED <<state, readTokens, activeWriters, activeReaders, aborted, resets, cur,
                       slot, next, result, apc, cuts, line, due, received, early>>
    BY DEF EnqueueWake, Goto, active, others, counters, history
  <1>2. Known /\ w \in Threads /\ w \notin Readers
    BY CountFacts, ThreadSets
  <1>3. pc'[w] = "woken" /\ \A u \in Threads : u # w => pc'[u] = pc[u]
    BY <1>1, <1>2 DEF Known, Types
  <1>4. Moves(w)
    BY <1>1, <1>3 DEF Moves
  <1>5. WriterMoved(w)
    BY <1>4, WriterMoves DEF WriterMoved
  <1>6. Types'
    <2>1. Types /\ "woken" \in Places
      BY <1>2 DEF Known, Places
    <2>2. writeTokens' \in Nat
      BY <1>1, <2>1 DEF Types
    <2>3. pc' \in [Threads -> Places]
      BY <1>1, <2>1 DEF Types
    <2> QED  BY <1>1, <2>1, <2>2, <2>3 DEF Types
  <1>7. Proper'
    <2>1. NumItems' = NumItems
      BY <1>1 DEF NumItems
    <2> QED  BY <1>1, <1>2, <1>3, <2>1, ThreadSets DEF Known, Proper, Claiming, Producing
  <1>8. w \in WillSignalReader <=> w \in WillSignalReader'
    BY <1>1, <1>3 DEF WillSignalReader
  <1>9. ReaderSide'
    BY <1>1, <1>2, <1>5, <1>8 DEF Known, WriterMoved, ReaderSide, Sided, SameAt, One
  <1>10. WriterSide'
    BY <1>1, <1>2, <1>3, <1>5
    DEF Known, WriterMoved, WriterSide, Sided, ShiftAt, One, Sleepers, Gone, Unparked, Places
  <1>11. Actives'
    BY <1>1, <1>2, <1>3, <1>5, ThreadSets
    DEF Known, WriterMoved, Actives, ShiftAt, SameAt, One, Active, Places
  <1>12. Aside
    BY <1>1, <1>3 DEF Aside, Claiming
  <1> QED  BY <1>6, <1>7, <1>9, <1>10, <1>11, <1>12 DEF Base, Counts

\* A reader signals: the writer that it has taken off the count, or, when it was the
\* last reader, all that are counted.
LEMMA ReaderSignals ==
    ASSUME Base, NEW r \in Readers,
           \/ SignalWriters(r, "signal", 1, "idle")
           \/ SignalWriters(r, "wake", state.writers, "done")
    PROVE  Base' /\ Aside
  <1>2. Known /\ r \in Threads /\ r \notin Writers
    BY CountFacts, ThreadSets
  <1>1. PICK n \in Nat, from \in {"signal", "wake"}, to \in {"idle", "done"} :
        /\ pc[r] = from /\ pc' = [pc EXCEPT ![r] = to] /\ writeTokens' = writeTokens + n
        /\ (from = "signal" /\ to = "idle" /\ n = 1) \/ (from = "wake" /\ to = "done")
        /\ UNCHANGED <<state, readTokens, activeReaders, activeWriters, aborted, resets, cur,
                       slot, next, result, apc, cuts, line, due, received, early>>
    BY <1>2 DEF Known, SignalWriters, Goto, active, others, counters, history
  <1>3. pc'[r] = to /\ \A u \in Threads : u # r => pc'[u] = pc[u]
    BY <1>1, <1>2 DEF Known, Types
  <1>4. Moves(r)
    BY <1>1, <1>3 DEF Moves
  <1>5. ReaderMoved(r)
    BY <1>4, ReaderMoves DEF ReaderMoved
  <1>6. Types'
    <2>1. Types /\ to \in Places
      BY <1>2 DEF Known, Places
    <2>2. writeTokens' \in Nat
      BY <1>1, <2>1 DEF Types
    <2>3. pc' \in [Threads -> Places]
      BY <1>1, <2>1 DEF Types
    <2> QED  BY <1>1, <2>1, <2>2, <2>3 DEF Types
  <1>7. Proper'
    <2>1. NumItems' = NumItems
      BY <1>1 DEF NumItems
    <2> QED  BY <1>1, <1>2, <1>3, <2>1, ThreadSets DEF Known, Proper, Claiming, Producing
  <1>8. r \notin WillSignalWriter' /\ (from = "signal" <=> r \in WillSignalWriter)
    BY <1>1, <1>3 DEF WillSignalWriter
  <1>9. from = "wake" => activeReaders <= 0
    BY <1>1, <1>2 DEF Known, Actives
  <1>10. WriterSide'
    BY <1>1, <1>2, <1>5, <1>8, <1>9 DEF Known, ReaderMoved, WriterSide, Sided, SameAt, One
  <1>11. ReaderSide'
    BY <1>1, <1>2, <1>3, <1>5
    DEF Known, ReaderMoved, ReaderSide, Sided, ShiftAt, One, Sleepers, Gone, Unparked, Places
  <1>12. Actives'
    <2>1. CountAt(Readers, Active)' = CountAt(Readers, Active) + One(to \in Active) - One(from \in Active)
          /\ CountAt(Writers, Active)' = CountAt(Writers, Active)
      BY <1>1, <1>3, <1>5 DEF ReaderMoved, ShiftAt, SameAt
    <2>2. One(to \in Active) = One(from \in Active)
      BY <1>1 DEF One, Active, Places
    <2>3. CountAt(Readers, Active)' = CountAt(Readers, Active)
      BY <1>2, <2>1, <2>2 DEF Known, One
    <2>4. \A t \in Threads : pc'[t] = "wake" => pc[t] = "wake"
      BY <1>1, <1>3
    <2> QED  BY <1>1, <1>2, <2>1, <2>3, <2>4, ThreadSets DEF Known, Actives
  <1>13. Aside
    BY <1>1, <1>3 DEF Aside, Claiming
  <1> QED  BY <1>6, <1>7, <1>10, <1>11, <1>12, <1>13 DEF Base, Counts

\* A reader notes that it has stopped: the writers that wait are all still counted.
LEMMA ReaderLeaves ==
    ASSUME Base, NEW r \in Readers, ReaderStops(r)
    PROVE  Base' /\ Aside
  <1>2. Known /\ r \in Threads /\ r \notin Writers
    BY CountFacts, ThreadSets
  <1>1. PICK to \in {"wake", "done"} :
        /\ pc[r] = "stop" /\ pc' = [pc EXCEPT ![r] = to] /\ activeReaders' = activeReaders - 1
        /\ to = "wake" => activeReaders = 1
        /\ UNCHANGED <<state, readTokens, writeTokens, activeWriters, aborted, resets, cur,
                       slot, next, result, apc, cuts, line, due, received, early>>
    BY <1>2 DEF Known, ReaderStops, Goto, tokens, others, counters, history
  <1>3. pc'[r] = to /\ \A u \in Threads : u # r => pc'[u] = pc[u]
    BY <1>1, <1>2 DEF Known, Types
  <1>4. Moves(r)
    BY <1>1, <1>3 DEF Moves
  <1>5. ReaderMoved(r)
    BY <1>4, ReaderMoves DEF ReaderMoved
  <1>6. Types'
    <2>1. Types /\ to \in Places
      BY <1>2 DEF Known, Places
    <2>2. activeReaders' \in Int
      BY <1>1, <2>1 DEF Types
    <2>3. pc' \in [Threads -> Places]
      BY <1>1, <2>1 DEF Types
    <2> QED  BY <1>1, <2>1, <2>2, <2>3 DEF Types
  <1>7. Proper'
    <2>1. NumItems' = NumItems
      BY <1>1 DEF NumItems
    <2> QED  BY <1>1, <1>2, <1>3, <2>1, ThreadSets DEF Known, Proper, Claiming, Producing
  <1>8. r \notin WillSignalWriter' /\ r \notin WillSignalWriter
    BY <1>1, <1>3 DEF WillSignalWriter
  <1>9. CountAt(Readers, Active)' = CountAt(Readers, Active) - 1
    BY <1>1, <1>2, <1>3, <1>5 DEF Known, ReaderMoved, ShiftAt, One, Active, Places
  <1>10. WriterSide'
    <2>1. activeReaders > 0
      <3>1. CountAt(Readers, Active)' = CountAt(Readers, Active) + One(r \in Readers /\ pc'[r] \in Active)
                                                         - One(r \in Readers /\ pc[r] \in Active)
            /\ CountAt(Readers, Active) \in Nat /\ CountAt(Readers, Active)' \in Nat
        BY <1>2, <1>4, CountMoves
      <3> QED  BY <1>2, <1>9, <3>1 DEF Known, Actives
    <2>2. /\ CountAt(Writers, Sleepers)' = CountAt(Writers, Sleepers)
          /\ CountAt(Writers, Gone)' = CountAt(Writers, Gone)
          /\ CountAt(Writers, Unparked)' = CountAt(Writers, Unparked)
          /\ Cardinality(WillSignalWriter)' = Cardinality(WillSignalWriter)
      BY <1>2, <1>5, <1>8 DEF Known, ReaderMoved, SameAt, One
    <2> QED  BY <1>1, <1>2, <2>1, <2>2 DEF Known, WriterSide, Sided
  <1>11. ReaderSide'
    BY <1>1, <1>2, <1>3, <1>5
    DEF Known, ReaderMoved, ReaderSide, Sided, ShiftAt, One, Sleepers, Gone, Unparked, Places
  <1>12. Actives'
    BY <1>1, <1>2, <1>3, <1>5, <1>9, ThreadSets DEF Known, ReaderMoved, Actives, SameAt
  <1>13. Aside
    BY <1>1, <1>3 DEF Aside, Claiming
  <1> QED  BY <1>6, <1>7, <1>10, <1>11, <1>12, <1>13 DEF Base, Counts

\* A writer signals: the reader that it has taken off the count, or, when it was the
\* last writer, all that are counted.
LEMMA WriterSignals ==
    ASSUME Base, NEW w \in Writers,
           \/ SignalReaders(w, "signal", 1, "idle")
           \/ SignalReaders(w, "wake", state.readers, "done")
    PROVE  Base' /\ Aside
  <1>2. Known /\ w \in Threads /\ w \notin Readers
    BY CountFacts, ThreadSets
  <1>1. PICK n \in Nat, from \in {"signal", "wake"}, to \in {"idle", "done"} :
        /\ pc[w] = from /\ pc' = [pc EXCEPT ![w] = to] /\ readTokens' = readTokens + n
        /\ (from = "signal" /\ to = "idle" /\ n = 1) \/ (from = "wake" /\ to = "done")
        /\ UNCHANGED <<state, writeTokens, activeWriters, activeReaders, aborted, resets, cur,
                       slot, next, result, apc, cuts, line, due, received, early>>
    BY <1>2 DEF Known, SignalReaders, Goto, active, others, counters, history
  <1>3. pc'[w] = to /\ \A u \in Threads : u # w => pc'[u] = pc[u]
    BY <1>1, <1>2 DEF Known, Types
  <1>4. Moves(w)
    BY <1>1, <1>3 DEF Moves
  <1>5. WriterMoved(w)
    BY <1>4, WriterMoves DEF WriterMoved
  <1>6. Types'
    <2>1. Types /\ to \in Places
      BY <1>2 DEF Known, Places
    <2>2. readTokens' \in Nat
      BY <1>1, <2>1 DEF Types
    <2>3. pc' \in [Threads -> Places]
      BY <1>1, <2>1 DEF Types
    <2> QED  BY <1>1, <2>1, <2>2, <2>3 DEF Types
  <1>7. Proper'
    <2>1. NumItems' = NumItems
      BY <1>1 DEF NumItems
    <2> QED  BY <1>1, <1>2, <1>3, <2>1, ThreadSets DEF Known, Proper, Claiming, Producing
  <1>8. w \notin WillSignalReader' /\ (from = "signal" <=> w \in WillSignalReader)
    BY <1>1, <1>3 DEF WillSignalReader
  <1>9. from = "wake" => activeWriters <= 0
    BY <1>1, <1>2 DEF Known, Actives
  <1>10. ReaderSide'
    BY <1>1, <1>2, <1>5, <1>8, <1>9 DEF Known, WriterMoved, ReaderSide, Sided, SameAt, One
  <1>11. WriterSide'
    BY <1>1, <1>2, <1>3, <1>5
    DEF Known, WriterMoved, WriterSide, Sided, ShiftAt, One, Sleepers, Gone, Unparked, Places
  <1>12. Actives'
    <2>1. CountAt(Writers, Active)' = CountAt(Writers, Active) + One(to \in Active) - One(from \in Active)
          /\ CountAt(Readers, Active)' = CountAt(Readers, Active)
      BY <1>1, <1>3, <1>5 DEF WriterMoved, ShiftAt, SameAt
    <2>2. One(to \in Active) = One(from \in Active)
      BY <1>1 DEF One, Active, Places
    <2>3. CountAt(Writers, Active)' = CountAt(Writers, Active)
      BY <1>2, <2>1, <2>2 DEF Known, One
    <2>4. \A t \in Threads : pc'[t] = "wake" => pc[t] = "wake"
      BY <1>1, <1>3
    <2> QED  BY <1>1, <1>2, <2>1, <2>3, <2>4, ThreadSets DEF Known, Actives
  <1>13. Aside
    BY <1>1, <1>3 DEF Aside, Claiming
  <1> QED  BY <1>6, <1>7, <1>10, <1>11, <1>12, <1>13 DEF Base, Counts

\* A writer notes that it has stopped: the readers that wait are all still counted.
LEMMA WriterLeaves ==
    ASSUME Base, NEW w \in Writers, WriterStops(w)
    PROVE  Base' /\ Aside
  <1>2. Known /\ w \in Threads /\ w \notin Readers
    BY CountFacts, ThreadSets
  <1>1. PICK to \in {"wake", "done"} :
        /\ pc[w] = "stop" /\ pc' = [pc EXCEPT ![w] = to] /\ activeWriters' = activeWriters - 1
        /\ to = "wake" => activeWriters = 1
        /\ UNCHANGED <<state, writeTokens, readTokens, activeReaders, aborted, resets, cur,
                       slot, next, result, apc, cuts, line, due, received, early>>
    BY <1>2 DEF Known, WriterStops, Goto, tokens, others, counters, history
  <1>3. pc'[w] = to /\ \A u \in Threads : u # w => pc'[u] = pc[u]
    BY <1>1, <1>2 DEF Known, Types
  <1>4. Moves(w)
    BY <1>1, <1>3 DEF Moves
  <1>5. WriterMoved(w)
    BY <1>4, WriterMoves DEF WriterMoved
  <1>6. Types'
    <2>1. Types /\ to \in Places
      BY <1>2 DEF Known, Places
    <2>2. activeWriters' \in Int
      BY <1>1, <2>1 DEF Types
    <2>3. pc' \in [Threads -> Places]
      BY <1>1, <2>1 DEF Types
    <2> QED  BY <1>1, <2>1, <2>2, <2>3 DEF Types
  <1>7. Proper'
    <2>1. NumItems' = NumItems
      BY <1>1 DEF NumItems
    <2> QED  BY <1>1, <1>2, <1>3, <2>1, ThreadSets DEF Known, Proper, Claiming, Producing
  <1>8. w \notin WillSignalReader' /\ w \notin WillSignalReader
    BY <1>1, <1>3 DEF WillSignalReader
  <1>9. CountAt(Writers, Active)' = CountAt(Writers, Active) - 1
    BY <1>1, <1>2, <1>3, <1>5 DEF Known, WriterMoved, ShiftAt, One, Active, Places
  <1>10. ReaderSide'
    <2>1. activeWriters > 0
      <3>1. CountAt(Writers, Active)' = CountAt(Writers, Active) + One(w \in Writers /\ pc'[w] \in Active)
                                                         - One(w \in Writers /\ pc[w] \in Active)
            /\ CountAt(Writers, Active) \in Nat /\ CountAt(Writers, Active)' \in Nat
        BY <1>2, <1>4, CountMoves
      <3> QED  BY <1>2, <1>9, <3>1 DEF Known, Actives
    <2>2. /\ CountAt(Readers, Sleepers)' = CountAt(Readers, Sleepers)
          /\ CountAt(Readers, Gone)' = CountAt(Readers, Gone)
          /\ CountAt(Readers, Unparked)' = CountAt(Readers, Unparked)
          /\ Cardinality(WillSignalReader)' = Cardinality(WillSignalReader)
      BY <1>2, <1>5, <1>8 DEF Known, WriterMoved, SameAt, One
    <2> QED  BY <1>1, <1>2, <2>1, <2>2 DEF Known, ReaderSide, Sided
  <1>11. WriterSide'
    BY <1>1, <1>2, <1>3, <1>5
    DEF Known, WriterMoved, WriterSide, Sided, ShiftAt, One, Sleepers, Gone, Unparked, Places
  <1>12. Actives'
    BY <1>1, <1>2, <1>3, <1>5, <1>9, ThreadSets DEF Known, WriterMoved, Actives, SameAt
  <1>13. Aside
    BY <1>1, <1>3 DEF Aside, Claiming
  <1> QED  BY <1>6, <1>7, <1>10, <1>11, <1>12, <1>13 DEF Base, Counts

\* A reader stops before it has everything.
LEMMA ReaderQuits ==
    ASSUME Base, NEW r \in Readers, StopEarly(r)
    PROVE  Base' /\ Aside
  <1>1. /\ pc[r] = "idle" /\ pc' = [pc EXCEPT ![r] = "stop"]
        /\ cuts < MaxCuts /\ cuts' = cuts + 1 /\ early' = TRUE
        /\ UNCHANGED <<state, readTokens, writeTokens, activeReaders, activeWriters, aborted, resets,
                       cur, slot, next, result, apc, line, due, received>>
    BY DEF StopEarly, Goto, tokens, active
  <1>2. Known /\ r \in Threads /\ r \notin Writers
    BY CountFacts, ThreadSets
  <1>3. pc'[r] = "stop" /\ \A u \in Threads : u # r => pc'[u] = pc[u]
    BY <1>1, <1>2 DEF Known, Types
  <1>4. Moves(r)
    BY <1>1, <1>3 DEF Moves
  <1>5. Types'
    <2>1. Types /\ "stop" \in Places
      BY <1>2 DEF Known, Places
    <2>2. cuts' \in 0 .. MaxCuts
      BY <1>1, <2>1, Widths DEF Types
    <2>3. pc' \in [Threads -> Places]
      BY <1>1, <2>1 DEF Types
    <2>4. early' \in BOOLEAN
      BY <1>1
    <2> QED  BY <1>1, <2>1, <2>2, <2>3, <2>4 DEF Types
  <1>6. Proper'
    <2>1. NumItems' = NumItems
      BY <1>1 DEF NumItems
    <2> QED  BY <1>1, <1>2, <1>3, <2>1, ThreadSets DEF Known, Proper, Claiming, Producing
  <1>7. Orderly(r, activeWriters)
    BY <1>1, <1>3 DEF Orderly, Sleepers, Gone, Active, Places
  <1>8. r \in WillSignalWriter <=> r \in WillSignalWriter'
    BY <1>1, <1>3 DEF WillSignalWriter
  <1>9. Counts'
    BY <1>1, <1>4, <1>5, <1>7, <1>8, ReaderSteps
  <1>10. Aside
    BY <1>1, <1>3 DEF Aside, Claiming
  <1> QED  BY <1>5, <1>6, <1>9, <1>10 DEF Base

\* The counts when no thread moves.
LEMMA NobodyMoves ==
    ASSUME UNCHANGED <<pc, cur>>
    PROVE  /\ SameAt(Readers) /\ SameAt(Writers)
           /\ Cardinality(WillSignalReader)' = Cardinality(WillSignalReader)
           /\ Cardinality(WillSignalWriter)' = Cardinality(WillSignalWriter)
  <1>1. \A S, M : CountAt(S, M)' = CountAt(S, M)
    BY DEF CountAt
  <1>2. WillSignalReader' = WillSignalReader /\ WillSignalWriter' = WillSignalWriter
    BY DEF WillSignalReader, WillSignalWriter
  <1> QED  BY <1>1, <1>2 DEF SameAt

\* abort() raises the flag, and then signals all that the word counts.
LEMMA Aborts ==
    ASSUME Base, Abort \/ AbortSignal
    PROVE  Base' /\ Aside
  <1>1. Known
    BY CountFacts
  <1>2. /\ aborted' /\ aborted' \in BOOLEAN /\ apc' \in {"idle", "signal"} /\ cuts' \in 0 .. MaxCuts
        /\ readTokens' \in Nat /\ writeTokens' \in Nat
        /\ readTokens' >= readTokens /\ writeTokens' >= writeTokens
        /\ UNCHANGED <<state, activeReaders, activeWriters, resets, pc, cur, slot, next, result, line,
                       due, received, early>>
    <2>1. CASE Abort
      <3>1. /\ aborted' = TRUE /\ apc' = "signal" /\ cuts < MaxCuts /\ cuts' = cuts + 1
            /\ UNCHANGED <<state, readTokens, writeTokens, activeReaders, activeWriters, resets, pc, cur,
                           slot, next, result, line, due, received, early>>
        BY <2>1 DEF Abort, tokens, active, history
      <3>2. cuts' \in 0 .. MaxCuts
        BY <1>1, <3>1, Widths DEF Known, Types
      <3>3. readTokens' = readTokens /\ writeTokens' = writeTokens
        BY <3>1
      <3>4. readTokens' \in Nat /\ writeTokens' \in Nat
            /\ readTokens' >= readTokens /\ writeTokens' >= writeTokens
        BY <1>1, <3>3 DEF Known
      <3> QED  BY <3>1, <3>2, <3>4
    <2>2. CASE AbortSignal
      <3>1. /\ apc = "signal" /\ apc' = "idle" /\ readTokens' = readTokens + state.readers
            /\ writeTokens' = writeTokens + state.writers
            /\ UNCHANGED <<state, activeReaders, activeWriters, aborted, resets, cuts, pc, cur,
                           slot, next, result, line, due, received, early>>
        BY <2>2 DEF AbortSignal, active, counters, history
      <3>2. aborted /\ aborted \in BOOLEAN /\ cuts \in 0 .. MaxCuts
        BY <1>1, <3>1 DEF Known, Proper, Types
      <3>3. readTokens' \in Nat /\ writeTokens' \in Nat
            /\ readTokens' >= readTokens /\ writeTokens' >= writeTokens
        BY <1>1, <3>1 DEF Known
      <3>4. aborted' /\ aborted' \in BOOLEAN /\ cuts' = cuts
        BY <3>1, <3>2
      <3> QED  BY <3>1, <3>2, <3>3, <3>4
    <2> QED  BY <2>1, <2>2
  <1>3. Types'
    BY <1>1, <1>2 DEF Known, Types
  <1>4. Proper'
    <2>1. NumItems' = NumItems
      BY <1>2 DEF NumItems
    <2> QED  BY <1>1, <1>2, <2>1 DEF Known, Proper
  <1>5. /\ SameAt(Readers) /\ SameAt(Writers)
        /\ Cardinality(WillSignalReader)' = Cardinality(WillSignalReader)
        /\ Cardinality(WillSignalWriter)' = Cardinality(WillSignalWriter)
    BY <1>2, NobodyMoves
  <1>6. ReaderSide'
    BY <1>1, <1>2, <1>5 DEF Known, ReaderSide, Sided, SameAt
  <1>7. WriterSide'
    BY <1>1, <1>2, <1>5 DEF Known, WriterSide, Sided, SameAt
  <1>8. Actives'
    BY <1>1, <1>2, <1>5 DEF Known, Actives, SameAt
  <1>9. Aside
    BY <1>2 DEF Aside
  <1> QED  BY <1>3, <1>4, <1>6, <1>7, <1>8, <1>9 DEF Base, Counts

\* The item that a writer has in hand.
LEMMA ItemType ==
    ASSUME Types, Proper, NEW w \in Writers, pc[w] \in Producing
    PROVE  <<w, next[w]>> \in Items
  <1>1. next[w] \in Nat /\ next[w] >= 1 /\ next[w] <= NumItems
    BY DEF Types, Proper
  <1>2. next[w] \in Numbers
    BY <1>1, Widths DEF NumItems, Numbers
  <1> QED  BY <1>2 DEF Items

\* A reader that finds the queue empty.
LEMMA ReaderFindsNone ==
    ASSUME Base, NEW r \in Readers, DequeueTry(r), state.count = 0
    PROVE  Base' /\ Aside
  <1>1. /\ pc[r] = "try" /\ pc' = [pc EXCEPT ![r] = "check"] /\ cur' = [cur EXCEPT ![r] = state]
        /\ UNCHANGED <<state, readTokens, writeTokens, activeReaders, activeWriters, aborted, resets,
                       slot, next, result, apc, cuts, line, due, received, early>>
    BY DEF DequeueTry, Goto, tokens, active, counters
  <1>2. Known /\ r \in Threads /\ r \notin Writers
    BY CountFacts, ThreadSets
  <1>3. pc'[r] = "check" /\ \A u \in Threads : u # r => pc'[u] = pc[u]
    BY <1>1, <1>2 DEF Known, Types
  <1>4. Moves(r)
    BY <1>1, <1>2, <1>3 DEF Known, Types, Moves
  <1>5. Types'
    <2>1. Types /\ "check" \in Places
      BY <1>2 DEF Known, Places
    <2>2. cur' \in [Threads -> State]
      BY <1>1, <2>1 DEF Types
    <2>3. pc' \in [Threads -> Places]
      BY <1>1, <2>1 DEF Types
    <2> QED  BY <1>1, <2>1, <2>2, <2>3 DEF Types
  <1>6. Proper'
    <2>1. NumItems' = NumItems
      BY <1>1 DEF NumItems
    <2> QED  BY <1>1, <1>2, <1>3, <2>1, ThreadSets DEF Known, Proper, Claiming, Producing
  <1>7. Orderly(r, activeWriters)
    BY <1>1, <1>3 DEF Orderly, Sleepers, Gone, Active, Places
  <1>8. r \in WillSignalWriter <=> r \in WillSignalWriter'
    BY <1>1, <1>3 DEF WillSignalWriter
  <1>9. Counts'
    BY <1>1, <1>4, <1>5, <1>7, <1>8, ReaderSteps
  <1>10. Aside
    BY <1>1, <1>3, <1>4 DEF Aside, Claiming, Moves
  <1> QED  BY <1>5, <1>6, <1>9, <1>10 DEF Base

\* A reader that claims an item takes a writer off the count and owes it a signal.
LEMMA ReaderClaims ==
    ASSUME Base, NEW r \in Readers, DequeueTry(r), state.count # 0
    PROVE  Base'
  <1>1. /\ pc[r] = "try" /\ pc' = [pc EXCEPT ![r] = "slot"] /\ cur' = [cur EXCEPT ![r] = state]
        /\ state' = Dequeued(state) /\ due' = [due EXCEPT ![r] = Head(line)] /\ line' = Tail(line)
        /\ UNCHANGED <<readTokens, writeTokens, activeReaders, activeWriters, aborted, resets,
                       slot, next, result, apc, cuts, received, early>>
    BY DEF DequeueTry, Goto, tokens, active, counters
  <1>2. Known /\ r \in Threads /\ r \notin Writers /\ state \in State
    BY CountFacts, ThreadSets DEF Known, Types
  <1>3. pc'[r] = "slot" /\ cur'[r] = state /\ \A u \in Threads : u # r => pc'[u] = pc[u]
    BY <1>1, <1>2 DEF Known, Types
  <1>4. Moves(r)
    BY <1>1, <1>2, <1>3 DEF Known, Types, Moves
  <1>5. ReaderMoved(r)
    BY <1>4, ReaderMoves DEF ReaderMoved
  <1>6. /\ Dequeued(state) \in State
        /\ Dequeued(state).deq = Seq1(state.deq + 1) /\ Dequeued(state).readers = state.readers
        /\ Dequeued(state).count = state.count - 1
        /\ Dequeued(state).writers = IF state.writers = 0 THEN 0 ELSE state.writers - 1
    BY <1>2, DequeuedFields
  <1>7. Head(line) \in Items /\ Tail(line) \in Seq(Items) /\ Len(Tail(line)) = state.count - 1
    <2>1. line \in Seq(Items) /\ Len(line) = state.count /\ state.count \in Nat
      BY <1>2 DEF Known, Types, Proper
    <2> QED  BY <2>1
  <1>8. due' \in [Readers -> ItemOrNone] /\ due'[r] = Head(line)
        /\ \A u \in Readers : u # r => due'[u] = due[u]
    BY <1>1, <1>2, <1>7 DEF Known, Types, ItemOrNone
  <1>9. Types'
    <2>1. Types /\ "slot" \in Places
      BY <1>2 DEF Known, Places
    <2>2. cur' \in [Threads -> State]
      BY <1>1, <2>1 DEF Types
    <2>3. pc' \in [Threads -> Places]
      BY <1>1, <2>1 DEF Types
    <2>4. state' \in State /\ line' \in Seq(Items)
      BY <1>1, <1>6, <1>7
    <2> QED  BY <1>1, <1>8, <2>1, <2>2, <2>3, <2>4 DEF Types
  <1>10. Proper'
    <2>1. NumItems' = NumItems
      BY <1>1 DEF NumItems
    <2>2. Len(line') = state'.count
      BY <1>1, <1>6, <1>7
    <2>3. \A u \in Readers : pc'[u] \in Claiming => due'[u] \in Items
      BY <1>2, <1>3, <1>7, <1>8, ThreadSets DEF Known, Proper
    <2>4. \A w \in Writers : pc'[w] = pc[w]
      BY <1>2, <1>3, ThreadSets
    <2> QED  BY <1>1, <1>2, <2>1, <2>2, <2>3, <2>4 DEF Known, Proper
  <1>11. r \notin WillSignalWriter /\ (r \in WillSignalWriter' <=> state.writers # 0)
    BY <1>1, <1>3 DEF WillSignalWriter
  <1>12. /\ pc[r] = "try"
         /\ UNCHANGED <<readTokens, writeTokens, activeReaders, activeWriters, aborted, resets>>
         /\ state'.readers = state.readers
         /\ state'.writers = IF state.writers = 0 THEN 0 ELSE state.writers - 1
    BY <1>1, <1>6
  <1>13. Cardinality(WillSignalWriter)' = Cardinality(WillSignalWriter) + IF state.writers = 0 THEN 0 ELSE 1
    BY <1>2, <1>5, <1>11 DEF Known, ReaderMoved, One
  <1>14. WriterSide'
    <2>1. Cardinality(WillSignalWriter)' \in Nat /\ state'.writers \in Nat
          /\ state'.writers + Cardinality(WillSignalWriter)' = state.writers + Cardinality(WillSignalWriter)
      <3>1. state.writers \in Nat /\ Cardinality(WillSignalWriter) \in Nat
        BY <1>2 DEF Known
      <3> QED  BY <1>12, <1>13, <3>1
    <2> QED  BY <1>2, <1>5, <1>12, <2>1 DEF Known, ReaderMoved, WriterSide, Sided, SameAt
  <1>15. ReaderSide'
    BY <1>2, <1>3, <1>5, <1>12
    DEF Known, ReaderMoved, ReaderSide, Sided, ShiftAt, One, Sleepers, Gone, Unparked, Places
  <1>16. Actives'
    BY <1>2, <1>3, <1>5, <1>12, ThreadSets
    DEF Known, ReaderMoved, Actives, ShiftAt, SameAt, One, Active, Places
  <1> QED  BY <1>9, <1>10, <1>14, <1>15, <1>16 DEF Base, Counts

\* A writer that finds the queue full.
LEMMA WriterFindsNone ==
    ASSUME Base, NEW w \in Writers, EnqueueTry(w), state.count = MaxItems
    PROVE  Base' /\ Aside
  <1>1. /\ pc[w] = "try" /\ pc' = [pc EXCEPT ![w] = "check"] /\ cur' = [cur EXCEPT ![w] = state]
        /\ UNCHANGED <<state, writeTokens, readTokens, activeWriters, activeReaders, aborted, resets,
                       slot, next, result, apc, cuts, line, due, received, early>>
    BY DEF EnqueueTry, Goto, tokens, active, counters
  <1>2. Known /\ w \in Threads /\ w \notin Readers
    BY CountFacts, ThreadSets
  <1>3. pc'[w] = "check" /\ \A u \in Threads : u # w => pc'[u] = pc[u]
    BY <1>1, <1>2 DEF Known, Types
  <1>4. Moves(w)
    BY <1>1, <1>2, <1>3 DEF Known, Types, Moves
  <1>5. Types'
    <2>1. Types /\ "check" \in Places
      BY <1>2 DEF Known, Places
    <2>2. cur' \in [Threads -> State]
      BY <1>1, <2>1 DEF Types
    <2>3. pc' \in [Threads -> Places]
      BY <1>1, <2>1 DEF Types
    <2> QED  BY <1>1, <2>1, <2>2, <2>3 DEF Types
  <1>6. Proper'
    <2>1. NumItems' = NumItems
      BY <1>1 DEF NumItems
    <2> QED  BY <1>1, <1>2, <1>3, <2>1, ThreadSets DEF Known, Proper, Claiming, Producing
  <1>7. Orderly(w, activeReaders)
    BY <1>1, <1>3 DEF Orderly, Sleepers, Gone, Active, Places
  <1>8. w \in WillSignalReader <=> w \in WillSignalReader'
    BY <1>1, <1>3 DEF WillSignalReader
  <1>9. Counts'
    BY <1>1, <1>4, <1>5, <1>7, <1>8, WriterSteps
  <1>10. Aside
    BY <1>1, <1>3, <1>4 DEF Aside, Claiming, Moves
  <1> QED  BY <1>5, <1>6, <1>9, <1>10 DEF Base

\* A writer that claims an item takes a reader off the count and owes it a signal.
LEMMA WriterClaims ==
    ASSUME Base, NEW w \in Writers, EnqueueTry(w), state.count # MaxItems
    PROVE  Base'
  <1>1. /\ pc[w] = "try" /\ pc' = [pc EXCEPT ![w] = "slot"] /\ cur' = [cur EXCEPT ![w] = state]
        /\ state' = Enqueued(state) /\ line' = Append(line, <<w, next[w]>>)
        /\ UNCHANGED <<writeTokens, readTokens, activeWriters, activeReaders, aborted, resets,
                       slot, next, result, apc, cuts, due, received, early>>
    BY DEF EnqueueTry, Goto, tokens, active, counters
  <1>2. Known /\ w \in Threads /\ w \notin Readers /\ state \in State
    BY CountFacts, ThreadSets DEF Known, Types
  <1>3. pc'[w] = "slot" /\ cur'[w] = state /\ \A u \in Threads : u # w => pc'[u] = pc[u]
    BY <1>1, <1>2 DEF Known, Types
  <1>4. Moves(w)
    BY <1>1, <1>2, <1>3 DEF Known, Types, Moves
  <1>5. WriterMoved(w)
    BY <1>4, WriterMoves DEF WriterMoved
  <1>6. /\ Enqueued(state) \in State
        /\ Enqueued(state).deq = state.deq /\ Enqueued(state).writers = state.writers
        /\ Enqueued(state).count = state.count + 1
        /\ Enqueued(state).readers = IF state.readers = 0 THEN 0 ELSE state.readers - 1
    BY <1>2, EnqueuedFields
  <1>7. line' \in Seq(Items) /\ Len(line') = state.count + 1
    <2>1. line \in Seq(Items) /\ Len(line) = state.count /\ Types /\ Proper
      BY <1>2 DEF Known, Types, Proper
    <2>2. <<w, next[w]>> \in Items
      BY <1>1, <2>1, ItemType DEF Producing
    <2> QED  BY <1>1, <2>1, <2>2
  <1>9. Types'
    <2>1. Types /\ "slot" \in Places
      BY <1>2 DEF Known, Places
    <2>2. cur' \in [Threads -> State]
      BY <1>1, <2>1 DEF Types
    <2>3. pc' \in [Threads -> Places]
      BY <1>1, <2>1 DEF Types
    <2>4. state' \in State /\ line' \in Seq(Items)
      BY <1>1, <1>6, <1>7
    <2> QED  BY <1>1, <2>1, <2>2, <2>3, <2>4 DEF Types
  <1>10. Proper'
    <2>1. NumItems' = NumItems
      BY <1>1 DEF NumItems
    <2>2. Len(line') = state'.count
      BY <1>1, <1>6, <1>7
    <2>3. \A r \in Readers : pc'[r] = pc[r]
      BY <1>2, <1>3, ThreadSets
    <2> QED  BY <1>1, <1>2, <1>3, <2>1, <2>2, <2>3, ThreadSets DEF Known, Proper, Producing
  <1>11. w \notin WillSignalReader /\ (w \in WillSignalReader' <=> state.readers # 0)
    BY <1>1, <1>3 DEF WillSignalReader
  <1>12. /\ pc[w] = "try"
         /\ UNCHANGED <<readTokens, writeTokens, activeReaders, activeWriters, aborted, resets>>
         /\ state'.writers = state.writers
         /\ state'.readers = IF state.readers = 0 THEN 0 ELSE state.readers - 1
    BY <1>1, <1>6
  <1>13. Cardinality(WillSignalReader)' = Cardinality(WillSignalReader) + IF state.readers = 0 THEN 0 ELSE 1
    BY <1>2, <1>5, <1>11 DEF Known, WriterMoved, One
  <1>14. ReaderSide'
    <2>1. Cardinality(WillSignalReader)' \in Nat /\ state'.readers \in Nat
          /\ state'.readers + Cardinality(WillSignalReader)' = state.readers + Cardinality(WillSignalReader)
      <3>1. state.readers \in Nat /\ Cardinality(WillSignalReader) \in Nat
        BY <1>2 DEF Known
      <3> QED  BY <1>12, <1>13, <3>1
    <2> QED  BY <1>2, <1>5, <1>12, <2>1 DEF Known, WriterMoved, ReaderSide, Sided, SameAt
  <1>15. WriterSide'
    BY <1>2, <1>3, <1>5, <1>12
    DEF Known, WriterMoved, WriterSide, Sided, ShiftAt, One, Sleepers, Gone, Unparked, Places
  <1>16. Actives'
    BY <1>2, <1>3, <1>5, <1>12, ThreadSets
    DEF Known, WriterMoved, Actives, ShiftAt, SameAt, One, Active, Places
  <1> QED  BY <1>9, <1>10, <1>14, <1>15, <1>16 DEF Base, Counts

\* The slots that threads claim, and the numbers that they give them, have their types.
LEMMA SlotTypes ==
    ASSUME NEW s \in State
    PROVE  /\ SlotOf(s.deq) \in Slots /\ SlotOf(EnqueueSeq(s)) \in Slots
           /\ FilledSeq(s) \in Sequence /\ FreedSeq(s) \in Sequence /\ ExpectedSeq(s) \in Sequence
           /\ EnqueueSeq(s) \in Sequence
  <1>1. s.deq \in Int /\ s.count \in Int
    BY StateFields, Widths
  <1>2. s.deq + s.count \in Int /\ s.deq + NumSlots \in Int /\ s.deq + 1 \in Int
    BY <1>1, Widths
  <1>3. EnqueueSeq(s) \in Sequence /\ FreedSeq(s) \in Sequence /\ ExpectedSeq(s) \in Sequence
    BY <1>2, SeqType DEF EnqueueSeq, FreedSeq, ExpectedSeq
  <1>4. EnqueueSeq(s) \in Int /\ EnqueueSeq(s) + 1 \in Int
    BY <1>3, Widths
  <1>5. FilledSeq(s) \in Sequence
    BY <1>4, SeqType DEF FilledSeq
  <1>6. SlotOf(s.deq) \in Slots /\ SlotOf(EnqueueSeq(s)) \in Slots
    BY <1>1, <1>4, Widths, ModRange DEF SlotOf, Slots
  <1> QED  BY <1>3, <1>5, <1>6

\* A reader reads the slot that it has claimed.
LEMMA ReaderTakes ==
    ASSUME Base, NEW r \in Readers, Take(r)
    PROVE  Base'
  <1>1. /\ pc[r] = "slot" /\ pc' = [pc EXCEPT ![r] = "store"]
        /\ result' = [result EXCEPT ![r] = slot[SlotOf(cur[r].deq)].value]
        /\ UNCHANGED <<state, readTokens, writeTokens, activeReaders, activeWriters, aborted, resets,
                       cur, slot, next, apc, cuts, line, due, received, early>>
    BY DEF Take, Goto, tokens, active, counters, history
  <1>2. Known /\ r \in Threads /\ r \notin Writers
    BY CountFacts, ThreadSets
  <1>3. pc'[r] = "store" /\ \A u \in Threads : u # r => pc'[u] = pc[u]
    BY <1>1, <1>2 DEF Known, Types
  <1>4. Moves(r)
    BY <1>1, <1>3 DEF Moves
  <1>5. Types'
    <2>1. Types /\ "store" \in Places
      BY <1>2 DEF Known, Places
    <2>2. cur[r] \in State
      BY <1>2, <2>1 DEF Types
    <2>3. SlotOf(cur[r].deq) \in Slots
      BY <2>2, SlotTypes
    <2>4. slot[SlotOf(cur[r].deq)].value \in ItemOrNone
      BY <2>1, <2>3 DEF Types, Cells, ItemOrNone
    <2>5. result' \in [Readers -> ItemOrNone]
      BY <1>1, <2>1, <2>4 DEF Types
    <2>6. pc' \in [Threads -> Places]
      BY <1>1, <2>1 DEF Types
    <2> QED  BY <1>1, <2>1, <2>5, <2>6 DEF Types
  <1>6. Proper'
    <2>1. NumItems' = NumItems
      BY <1>1 DEF NumItems
    <2> QED  BY <1>1, <1>2, <1>3, <2>1, ThreadSets DEF Known, Proper, Claiming
  <1>7. Orderly(r, activeWriters)
    BY <1>1, <1>3 DEF Orderly, Sleepers, Gone, Active, Places
  <1>8. r \in WillSignalWriter <=> r \in WillSignalWriter'
    BY <1>1, <1>3 DEF WillSignalWriter
  <1>9. Counts'
    BY <1>1, <1>4, <1>5, <1>7, <1>8, ReaderSteps
  <1> QED  BY <1>5, <1>6, <1>9 DEF Base

\* A writer fills the slot that it has claimed.
LEMMA WriterFills ==
    ASSUME Base, NEW w \in Writers, Fill(w)
    PROVE  Base'
  <1>1. /\ pc[w] = "slot" /\ pc' = [pc EXCEPT ![w] = "store"]
        /\ slot' = [slot EXCEPT ![SlotOf(EnqueueSeq(cur[w]))].value = <<w, next[w]>>]
        /\ UNCHANGED <<state, readTokens, writeTokens, activeReaders, activeWriters, aborted, resets,
                       cur, result, next, apc, cuts, line, due, received, early>>
    BY DEF Fill, Goto, tokens, active, counters, history
  <1>2. Known /\ w \in Threads /\ w \notin Readers
    BY CountFacts, ThreadSets
  <1>3. pc'[w] = "store" /\ \A u \in Threads : u # w => pc'[u] = pc[u]
    BY <1>1, <1>2 DEF Known, Types
  <1>4. Moves(w)
    BY <1>1, <1>3 DEF Moves
  <1>5. Types'
    <2>1. Types /\ Proper /\ "store" \in Places
      BY <1>2 DEF Known, Places
    <2>2. cur[w] \in State
      BY <1>2, <2>1 DEF Types
    <2>3. SlotOf(EnqueueSeq(cur[w])) \in Slots
      BY <2>2, SlotTypes
    <2>4. <<w, next[w]>> \in Items
      BY <1>1, <2>1, ItemType DEF Producing
    <2>5. slot' \in [Slots -> Cells]
      BY <1>1, <2>1, <2>3, <2>4 DEF Types, Cells
    <2>6. pc' \in [Threads -> Places]
      BY <1>1, <2>1 DEF Types
    <2> QED  BY <1>1, <2>1, <2>5, <2>6 DEF Types
  <1>6. Proper'
    <2>1. NumItems' = NumItems
      BY <1>1 DEF NumItems
    <2>2. \A r \in Readers : pc'[r] = pc[r]
      BY <1>2, <1>3, ThreadSets
    <2> QED  BY <1>1, <1>2, <1>3, <2>1, <2>2, ThreadSets DEF Known, Proper, Producing
  <1>7. Orderly(w, activeReaders)
    BY <1>1, <1>3 DEF Orderly, Sleepers, Gone, Active, Places
  <1>8. w \in WillSignalReader <=> w \in WillSignalReader'
    BY <1>1, <1>3 DEF WillSignalReader
  <1>9. Counts'
    BY <1>1, <1>4, <1>5, <1>7, <1>8, WriterSteps
  <1> QED  BY <1>5, <1>6, <1>9 DEF Base

\* A reader frees its slot and goes on to the signal that it owes.
LEMMA ReaderFrees ==
    ASSUME Base, NEW r \in Readers, Freed(r)
    PROVE  Base'
  <1>1. PICK to \in {"signal", "idle"} :
        /\ pc[r] = "store" /\ pc' = [pc EXCEPT ![r] = to] /\ cur' = [cur EXCEPT ![r] = Empty]
        /\ to = "signal" <=> cur[r].writers # 0
        /\ slot' = [slot EXCEPT ![SlotOf(cur[r].deq)] = [seq |-> FreedSeq(cur[r]), value |-> NoItem]]
        /\ result' = [result EXCEPT ![r] = NoItem] /\ due' = [due EXCEPT ![r] = NoItem]
        /\ UNCHANGED <<state, readTokens, writeTokens, activeReaders, activeWriters, aborted, resets,
                       next, apc, cuts, line, early>>
    BY DEF Freed, Goto, Forget, tokens, active, counters
  <1>2. Known /\ r \in Threads /\ r \notin Writers
    BY CountFacts, ThreadSets
  <1>3. pc'[r] = to /\ \A u \in Threads : u # r => pc'[u] = pc[u]
    BY <1>1, <1>2 DEF Known, Types
  <1>4. Moves(r)
    BY <1>1, <1>2, <1>3 DEF Known, Types, Moves
  <1>5. Types'
    <2>1. Types /\ to \in Places /\ Empty \in State /\ NoItem \in ItemOrNone
      BY <1>2, Widths DEF Known, Places, Empty, State, ItemOrNone
    <2>2. cur[r] \in State
      BY <1>2, <2>1 DEF Types
    <2>3. SlotOf(cur[r].deq) \in Slots /\ FreedSeq(cur[r]) \in Sequence
      BY <2>2, SlotTypes
    <2>4. slot' \in [Slots -> Cells]
      <3>1. [seq |-> FreedSeq(cur[r]), value |-> NoItem] \in Cells
        BY <2>3 DEF Cells
      <3> QED  BY <1>1, <2>1, <2>3, <3>1 DEF Types
    <2>5. result' \in [Readers -> ItemOrNone] /\ due' \in [Readers -> ItemOrNone]
      BY <1>1, <2>1 DEF Types
    <2>6. pc' \in [Threads -> Places] /\ cur' \in [Threads -> State]
      BY <1>1, <2>1 DEF Types
    <2> QED  BY <1>1, <2>1, <2>4, <2>5, <2>6 DEF Types
  <1>6. Proper'
    <2>1. NumItems' = NumItems
      BY <1>1 DEF NumItems
    <2>2. \A u \in Readers : u # r => due'[u] = due[u]
      BY <1>1, <1>2 DEF Known, Types
    <2>3. \A u \in Readers : pc'[u] \in Claiming => due'[u] \in Items
      BY <1>2, <1>3, <2>2, ThreadSets DEF Known, Proper, Claiming
    <2>4. \A w \in Writers : pc'[w] = pc[w]
      BY <1>2, <1>3, ThreadSets
    <2> QED  BY <1>1, <1>2, <2>1, <2>3, <2>4 DEF Known, Proper
  <1>7. Orderly(r, activeWriters)
    BY <1>1, <1>3 DEF Orderly, Sleepers, Gone, Active, Places
  <1>8. r \in WillSignalWriter <=> r \in WillSignalWriter'
    BY <1>1, <1>3 DEF WillSignalWriter
  <1>9. Counts'
    BY <1>1, <1>4, <1>5, <1>7, <1>8, ReaderSteps
  <1> QED  BY <1>5, <1>6, <1>9 DEF Base

\* A writer hands its slot over and goes on to the signal that it owes.
LEMMA WriterHandsOver ==
    ASSUME Base, NEW w \in Writers, Filled(w)
    PROVE  Base'
  <1>1. PICK to \in {"signal", "idle"} :
        /\ pc[w] = "store" /\ pc' = [pc EXCEPT ![w] = to] /\ cur' = [cur EXCEPT ![w] = Empty]
        /\ to = "signal" <=> cur[w].readers # 0
        /\ slot' = [slot EXCEPT ![SlotOf(EnqueueSeq(cur[w]))].seq = FilledSeq(cur[w])]
        /\ next' = [next EXCEPT ![w] = next[w] + 1]
        /\ UNCHANGED <<state, readTokens, writeTokens, activeReaders, activeWriters, aborted, resets,
                       result, apc, cuts, line, due, early>>
    BY DEF Filled, Goto, Forget, tokens, active, counters, history
  <1>2. Known /\ w \in Threads /\ w \notin Readers
    BY CountFacts, ThreadSets
  <1>3. pc'[w] = to /\ \A u \in Threads : u # w => pc'[u] = pc[u]
    BY <1>1, <1>2 DEF Known, Types
  <1>4. Moves(w)
    BY <1>1, <1>2, <1>3 DEF Known, Types, Moves
  <1>5. Types'
    <2>1. Types /\ to \in Places /\ Empty \in State
      BY <1>2, Widths DEF Known, Places, Empty, State
    <2>2. cur[w] \in State
      BY <1>2, <2>1 DEF Types
    <2>3. SlotOf(EnqueueSeq(cur[w])) \in Slots /\ FilledSeq(cur[w]) \in Sequence
      BY <2>2, SlotTypes
    <2>4. slot' \in [Slots -> Cells]
      BY <1>1, <2>1, <2>3 DEF Types, Cells
    <2>5. next' \in [Writers -> Nat]
      BY <1>1, <2>1 DEF Types
    <2>6. pc' \in [Threads -> Places] /\ cur' \in [Threads -> State]
      BY <1>1, <2>1 DEF Types
    <2> QED  BY <1>1, <2>1, <2>4, <2>5, <2>6 DEF Types
  <1>6. Proper'
    <2>1. NumItems' = NumItems /\ NumItems \in Nat
      BY <1>1, Widths DEF NumItems
    <2>2. \A u \in Writers : u # w => next'[u] = next[u] /\ pc'[u] = pc[u]
      BY <1>1, <1>2, <1>3, ThreadSets DEF Known, Types
    <2>3. next[w] \in Nat /\ next[w] <= NumItems /\ next'[w] = next[w] + 1
      <3>1. next \in [Writers -> Nat] /\ Proper /\ pc[w] \in Producing
        BY <1>1, <1>2 DEF Known, Types, Producing
      <3> QED  BY <1>1, <3>1 DEF Proper
    <2>4. \A r \in Readers : pc'[r] = pc[r]
      BY <1>2, <1>3, ThreadSets
    <2>5. \A u \in Writers : /\ next'[u] >= 1 /\ next'[u] <= NumItems + 1
                             /\ pc'[u] \in Producing => next'[u] <= NumItems
      <3>1. Proper /\ pc'[w] \notin Producing
        BY <1>2, <1>3 DEF Known, Producing
      <3>2. \A u \in Writers : /\ next[u] >= 1 /\ next[u] <= NumItems + 1
                               /\ pc[u] \in Producing => next[u] <= NumItems
        BY <3>1 DEF Proper
      <3> QED  BY <2>1, <2>2, <2>3, <3>1, <3>2
    <2> QED  BY <1>1, <1>2, <2>1, <2>4, <2>5 DEF Known, Proper
  <1>7. Orderly(w, activeReaders)
    BY <1>1, <1>3 DEF Orderly, Sleepers, Gone, Active, Places
  <1>8. w \in WillSignalReader <=> w \in WillSignalReader'
    BY <1>1, <1>3 DEF WillSignalReader
  <1>9. Counts'
    BY <1>1, <1>4, <1>5, <1>7, <1>8, WriterSteps
  <1> QED  BY <1>5, <1>6, <1>9 DEF Base

\* The numbers from any one on, as many as there are slots, take every slot.
LEMMA FirstNumber ==
    ASSUME NEW i \in Slots
    PROVE  \E k \in 0 .. NumSlots - 1 :
             /\ (FirstSeq + k) % SeqSpace \in Sequence
             /\ ((FirstSeq + k) % SeqSpace) % NumSlots = i /\ (FirstSeq + k) % NumSlots = i
  <1>1. FirstSeq \in Int /\ NumSlots \in Nat \ {0} /\ SeqSpace \in Nat \ {0} /\ SeqSpace % NumSlots = 0
    BY Widths
  <1>2. PICK q \in Int, m \in 0 .. NumSlots - 1 : FirstSeq = NumSlots * q + m /\ FirstSeq % NumSlots = m
    BY <1>1, ModSplit
  <1>3. PICK k \in 0 .. NumSlots - 1 : k = IF m <= i THEN i - m ELSE NumSlots + i - m
    <2>1. (IF m <= i THEN i - m ELSE NumSlots + i - m) \in 0 .. NumSlots - 1
      BY <1>1 DEF Slots
    <2> QED  BY <2>1
  <1>4. (FirstSeq + k) % NumSlots = i
    <2>1. CASE m <= i
      <3>1. FirstSeq + k = NumSlots * q + i /\ FirstSeq + k \in Int
        BY <1>1, <1>2, <1>3, <2>1 DEF Slots
      <3> QED  BY <1>1, <3>1, ModUnique DEF Slots
    <2>2. CASE ~(m <= i)
      <3>1. NumSlots * (q + 1) = NumSlots * q + NumSlots /\ q + 1 \in Int
        BY <1>1
      <3>2. FirstSeq + k = NumSlots * (q + 1) + i /\ FirstSeq + k \in Int
        BY <1>1, <1>2, <1>3, <2>2, <3>1 DEF Slots
      <3> QED  BY <1>1, <3>1, <3>2, ModUnique DEF Slots
    <2> QED  BY <2>1, <2>2
  <1>5. FirstSeq + k \in Int
    BY <1>1
  <1>6. ((FirstSeq + k) % SeqSpace) % NumSlots = (FirstSeq + k) % NumSlots
    BY <1>1, <1>5, ModDivisor
  <1>7. (FirstSeq + k) % SeqSpace \in Sequence
    BY <1>1, <1>5, ModRange DEF Sequence
  <1> QED  BY <1>4, <1>6, <1>7

\* The counts when all threads are at the same place.
LEMMA AllAt ==
    ASSUME NEW S \in {Readers, Writers}, NEW M, NEW place, \A t \in S : pc[t] = place
    PROVE  CountAt(S, M) = IF place \in M THEN Cardinality(S) ELSE 0
  <1>1. CASE place \in M
    <2>1. {t \in S : pc[t] \in M} = S
      BY <1>1
    <2> QED  BY <1>1, <2>1 DEF CountAt
  <1>2. CASE place \notin M
    <2>1. {t \in S : pc[t] \in M} = {}
      BY <1>2
    <2> QED  BY <1>2, <2>1, FS_EmptySet DEF CountAt
  <1> QED  BY <1>1, <1>2

\* When all threads have ended, none is active and none will signal.
LEMMA AllEnded ==
    ASSUME \A t \in Threads : pc[t] = "done"
    PROVE  CountAt(Readers, Active) = 0 /\ CountAt(Writers, Active) = 0
  <1>1. \A t \in Readers : pc[t] = "done"
    BY ThreadSets
  <1>2. \A t \in Writers : pc[t] = "done"
    BY ThreadSets
  <1>3. "done" \notin Active
    BY DEF Active
  <1>4. CountAt(Readers, Active) = IF "done" \in Active THEN Cardinality(Readers) ELSE 0
    BY <1>1, AllAt
  <1>5. CountAt(Writers, Active) = IF "done" \in Active THEN Cardinality(Writers) ELSE 0
    BY <1>2, AllAt
  <1> QED  BY <1>3, <1>4, <1>5

\* The counts when all threads are about to begin.
LEMMA AllIdle ==
    ASSUME \A t \in Threads : pc[t] = "idle"
    PROVE  /\ \A S \in {Readers, Writers} :
                /\ CountAt(S, Sleepers) = 0 /\ CountAt(S, Gone) = 0
                /\ CountAt(S, Unparked) = Cardinality(S) /\ CountAt(S, Active) = Cardinality(S)
           /\ Cardinality(WillSignalReader) = 0 /\ Cardinality(WillSignalWriter) = 0
  <1>1. ASSUME NEW S \in {Readers, Writers}
        PROVE  /\ CountAt(S, Sleepers) = 0 /\ CountAt(S, Gone) = 0
               /\ CountAt(S, Unparked) = Cardinality(S) /\ CountAt(S, Active) = Cardinality(S)
    <2>1. \A t \in S : pc[t] = "idle"
      BY ThreadSets
    <2>2. ASSUME NEW M PROVE CountAt(S, M) = IF "idle" \in M THEN Cardinality(S) ELSE 0
      BY <2>1, AllAt
    <2>3. "idle" \notin Sleepers /\ "idle" \notin Gone /\ "idle" \in Unparked /\ "idle" \in Active
      BY DEF Sleepers, Gone, Unparked, Active, Places
    <2> QED  BY <2>2, <2>3
  <1>2. WillSignalReader = {} /\ WillSignalWriter = {}
    BY ThreadSets DEF WillSignalReader, WillSignalWriter
  <1> QED  BY <1>1, <1>2, FS_EmptySet

\* The queue is made.
LEMMA BaseInit ==
    ASSUME Init
    PROVE  Base
  <1>1. \A t \in Threads : pc[t] = "idle"
    BY DEF Init
  <1>2. state \in State /\ state.readers = 0 /\ state.writers = 0 /\ state.count = 0
    <2>1. state = [deq |-> FirstSeq, readers |-> 0, writers |-> 0, count |-> 0]
      BY DEF Init, Empty
    <2> QED  BY <2>1, Widths DEF State
  <1>3. Types
    <2>1. Empty \in State
      BY Widths DEF Empty, State
    <2>2. ASSUME NEW i \in Slots
          PROVE  (CHOOSE n \in Sequence : \E k \in 0 .. NumSlots - 1 :
                            n = (FirstSeq + k) % SeqSpace /\ n % NumSlots = i) \in Sequence
      <3> DEFINE P(n) == \E k \in 0 .. NumSlots - 1 : n = (FirstSeq + k) % SeqSpace /\ n % NumSlots = i
      <3>1. \E n \in Sequence : P(n)
        BY FirstNumber DEF Slots
      <3> QED  BY <3>1
    <2>3. slot \in [Slots -> Cells]
      BY <2>2 DEF Init, Cells, Slots
    <2>4. pc \in [Threads -> Places] /\ cur \in [Threads -> State]
      <3>1. pc = [t \in Threads |-> "idle"] /\ cur = [t \in Threads |-> Empty] /\ "idle" \in Places
        BY DEF Init, Places
      <3> QED  BY <2>1, <3>1
    <2>5. next \in [Writers -> Nat] /\ result \in [Readers -> ItemOrNone] /\ due \in [Readers -> ItemOrNone]
      BY DEF Init, ItemOrNone
    <2>6. activeReaders \in Int /\ activeWriters \in Int /\ aborted \in BOOLEAN /\ early \in BOOLEAN
      <3>1. activeReaders \in Int /\ activeWriters \in Int
        BY ThreadSets DEF Init
      <3>2. aborted \in BOOLEAN /\ early \in BOOLEAN
        BY Zenon DEF Init
      <3> QED  BY <3>1, <3>2
    <2>7. readTokens \in Nat /\ writeTokens \in Nat /\ cuts \in 0 .. MaxCuts /\ resets \in 0 .. MaxResets
      BY Widths DEF Init
    <2>8. line \in Seq(Items) /\ apc \in {"idle", "signal"}
      BY DEF Init
    <2> QED  BY <1>2, <2>3, <2>4, <2>5, <2>6, <2>7, <2>8 DEF Types
  <1>4. Proper
    <2>1. NumItems \in Nat
      BY Widths DEF NumItems
    <2>2. \A w \in Writers : next[w] = 1 /\ pc[w] = "idle"
      BY <1>1, ThreadSets DEF Init
    <2>3. Len(line) = 0 /\ apc = "idle"
      BY DEF Init
    <2> QED  BY <1>1, <1>2, <2>1, <2>2, <2>3, ThreadSets DEF Proper, Producing, Claiming
  <1>5. /\ \A S \in {Readers, Writers} :
             /\ CountAt(S, Sleepers) = 0 /\ CountAt(S, Gone) = 0
             /\ CountAt(S, Unparked) = Cardinality(S) /\ CountAt(S, Active) = Cardinality(S)
        /\ Cardinality(WillSignalReader) = 0 /\ Cardinality(WillSignalWriter) = 0
    BY <1>1, AllIdle
  <1>6. /\ CountAt(Readers, Sleepers) = 0 /\ CountAt(Readers, Gone) = 0
        /\ CountAt(Readers, Unparked) = Cardinality(Readers)
        /\ CountAt(Readers, Active) = Cardinality(Readers)
        /\ CountAt(Writers, Sleepers) = 0 /\ CountAt(Writers, Gone) = 0
        /\ CountAt(Writers, Unparked) = Cardinality(Writers)
        /\ CountAt(Writers, Active) = Cardinality(Writers)
    BY <1>5
  <1>7. /\ resets * Cardinality(Readers) = 0 /\ resets * Cardinality(Writers) = 0
        /\ readTokens = 0 /\ writeTokens = 0 /\ Cardinality(Readers) \in Nat /\ Cardinality(Writers) \in Nat
        /\ activeReaders = Cardinality(Readers) /\ activeWriters = Cardinality(Writers)
    BY ThreadSets DEF Init
  <1>8. ReaderSide /\ WriterSide
    BY <1>2, <1>5, <1>6, <1>7 DEF ReaderSide, WriterSide, Sided
  <1>9. Actives
    BY <1>1, <1>6, <1>7, ThreadSets DEF Actives
  <1> QED  BY <1>3, <1>4, <1>8, <1>9 DEF Base, Counts

\* The same of the next state.
LEMMA AllIdleNext ==
    ASSUME \A t \in Threads : pc'[t] = "idle"
    PROVE  /\ \A S \in {Readers, Writers} :
                /\ CountAt(S, Sleepers)' = 0 /\ CountAt(S, Gone)' = 0
                /\ CountAt(S, Unparked)' = Cardinality(S) /\ CountAt(S, Active)' = Cardinality(S)
           /\ Cardinality(WillSignalReader)' = 0 /\ Cardinality(WillSignalWriter)' = 0
  <1>1. ASSUME NEW S \in {Readers, Writers}
        PROVE  /\ CountAt(S, Sleepers)' = 0 /\ CountAt(S, Gone)' = 0
               /\ CountAt(S, Unparked)' = Cardinality(S) /\ CountAt(S, Active)' = Cardinality(S)
    <2>1. \A t \in S : pc'[t] = "idle"
      BY ThreadSets
    <2>2. ASSUME NEW M, "idle" \notin M PROVE CountAt(S, M)' = 0
      <3>1. {t \in S : pc'[t] \in M} = {}
        BY <2>1, <2>2
      <3> QED  BY <3>1, FS_EmptySet DEF CountAt
    <2>3. ASSUME NEW M, "idle" \in M PROVE CountAt(S, M)' = Cardinality(S)
      <3>1. {t \in S : pc'[t] \in M} = S
        BY <2>1, <2>3
      <3> QED  BY <3>1 DEF CountAt
    <2>4. "idle" \notin Sleepers /\ "idle" \notin Gone /\ "idle" \in Unparked /\ "idle" \in Active
      BY DEF Sleepers, Gone, Unparked, Active, Places
    <2> QED  BY <2>2, <2>3, <2>4
  <1>2. WillSignalReader' = {} /\ WillSignalWriter' = {}
    BY ThreadSets DEF WillSignalReader, WillSignalWriter
  <1> QED  BY <1>1, <1>2, FS_EmptySet

\* The queue is used again: every thread of the last use may still be counted.
LEMMA BaseReset ==
    ASSUME FieldsSuffice, Base, Reset
    PROVE  Base'
  <1>1. Known
    BY CountFacts
  <1>2. PICK woken \in Nat :
        /\ woken <= state.writers /\ writeTokens' = woken
        /\ state' = [state EXCEPT !.deq = Seq1(state.deq + state.count), !.count = 0,
                                  !.writers = state.writers - woken]
    <2>1. state.count \in Nat /\ state.writers \in Nat
      BY <1>1 DEF Known
    <2>2. PICK woken \in Nat : woken = IF state.count < state.writers THEN state.count ELSE state.writers
      BY <2>1
    <2>3. woken <= state.writers
      BY <2>1, <2>2
    <2>4. writeTokens' = woken
          /\ state' = [state EXCEPT !.deq = Seq1(state.deq + state.count), !.count = 0,
                                    !.writers = state.writers - woken]
      BY <2>2 DEF Reset
    <2> QED  BY <2>3, <2>4
  <1>3. /\ \A t \in Threads : pc[t] = "done"
        /\ apc # "signal" /\ readTokens' = 0
        /\ activeReaders' = Cardinality(Readers) /\ activeWriters' = Cardinality(Writers)
        /\ resets < MaxResets /\ resets' = resets + 1
        /\ UNCHANGED <<cur, result, apc, cuts, due>>
    BY DEF Reset, AllDone
  <1>4. /\ pc' = [t \in Threads |-> "idle"] /\ next' = [w \in Writers |-> 1] /\ line' = <<>>
        /\ aborted' = FALSE /\ early' = FALSE
    BY DEF Reset
  <1>5. /\ state' \in State /\ state'.readers = state.readers /\ state'.writers = state.writers - woken
        /\ state'.count = 0 /\ state'.deq = Seq1(state.deq + state.count)
        /\ state.writers - woken \in Nat
    <2>1. /\ state \in State /\ state.deq \in Sequence /\ state.readers \in 0 .. ReaderLimit - 1
          /\ state.writers \in 0 .. WriterLimit - 1 /\ state.count \in 0 .. MaxItems
      BY <1>1, StateFields DEF Known, Types
    <2>2. state.deq + state.count \in Int
      BY <2>1, Widths
    <2>3. PICK d \in Sequence : d = Seq1(state.deq + state.count)
      BY <2>2, SeqType
    <2>4. woken <= state.writers
      BY <1>2
    <2>5. PICK v \in 0 .. WriterLimit - 1 : v = state.writers - woken
      BY <2>1, <2>4, Widths
    <2>6. state' = [state EXCEPT !.deq = d, !.count = 0, !.writers = v]
      BY <1>2, <2>3, <2>5
    <2>7. 0 \in 0 .. MaxItems
      BY Widths
    <2>8. state' \in State /\ state'.readers = state.readers /\ state'.writers = v
          /\ state'.count = 0 /\ state'.deq = d
      BY <2>1, <2>6, <2>7 DEF State
    <2> QED  BY <2>3, <2>5, <2>8
  <1>6. Types'
    <2>1. slot' \in [Slots -> Cells]
      <3>1. slot \in [Slots -> Cells]
        BY <1>1 DEF Known, Types
      <3>2. \A i \in Slots : [seq |-> Seq1(slot[i].seq + NumSlots - 1), value |-> NoItem] \in Cells
        <4> SUFFICES ASSUME NEW i \in Slots
                     PROVE  [seq |-> Seq1(slot[i].seq + NumSlots - 1), value |-> NoItem] \in Cells
          OBVIOUS
        <4>1. slot[i].seq \in Sequence
          BY <3>1 DEF Cells
        <4>2. slot[i].seq + NumSlots - 1 \in Int
          BY <4>1, Widths
        <4>3. Seq1(slot[i].seq + NumSlots - 1) \in Sequence
          BY <4>2, SeqType
        <4> QED  BY <4>3 DEF Cells
      <3> QED  BY <3>1, <3>2 DEF Reset
    <2>2. pc' \in [Threads -> Places] /\ next' \in [Writers -> Nat]
      <3>1. "idle" \in Places
        BY DEF Places
      <3> QED  BY <1>4, <3>1
    <2>3. aborted' \in BOOLEAN /\ early' \in BOOLEAN
      BY <1>4, Zenon
    <2>4. activeReaders' \in Int /\ activeWriters' \in Int
      BY <1>3, ThreadSets
    <2>5. readTokens' \in Nat /\ writeTokens' \in Nat /\ line' \in Seq(Items)
      BY <1>2, <1>3, <1>4
    <2>6. resets' \in 0 .. MaxResets
      BY <1>1, <1>3, Widths DEF Known, Types
    <2>7. Types
      BY <1>1 DEF Known
    <2> QED  BY <1>3, <1>5, <2>1, <2>2, <2>3, <2>4, <2>5, <2>6, <2>7 DEF Types
  <1>7. \A t \in Threads : pc'[t] = "idle"
    BY <1>4
  <1>8. Proper'
    <2>1. NumItems' \in Nat
      BY Widths DEF NumItems
    <2>2. \A w \in Writers : next'[w] = 1 /\ pc'[w] = "idle"
      BY <1>4, <1>7, ThreadSets
    <2>3. Len(line') = 0 /\ apc' # "signal"
      BY <1>3, <1>4
    <2> QED  BY <1>5, <1>7, <2>1, <2>2, <2>3, ThreadSets DEF Proper, Producing, Claiming
  <1>9. /\ \A S \in {Readers, Writers} :
             /\ CountAt(S, Sleepers)' = 0 /\ CountAt(S, Gone)' = 0
             /\ CountAt(S, Unparked)' = Cardinality(S) /\ CountAt(S, Active)' = Cardinality(S)
        /\ Cardinality(WillSignalReader)' = 0 /\ Cardinality(WillSignalWriter)' = 0
    BY <1>7, AllIdleNext
  <1>10. /\ CountAt(Readers, Sleepers)' = 0 /\ CountAt(Readers, Gone)' = 0
         /\ CountAt(Readers, Unparked)' = Cardinality(Readers)
         /\ CountAt(Readers, Active)' = Cardinality(Readers)
         /\ CountAt(Writers, Sleepers)' = 0 /\ CountAt(Writers, Gone)' = 0
         /\ CountAt(Writers, Unparked)' = Cardinality(Writers)
         /\ CountAt(Writers, Active)' = Cardinality(Writers)
    BY <1>9
  <1>11. /\ resets * Cardinality(Readers) \in Nat /\ resets * Cardinality(Writers) \in Nat
         /\ (resets + 1) * Cardinality(Readers) = resets * Cardinality(Readers) + Cardinality(Readers)
         /\ (resets + 1) * Cardinality(Writers) = resets * Cardinality(Writers) + Cardinality(Writers)
    BY <1>1, Leftover DEF Known
  <1>12. Cardinality(Readers) \in Nat /\ Cardinality(Writers) \in Nat
    BY ThreadSets
  <1>13. activeReaders = 0 /\ activeWriters = 0
    BY <1>1, <1>3, AllEnded DEF Known, Actives
  <1>14. CountAt(Readers, Unparked) <= Cardinality(Readers)
    BY <1>1, CountTypes DEF Known
  <1>15. CountAt(Writers, Unparked) <= Cardinality(Writers)
    BY <1>1, CountTypes DEF Known
  <1>16. state.readers <= resets' * Cardinality(Readers) /\ resets' * Cardinality(Readers) \in Nat
    <2>1. state.readers + Cardinality(WillSignalReader) <= resets * Cardinality(Readers)
                                                            + CountAt(Readers, Unparked)
      BY <1>1, <1>13 DEF Known, ReaderSide, Sided
    <2> QED  BY <1>1, <1>3, <1>11, <1>12, <1>14, <2>1 DEF Known
  <1>17. state.writers <= resets' * Cardinality(Writers) /\ resets' * Cardinality(Writers) \in Nat
    <2>1. state.writers + Cardinality(WillSignalWriter) <= resets * Cardinality(Writers)
                                                            + CountAt(Writers, Unparked)
      BY <1>1, <1>13 DEF Known, WriterSide, Sided
    <2> QED  BY <1>1, <1>3, <1>11, <1>12, <1>15, <2>1 DEF Known
  <1>18. state.readers \in Nat /\ state.writers \in Nat
    BY <1>1 DEF Known
  <1>19. ReaderSide'
    BY <1>3, <1>5, <1>9, <1>10, <1>12, <1>16, <1>18 DEF ReaderSide, Sided
  <1>20. WriterSide'
    BY <1>2, <1>3, <1>5, <1>9, <1>10, <1>12, <1>17, <1>18 DEF WriterSide, Sided
  <1>21. Actives'
    BY <1>3, <1>7, <1>10, ThreadSets DEF Actives
  <1> QED  BY <1>6, <1>8, <1>19, <1>20, <1>21 DEF Base, Counts

-----------------------------------------------------------------------------
(* Positions.  Nothing in the code counts further than the sequence numbers   *)
(* go, so the proof counts for it: positions never wrap.                      *)

\* Numbers are positions modulo their space, slots positions modulo theirs.
LEMMA Wraps ==
    /\ \A x \in Int : SlotOf(x) \in Slots
    /\ \A x \in Int : SlotOf(x + NumSlots) = SlotOf(x)
    /\ \A x \in Int : SlotOf(Seq1(x)) = SlotOf(x)
    /\ \A x, y \in Int : Seq1(Seq1(x) + y) = Seq1(x + y)
  <1>1. NumSlots \in Nat \ {0} /\ SeqSpace \in Nat \ {0} /\ SeqSpace % NumSlots = 0
    BY Widths
  <1>2. ASSUME NEW x \in Int PROVE SlotOf(x) \in Slots
    BY <1>1, ModRange DEF SlotOf, Slots
  <1>3. ASSUME NEW x \in Int PROVE SlotOf(x + NumSlots) = SlotOf(x)
    <2>1. x + NumSlots = NumSlots * 1 + x /\ x + NumSlots \in Int /\ 1 \in Int
      BY <1>1
    <2>2. (x + NumSlots) % NumSlots = x % NumSlots
      BY <1>1, <2>1, ModMultiple
    <2> QED  BY <2>2 DEF SlotOf
  <1>4. ASSUME NEW x \in Int PROVE SlotOf(Seq1(x)) = SlotOf(x)
    BY <1>1, ModDivisor DEF SlotOf, Seq1
  <1>5. ASSUME NEW x \in Int, NEW y \in Int PROVE Seq1(Seq1(x) + y) = Seq1(x + y)
    BY <1>1, ModAdd DEF Seq1
  <1> QED  BY <1>2, <1>3, <1>4, <1>5

\* Two positions of one slot are at least a round apart.
LEMMA RoundApart ==
    ASSUME NEW x \in Nat, NEW y \in Nat, SlotOf(x) = SlotOf(y), x < y
    PROVE  x + NumSlots <= y
  <1>1. NumSlots \in Nat \ {0} /\ x \in Int /\ y \in Int /\ x <= y
    BY Widths
  <1>2. SUFFICES ASSUME y < x + NumSlots PROVE FALSE
    BY <1>1
  <1>3. x % NumSlots = y % NumSlots
    BY DEF SlotOf
  <1>4. x = y
    BY <1>1, <1>2, <1>3, ModSame
  <1> QED  BY <1>4

\* Two positions with one number are as far apart as the numbers go.
LEMMA SpaceApart ==
    ASSUME NEW x \in Nat, NEW y \in Nat, Seq1(x) = Seq1(y), x < y
    PROVE  x + SeqSpace <= y
  <1>1. SeqSpace \in Nat \ {0} /\ x \in Int /\ y \in Int /\ x <= y
    BY Widths
  <1>2. SUFFICES ASSUME y < x + SeqSpace PROVE FALSE
    BY <1>1
  <1>3. x % SeqSpace = y % SeqSpace
    BY DEF Seq1
  <1>4. x = y
    BY <1>1, <1>2, <1>3, ModSame
  <1> QED  BY <1>4

\* There are fewer writers than rounds in the space of the numbers: they cannot be
\* claiming one position of a slot in each of them.
LEMMA FewerWritersThanRounds ==
    ASSUME NEW pos \in [Threads -> Nat], NEW n \in Nat, NEW p \in Nat, n + SeqSpace <= p,
           \A k \in 1 .. WriterLimit : n + k * NumSlots <= p => \E w \in Writers : pos[w] = n + k * NumSlots
    PROVE  FALSE
  <1> DEFINE g(w) == CHOOSE k \in Nat : pos[w] = n + k * NumSlots
             G == {g(w) : w \in Writers}
             K == 1 .. WriterLimit
  <1>1. WriterLimit \in Nat \ {0} /\ NumSlots \in Nat \ {0} /\ SeqSpace \in Nat
        /\ NumSlots * WriterLimit <= SeqSpace /\ Cardinality(Writers) < WriterLimit
        /\ Cardinality(Writers) \in Nat /\ IsFiniteSet(Writers)
    BY Widths, ThreadSets
  <1>2. ASSUME NEW k \in K
        PROVE  k \in G
    <2>1. k * NumSlots <= NumSlots * WriterLimit /\ k * NumSlots \in Nat
      BY <1>1
    <2>2. n + k * NumSlots <= p
      BY <1>1, <2>1
    <2>3. PICK w \in Writers : pos[w] = n + k * NumSlots
      BY <2>2
    <2>4. \A j \in Nat : pos[w] = n + j * NumSlots => j = k
      <3> SUFFICES ASSUME NEW j \in Nat, n + j * NumSlots = n + k * NumSlots PROVE j = k
        BY <2>3
      <3>0. j * NumSlots \in Nat /\ k * NumSlots \in Nat
        BY <1>1
      <3>1. j * NumSlots = k * NumSlots
        BY <3>0
      <3>2. NumSlots * (j - k) = 0
        BY <1>1, <3>1
      <3> QED  BY <1>1, <3>2
    <2>5. g(w) = k
      BY <2>3, <2>4
    <2> QED  BY <2>5
  <1>3. IsFiniteSet(G) /\ Cardinality(G) <= Cardinality(Writers)
    <2> DEFINE f == [w \in Writers |-> g(w)]
    <2>1. f \in [Writers -> G] /\ \A y \in G : \E w \in Writers : f[w] = y
      OBVIOUS
    <2>2. f \in Surjection(Writers, G)
      BY <2>1 DEF Surjection
    <2> HIDE DEF f, G
    <2> QED  BY <1>1, <2>2, FS_Surjection
  <1>4. IsFiniteSet(K) /\ Cardinality(K) = WriterLimit
    BY <1>1, FS_Interval
  <1>5. K \subseteq G
    BY <1>2
  <1> HIDE DEF G, K
  <1>6. Cardinality(K) <= Cardinality(G) /\ Cardinality(G) \in Nat
    BY <1>3, <1>5, CountBounds
  <1> QED  BY <1>1, <1>3, <1>4, <1>6

\* D is the position to dequeue from, pos[t] the one that thread t has claimed, num[i]
\* the one that slot i is for, fill[i] whether it is filled, it[x] the item of x.
\* A slot shows its position, plus one when it is filled, and then holds its item.
SlotsAt(num, fill, it) ==
    \A i \in Slots : /\ SlotOf(num[i]) = i /\ slot[i].seq = Seq1(num[i] + fill[i])
                     /\ fill[i] = 1 => slot[i].value = it[num[i]]

\* A writer claims a position that is yet to be filled, and has its slot for itself
\* once it has seen it free; a reader claims one that is yet to be emptied.
WriterAt(w, D, pos, num, fill, it) ==
    /\ EnqueueSeq(cur[w]) = Seq1(pos[w])
    /\ num[SlotOf(pos[w])] + fill[SlotOf(pos[w])] <= pos[w] /\ pos[w] < D + state.count
    /\ it[pos[w]] = <<w, next[w]>>
    /\ pc[w] = "store" => /\ num[SlotOf(pos[w])] = pos[w] /\ fill[SlotOf(pos[w])] = 0
                          /\ slot[SlotOf(pos[w])].value = <<w, next[w]>>

ReaderAt(r, D, pos, num, fill, it) ==
    /\ cur[r].deq = Seq1(pos[r])
    /\ num[SlotOf(pos[r])] <= pos[r] /\ pos[r] < D
    /\ it[pos[r]] = due[r]
    /\ pc[r] = "store" => /\ num[SlotOf(pos[r])] = pos[r] /\ fill[SlotOf(pos[r])] = 1
                          /\ result[r] = it[pos[r]]

ThreadsAt(D, pos, num, fill, it) ==
    /\ \A w \in Writers : pc[w] \in Claiming => WriterAt(w, D, pos, num, fill, it)
    /\ \A r \in Readers : pc[r] \in Claiming => ReaderAt(r, D, pos, num, fill, it)

\* No two threads of a side claim the same position.
Apart(pos) ==
    \A S \in {Readers, Writers} : \A t, u \in S :
        pc[t] \in Claiming /\ pc[u] \in Claiming /\ pos[t] = pos[u] => t = u

\* Only what was enqueued is filled, and only what was dequeued is emptied; what is yet
\* to be filled or emptied is claimed by the thread that will.
Claimed(D, pos, num, fill) ==
    \A x \in Nat :
        /\ x < num[SlotOf(x)] => x < D
        /\ x < num[SlotOf(x)] + fill[SlotOf(x)] => x < D + state.count
        /\ num[SlotOf(x)] + fill[SlotOf(x)] <= x /\ x < D + state.count
             => \E w \in Writers : pc[w] \in Claiming /\ pos[w] = x
        /\ num[SlotOf(x)] <= x /\ x < D => \E r \in Readers : pc[r] \in Claiming /\ pos[r] = x

\* The line is what stands between the two ends of the queue.
LineAt(D, it) == state.deq = Seq1(D) /\ \A k \in 1 .. state.count : line[k] = it[D + k - 1]

Ghosts(D, pos, num, fill, it) ==
    /\ D \in Nat /\ pos \in [Threads -> Nat] /\ num \in [Slots -> Nat] /\ fill \in [Slots -> {0, 1}]
    /\ it \in [Nat -> ItemOrNone]

Placed(D, pos, num, fill, it) ==
    /\ Ghosts(D, pos, num, fill, it)
    /\ SlotsAt(num, fill, it) /\ ThreadsAt(D, pos, num, fill, it) /\ Apart(pos)
    /\ Claimed(D, pos, num, fill) /\ LineAt(D, it)

Positions == \E D, pos, num, fill, it : Placed(D, pos, num, fill, it)

\* No slot is a whole space of numbers behind a position of the queue: the writers of
\* all rounds between would still be waiting to fill it.
LEMMA NeverSoFarBehind ==
    ASSUME Types, NEW D, NEW pos, NEW num, NEW fill, NEW it, Placed(D, pos, num, fill, it),
           NEW p \in Nat, p < D + state.count, num[SlotOf(p)] + SeqSpace <= p
    PROVE  FALSE
  <1>1. /\ NumSlots \in Nat \ {0} /\ NumSlots > 1 /\ SeqSpace \in Nat
        /\ D \in Nat /\ pos \in [Threads -> Nat] /\ num \in [Slots -> Nat] /\ fill \in [Slots -> {0, 1}]
        /\ state.count \in Nat
    BY Widths, StateFields DEF Placed, Ghosts, Types
  <1>2. SlotOf(p) \in Slots
    BY Wraps
  <1>3. PICK n \in Nat : n = num[SlotOf(p)]
    BY <1>1, <1>2
  <1>4. PICK f \in {0, 1} : f = fill[SlotOf(p)]
    BY <1>1, <1>2
  <1>5. ASSUME NEW k \in 1 .. WriterLimit, n + k * NumSlots <= p
        PROVE  \E w \in Writers : pos[w] = n + k * NumSlots
    <2>1. k \in Nat /\ k >= 1
      BY Widths
    <2>2. k * NumSlots \in Nat /\ k * NumSlots >= NumSlots
      BY <1>1, <2>1
    <2>3. PICK x \in Nat : x = n + k * NumSlots
      BY <2>2
    <2>4. SlotOf(x) = SlotOf(n)
      <3>1. x = NumSlots * k + n /\ k \in Int /\ x \in Int /\ n \in Int
        BY <1>1, <2>1, <2>3
      <3>2. x % NumSlots = n % NumSlots
        BY <1>1, <3>1, ModMultiple
      <3> QED  BY <3>2 DEF SlotOf
    <2>5. SlotOf(n) = SlotOf(p)
      BY <1>2, <1>3 DEF Placed, SlotsAt
    <2>6. num[SlotOf(x)] + fill[SlotOf(x)] <= x /\ x < D + state.count
      BY <1>1, <1>3, <1>4, <1>5, <2>2, <2>3, <2>4, <2>5
    <2>7. \E w \in Writers : pc[w] \in Claiming /\ pos[w] = x
      BY <2>6 DEF Placed, Claimed
    <2> QED  BY <2>3, <2>7
  <1>6. n + SeqSpace <= p
    BY <1>3
  <1> QED  BY <1>1, <1>5, <1>6, FewerWritersThanRounds

\* A slot that shows the number of a position is for that position, and empty.
LEMMA SlotIsFree ==
    ASSUME Types, NEW D, NEW pos, NEW num, NEW fill, NEW it, Placed(D, pos, num, fill, it),
           NEW w \in Writers, pc[w] \in Claiming, SlotFree(w)
    PROVE  num[SlotOf(pos[w])] = pos[w] /\ fill[SlotOf(pos[w])] = 0
  <1>1. /\ NumSlots \in Nat \ {0} /\ NumSlots > 1 /\ SeqSpace \in Nat
        /\ D \in Nat /\ pos \in [Threads -> Nat] /\ num \in [Slots -> Nat] /\ fill \in [Slots -> {0, 1}]
        /\ state.count \in Nat
    BY Widths, StateFields DEF Placed, Ghosts, Types
  <1>2. PICK p \in Nat : p = pos[w]
    BY <1>1, ThreadSets
  <1>3. SlotOf(p) \in Slots
    BY Wraps
  <1>4. PICK n \in Nat : n = num[SlotOf(p)]
    BY <1>1, <1>3
  <1>5. PICK f \in {0, 1} : f = fill[SlotOf(p)]
    BY <1>1, <1>3
  <1>6. EnqueueSeq(cur[w]) = Seq1(p) /\ n + f <= p /\ p < D + state.count
    BY <1>2, <1>4, <1>5 DEF Placed, ThreadsAt, WriterAt
  <1>7. SlotOf(Seq1(p)) = SlotOf(p)
    BY Wraps
  <1>8. Seq1(n + f) = Seq1(p) /\ SlotOf(n) = SlotOf(p)
    BY <1>3, <1>4, <1>5, <1>6, <1>7 DEF Placed, SlotsAt, SlotFree
  <1>9. n + f \in Nat
    OBVIOUS
  <1>10. n + f = p
    <2> SUFFICES ASSUME n + f < p PROVE FALSE
      BY <1>6, <1>9
    <2>1. n + f + SeqSpace <= p
      BY <1>8, <1>9, SpaceApart
    <2>2. num[SlotOf(p)] + SeqSpace <= p
      BY <1>1, <1>4, <2>1
    <2> QED  BY <1>6, <2>2, NeverSoFarBehind
  <1>11. f = 0
    <2> SUFFICES ASSUME f = 1 PROVE FALSE
      OBVIOUS
    <2>1. n < p
      BY <1>10
    <2>2. n + NumSlots <= p
      BY <1>8, <2>1, RoundApart
    <2> QED  BY <1>1, <1>10, <2>2
  <1> QED  BY <1>2, <1>4, <1>5, <1>10, <1>11

\* A slot that shows the number after that of a position holds the item of the position.
LEMMA SlotIsFilled ==
    ASSUME Types, NEW D, NEW pos, NEW num, NEW fill, NEW it, Placed(D, pos, num, fill, it),
           NEW r \in Readers, pc[r] \in Claiming, SlotFilled(r)
    PROVE  /\ num[SlotOf(pos[r])] = pos[r] /\ fill[SlotOf(pos[r])] = 1
           /\ SlotOf(cur[r].deq) = SlotOf(pos[r]) /\ slot[SlotOf(pos[r])].value = it[pos[r]]
  <1>1. /\ NumSlots \in Nat \ {0} /\ NumSlots > 1 /\ SeqSpace \in Nat
        /\ D \in Nat /\ pos \in [Threads -> Nat] /\ num \in [Slots -> Nat] /\ fill \in [Slots -> {0, 1}]
        /\ state.count \in Nat
    BY Widths, StateFields DEF Placed, Ghosts, Types
  <1>2. PICK p \in Nat : p = pos[r]
    BY <1>1, ThreadSets
  <1>3. SlotOf(p) \in Slots
    BY Wraps
  <1>4. PICK n \in Nat : n = num[SlotOf(p)]
    BY <1>1, <1>3
  <1>5. PICK f \in {0, 1} : f = fill[SlotOf(p)]
    BY <1>1, <1>3
  <1>6. cur[r].deq = Seq1(p) /\ n <= p /\ p < D
    BY <1>2, <1>4 DEF Placed, ThreadsAt, ReaderAt
  <1>7. SlotOf(Seq1(p)) = SlotOf(p) /\ Seq1(Seq1(p) + 1) = Seq1(p + 1)
    BY Wraps
  <1>8. Seq1(n + f) = Seq1(p + 1) /\ SlotOf(n) = SlotOf(p)
    BY <1>3, <1>4, <1>5, <1>6, <1>7 DEF Placed, SlotsAt, SlotFilled, ExpectedSeq
  <1>9. n + f \in Nat /\ p + 1 \in Nat
    OBVIOUS
  <1>10. n + f = p + 1
    <2> SUFFICES ASSUME n + f < p + 1 PROVE FALSE
      BY <1>6, <1>9
    <2>1. n + f + SeqSpace <= p + 1
      BY <1>8, <1>9, SpaceApart
    <2>2. CASE f = 1
      <3>1. num[SlotOf(p)] + SeqSpace <= p /\ p < D + state.count
        BY <1>1, <1>4, <1>6, <2>1, <2>2
      <3> QED  BY <3>1, NeverSoFarBehind
    <2>3. CASE f = 0
      <3>1. SlotOf(Seq1(n)) = SlotOf(n) /\ SlotOf(Seq1(p + 1)) = SlotOf(p + 1)
        BY Wraps
      <3>2. SlotOf(p) = SlotOf(p + 1)
        BY <1>8, <2>3, <3>1
      <3>3. p + NumSlots <= p + 1
        BY <1>9, <3>2, RoundApart
      <3> QED  BY <1>1, <3>3
    <2> QED  BY <2>2, <2>3
  <1>11. f = 1 /\ n = p
    BY <1>6, <1>10
  <1>12. SlotOf(cur[r].deq) = SlotOf(p) /\ slot[SlotOf(p)].value = it[p]
    BY <1>3, <1>4, <1>5, <1>6, <1>7, <1>11 DEF Placed, SlotsAt
  <1> QED  BY <1>2, <1>4, <1>5, <1>11, <1>12

\* Steps aside leave all positions as they are.
LEMMA AsideKeepsPositions ==
    ASSUME Positions, Aside
    PROVE  Positions'
  <1>1. PICK D, pos, num, fill, it : Placed(D, pos, num, fill, it)
    BY DEF Positions
  <1>2. /\ UNCHANGED <<slot, line, due, next>> /\ state'.deq = state.deq /\ state'.count = state.count
        /\ \A t \in Threads : /\ pc'[t] \in Claiming <=> pc[t] \in Claiming
                              /\ pc[t] \in Claiming => pc'[t] = pc[t] /\ cur'[t] = cur[t]
        /\ \A r \in Readers : pc[r] \in Claiming => result'[r] = result[r]
    BY DEF Aside
  <1>3. SlotsAt(num, fill, it)'
    BY <1>1, <1>2 DEF Placed, SlotsAt
  <1>4. ThreadsAt(D, pos, num, fill, it)'
    <2>1. ASSUME NEW w \in Writers, pc'[w] \in Claiming PROVE WriterAt(w, D, pos, num, fill, it)'
      <3>1. w \in Threads /\ pc[w] \in Claiming
        BY <1>2, <2>1, ThreadSets
      <3>2. WriterAt(w, D, pos, num, fill, it) /\ pc'[w] = pc[w] /\ cur'[w] = cur[w] /\ next'[w] = next[w]
        BY <1>1, <1>2, <3>1 DEF Placed, ThreadsAt
      <3> QED  BY <1>2, <3>2 DEF WriterAt
    <2>2. ASSUME NEW r \in Readers, pc'[r] \in Claiming PROVE ReaderAt(r, D, pos, num, fill, it)'
      <3>1. r \in Threads /\ pc[r] \in Claiming
        BY <1>2, <2>2, ThreadSets
      <3>2. ReaderAt(r, D, pos, num, fill, it) /\ pc'[r] = pc[r] /\ cur'[r] = cur[r]
            /\ result'[r] = result[r]
        BY <1>1, <1>2, <3>1 DEF Placed, ThreadsAt
      <3> QED  BY <1>2, <3>2 DEF ReaderAt
    <2> QED  BY <2>1, <2>2 DEF ThreadsAt
  <1>5. Apart(pos)'
    BY <1>1, <1>2, ThreadSets DEF Placed, Apart
  <1>6. Claimed(D, pos, num, fill)'
    BY <1>1, <1>2, ThreadSets DEF Placed, Claimed
  <1>7. LineAt(D, it)'
    BY <1>1, <1>2 DEF Placed, LineAt
  <1>8. Placed(D, pos, num, fill, it)'
    BY <1>1, <1>3, <1>4, <1>5, <1>6, <1>7 DEF Placed, Ghosts
  <1> QED  BY <1>8 DEF Positions

\* The number at which a writer enqueues is that of the end of the line.
LEMMA EndOfLine ==
    ASSUME NEW D \in Nat, NEW s \in State, s.deq = Seq1(D)
    PROVE  EnqueueSeq(s) = Seq1(D + s.count) /\ Seq1(s.deq + 1) = Seq1(D + 1)
  <1>1. D \in Int /\ s.count \in Int /\ 1 \in Int
    BY StateFields, Widths
  <1>2. Seq1(Seq1(D) + s.count) = Seq1(D + s.count) /\ Seq1(Seq1(D) + 1) = Seq1(D + 1)
    BY <1>1, Wraps
  <1> QED  BY <1>2 DEF EnqueueSeq

\* A reader claims the first position of the line.
LEMMA ClaimToRead ==
    ASSUME Base, Positions, NEW r \in Readers, DequeueTry(r), state.count # 0
    PROVE  Positions'
  <1>1. /\ pc[r] = "try" /\ pc' = [pc EXCEPT ![r] = "slot"] /\ cur' = [cur EXCEPT ![r] = state]
        /\ state' = Dequeued(state) /\ due' = [due EXCEPT ![r] = Head(line)] /\ line' = Tail(line)
        /\ UNCHANGED <<slot, next, result>>
    BY DEF DequeueTry, Goto
  <1>2. PICK D, pos, num, fill, it : Placed(D, pos, num, fill, it)
    BY DEF Positions
  <1>3. Types /\ Proper /\ r \in Threads /\ r \notin Writers /\ state \in State
    BY ThreadSets DEF Base, Types
  <1>4. /\ D \in Nat /\ pos \in [Threads -> Nat] /\ num \in [Slots -> Nat] /\ fill \in [Slots -> {0, 1}]
        /\ it \in [Nat -> ItemOrNone] /\ state.count \in Nat
    BY <1>2, <1>3, StateFields, Widths DEF Placed, Ghosts
  <1>5. /\ pc'[r] = "slot" /\ cur'[r] = state
        /\ \A u \in Threads : u # r => pc'[u] = pc[u] /\ cur'[u] = cur[u]
    BY <1>1, <1>3 DEF Types
  <1>6. /\ Dequeued(state) \in State
        /\ Dequeued(state).deq = Seq1(state.deq + 1) /\ Dequeued(state).readers = state.readers
        /\ Dequeued(state).count = state.count - 1
        /\ Dequeued(state).writers = IF state.writers = 0 THEN 0 ELSE state.writers - 1
    BY <1>3, DequeuedFields
  <1>7. state'.count = state.count - 1 /\ state'.deq = Seq1(D + 1) /\ state.deq = Seq1(D)
        /\ D + state.count = D + 1 + state'.count
    <2>1. state.deq = Seq1(D)
      BY <1>2 DEF Placed, LineAt
    <2>2. EnqueueSeq(state) = Seq1(D + state.count) /\ Seq1(state.deq + 1) = Seq1(D + 1)
      BY <1>3, <1>4, <2>1, EndOfLine
    <2>3. state'.count = state.count - 1 /\ state'.deq = Seq1(state.deq + 1)
      BY <1>1, <1>6
    <2> QED  BY <1>4, <2>1, <2>2, <2>3
  <1>8. line \in Seq(Items) /\ Len(line) = state.count
    BY <1>3 DEF Types, Proper
  <1>9. due'[r] = it[D] /\ \A u \in Readers : u # r => due'[u] = due[u]
    <2>1. Head(line) = line[1]
      BY <1>4, <1>8
    <2>2. line[1] = it[D + 1 - 1]
      BY <1>2, <1>4 DEF Placed, LineAt
    <2>3. due'[r] = Head(line) /\ \A u \in Readers : u # r => due'[u] = due[u]
      BY <1>1, <1>3 DEF Types
    <2> QED  BY <1>4, <2>1, <2>2, <2>3
  <1>10. PICK q \in [Threads -> Nat] : q = [pos EXCEPT ![r] = D]
    BY <1>3, <1>4
  <1>11. q[r] = D /\ \A u \in Threads : u # r => q[u] = pos[u]
    BY <1>3, <1>4, <1>10
  <1>12. SlotsAt(num, fill, it)'
    BY <1>1, <1>2 DEF Placed, SlotsAt
  <1>13. num[SlotOf(D)] <= D
    <2>1. SlotOf(D) \in Slots
      BY <1>4, Wraps
    <2>2. ~(D < num[SlotOf(D)])
      BY <1>2, <1>4 DEF Placed, Claimed
    <2> QED  BY <1>4, <2>1, <2>2
  <1>14. ThreadsAt(D + 1, q, num, fill, it)'
    <2>1. ASSUME NEW w \in Writers, pc'[w] \in Claiming PROVE WriterAt(w, D + 1, q, num, fill, it)'
      <3>1. w \in Threads /\ w # r /\ pc'[w] = pc[w] /\ cur'[w] = cur[w] /\ q[w] = pos[w]
        BY <1>3, <1>5, <1>11, ThreadSets
      <3>2. WriterAt(w, D, pos, num, fill, it)
        BY <1>2, <2>1, <3>1 DEF Placed, ThreadsAt
      <3> QED  BY <1>1, <1>7, <3>1, <3>2 DEF WriterAt
    <2>2. ASSUME NEW u \in Readers, pc'[u] \in Claiming PROVE ReaderAt(u, D + 1, q, num, fill, it)'
      <3>1. CASE u = r
        BY <1>4, <1>5, <1>7, <1>9, <1>11, <1>13, <3>1 DEF ReaderAt
      <3>2. CASE u # r
        <4>1. u \in Threads /\ pc'[u] = pc[u] /\ cur'[u] = cur[u] /\ q[u] = pos[u] /\ due'[u] = due[u]
          BY <1>5, <1>9, <1>11, <3>2, ThreadSets
        <4>2. ReaderAt(u, D, pos, num, fill, it)
          BY <1>2, <2>2, <4>1 DEF Placed, ThreadsAt
        <4>3. pos[u] \in Nat
          BY <1>4, <4>1
        <4> QED  BY <1>1, <1>4, <4>1, <4>2, <4>3 DEF ReaderAt
      <3> QED  BY <3>1, <3>2
    <2> QED  BY <2>1, <2>2 DEF ThreadsAt
  <1>15. Apart(q)'
    <2>1. \A u \in Readers : u # r /\ pc'[u] \in Claiming => pc[u] \in Claiming /\ q[u] = pos[u] /\ q[u] # D
      <3> SUFFICES ASSUME NEW u \in Readers, u # r, pc'[u] \in Claiming
                   PROVE  pc[u] \in Claiming /\ q[u] = pos[u] /\ q[u] # D
        OBVIOUS
      <3>1. u \in Threads /\ pc[u] \in Claiming /\ q[u] = pos[u] /\ pos[u] \in Nat
        BY <1>4, <1>5, <1>11, ThreadSets
      <3>2. pos[u] < D
        BY <1>2, <3>1 DEF Placed, ThreadsAt, ReaderAt
      <3> QED  BY <1>4, <3>1, <3>2
    <2>2. \A w \in Writers : pc'[w] = pc[w] /\ q[w] = pos[w]
      BY <1>3, <1>5, <1>11, ThreadSets
    <2>3. Apart(pos)
      BY <1>2 DEF Placed
    <2> QED  BY <1>11, <2>1, <2>2, <2>3 DEF Apart
  <1>16. Claimed(D + 1, q, num, fill)'
    <2> SUFFICES ASSUME NEW x \in Nat
                 PROVE  /\ x < num[SlotOf(x)] => x < D + 1
                        /\ x < num[SlotOf(x)] + fill[SlotOf(x)] => x < D + 1 + state'.count
                        /\ num[SlotOf(x)] + fill[SlotOf(x)] <= x /\ x < D + 1 + state'.count
                             => \E w \in Writers : pc'[w] \in Claiming /\ q[w] = x
                        /\ num[SlotOf(x)] <= x /\ x < D + 1
                             => \E u \in Readers : pc'[u] \in Claiming /\ q[u] = x
      BY DEF Claimed
    <2>1. /\ x < num[SlotOf(x)] => x < D
          /\ x < num[SlotOf(x)] + fill[SlotOf(x)] => x < D + state.count
          /\ num[SlotOf(x)] + fill[SlotOf(x)] <= x /\ x < D + state.count
               => \E w \in Writers : pc[w] \in Claiming /\ pos[w] = x
          /\ num[SlotOf(x)] <= x /\ x < D => \E u \in Readers : pc[u] \in Claiming /\ pos[u] = x
      BY <1>2 DEF Placed, Claimed
    <2>2. \A w \in Writers : pc'[w] = pc[w] /\ q[w] = pos[w]
      BY <1>3, <1>5, <1>11, ThreadSets
    <2>3. \A u \in Readers : pc[u] \in Claiming => pc'[u] = pc[u] /\ q[u] = pos[u]
      BY <1>1, <1>5, <1>11, ThreadSets DEF Claiming
    <2>4. r \in Readers /\ pc'[r] \in Claiming /\ q[r] = D
      BY <1>5, <1>11 DEF Claiming
    <2>5. x < D => x < D + 1
      BY <1>4
    <2>6. x < D + 1 => x < D \/ x = D
      BY <1>4
    <2> QED  BY <1>7, <2>1, <2>2, <2>3, <2>4, <2>5, <2>6
  <1>17. LineAt(D + 1, it)'
    <2>1. ASSUME NEW k \in 1 .. state'.count PROVE line'[k] = it[D + 1 + k - 1]
      <3>1. k + 1 \in 1 .. state.count /\ k \in 1 .. Len(line) - 1
        BY <1>4, <1>7, <1>8
      <3>2. line'[k] = line[k + 1]
        BY <1>1, <1>4, <1>8, <3>1
      <3>3. line[k + 1] = it[D + (k + 1) - 1]
        BY <1>2, <3>1 DEF Placed, LineAt
      <3>4. D + (k + 1) - 1 = D + 1 + k - 1
        BY <1>4, <3>1
      <3> QED  BY <3>2, <3>3, <3>4
    <2> QED  BY <1>7, <2>1 DEF LineAt
  <1>18. Placed(D + 1, q, num, fill, it)'
    BY <1>4, <1>12, <1>14, <1>15, <1>16, <1>17 DEF Placed, Ghosts
  <1> QED  BY <1>18 DEF Positions

\* A writer claims the position after the line.
LEMMA ClaimToWrite ==
    ASSUME Base, Positions, NEW w \in Writers, EnqueueTry(w), state.count # MaxItems
    PROVE  Positions'
  <1>1. /\ pc[w] = "try" /\ pc' = [pc EXCEPT ![w] = "slot"] /\ cur' = [cur EXCEPT ![w] = state]
        /\ state' = Enqueued(state) /\ line' = Append(line, <<w, next[w]>>)
        /\ UNCHANGED <<slot, next, result, due>>
    BY DEF EnqueueTry, Goto
  <1>2. PICK D, pos, num, fill, it : Placed(D, pos, num, fill, it)
    BY DEF Positions
  <1>3. Types /\ Proper /\ w \in Threads /\ w \notin Readers /\ state \in State
    BY ThreadSets DEF Base, Types
  <1>4. /\ D \in Nat /\ pos \in [Threads -> Nat] /\ num \in [Slots -> Nat] /\ fill \in [Slots -> {0, 1}]
        /\ it \in [Nat -> ItemOrNone] /\ state.count \in Nat
    BY <1>2, <1>3, StateFields, Widths DEF Placed, Ghosts
  <1>5. /\ pc'[w] = "slot" /\ cur'[w] = state
        /\ \A u \in Threads : u # w => pc'[u] = pc[u] /\ cur'[u] = cur[u]
    BY <1>1, <1>3 DEF Types
  <1>6. /\ Enqueued(state) \in State
        /\ Enqueued(state).deq = state.deq /\ Enqueued(state).writers = state.writers
        /\ Enqueued(state).count = state.count + 1
        /\ Enqueued(state).readers = IF state.readers = 0 THEN 0 ELSE state.readers - 1
    BY <1>3, EnqueuedFields
  <1>7. PICK e \in Nat : e = D + state.count
    BY <1>4
  <1>8. state'.count = state.count + 1 /\ state'.deq = Seq1(D) /\ EnqueueSeq(state) = Seq1(e)
        /\ D + state'.count = e + 1
    <2>1. state.deq = Seq1(D)
      BY <1>2 DEF Placed, LineAt
    <2>2. EnqueueSeq(state) = Seq1(D + state.count) /\ Seq1(state.deq + 1) = Seq1(D + 1)
      BY <1>3, <1>4, <2>1, EndOfLine
    <2>3. state'.count = state.count + 1 /\ state'.deq = state.deq
      BY <1>1, <1>6
    <2> QED  BY <1>4, <1>7, <2>1, <2>2, <2>3
  <1>9. line \in Seq(Items) /\ Len(line) = state.count /\ <<w, next[w]>> \in Items
    <2>1. <<w, next[w]>> \in Items
      BY <1>1, <1>3, ItemType DEF Producing
    <2> QED  BY <1>3, <2>1 DEF Types, Proper
  <1>10. PICK q \in [Threads -> Nat] : q = [pos EXCEPT ![w] = e]
    BY <1>3, <1>4
  <1>11. q[w] = e /\ \A u \in Threads : u # w => q[u] = pos[u]
    BY <1>3, <1>4, <1>10
  <1>12. PICK im \in [Nat -> ItemOrNone] : im = [it EXCEPT ![e] = <<w, next[w]>>]
    <2>1. <<w, next[w]>> \in ItemOrNone
      BY <1>9 DEF ItemOrNone
    <2> QED  BY <1>4, <2>1
  <1>13. im[e] = <<w, next[w]>> /\ \A x \in Nat : x < e => im[x] = it[x]
    BY <1>4, <1>12
  <1>14. \A x \in Nat : SlotOf(x) \in Slots
    BY Wraps
  <1>15. SlotsAt(num, fill, im)'
    <2> SUFFICES ASSUME NEW i \in Slots
                 PROVE  /\ SlotOf(num[i]) = i /\ slot[i].seq = Seq1(num[i] + fill[i])
                        /\ fill[i] = 1 => slot[i].value = im[num[i]]
      BY <1>1 DEF SlotsAt
    <2>1. /\ SlotOf(num[i]) = i /\ slot[i].seq = Seq1(num[i] + fill[i])
          /\ fill[i] = 1 => slot[i].value = it[num[i]]
      BY <1>2 DEF Placed, SlotsAt
    <2>2. fill[i] = 1 => num[i] < e
      <3>1. num[i] \in Nat
        BY <1>4
      <3>2. fill[i] = 1 => num[i] < num[i] + fill[i]
        BY <3>1
      <3>3. num[i] < num[SlotOf(num[i])] + fill[SlotOf(num[i])] => num[i] < D + state.count
        BY <1>2, <3>1 DEF Placed, Claimed
      <3> QED  BY <1>7, <2>1, <3>2, <3>3
    <2>3. num[i] \in Nat
      BY <1>4
    <2> QED  BY <1>13, <2>1, <2>2, <2>3
  <1>16. num[SlotOf(e)] + fill[SlotOf(e)] <= e
    <2>1. ~(e < num[SlotOf(e)] + fill[SlotOf(e)])
      BY <1>2, <1>4, <1>7 DEF Placed, Claimed
    <2>2. num[SlotOf(e)] \in Nat /\ fill[SlotOf(e)] \in {0, 1}
      BY <1>4, <1>14
    <2> QED  BY <2>1, <2>2
  <1>17. ASSUME NEW u \in Threads, u # w, pc'[u] \in Claiming
         PROVE  /\ pc[u] \in Claiming /\ q[u] = pos[u] /\ pos[u] < e /\ im[pos[u]] = it[pos[u]]
                /\ pc'[u] = pc[u] /\ cur'[u] = cur[u] /\ pos[u] \in Nat
    <2>1. pc[u] \in Claiming /\ q[u] = pos[u] /\ pc'[u] = pc[u] /\ cur'[u] = cur[u] /\ pos[u] \in Nat
      BY <1>4, <1>5, <1>11, <1>17
    <2>2. pos[u] < e
      <3>1. CASE u \in Writers
        BY <1>2, <1>7, <2>1, <3>1 DEF Placed, ThreadsAt, WriterAt
      <3>2. CASE u \in Readers
        <4>1. pos[u] < D
          BY <1>2, <2>1, <3>2 DEF Placed, ThreadsAt, ReaderAt
        <4> QED  BY <1>4, <1>7, <2>1, <4>1
      <3> QED  BY <3>1, <3>2 DEF Threads
    <2> QED  BY <1>13, <2>1, <2>2
  <1>18. ThreadsAt(D, q, num, fill, im)'
    <2>1. ASSUME NEW u \in Writers, pc'[u] \in Claiming PROVE WriterAt(u, D, q, num, fill, im)'
      <3>1. CASE u = w
        <4>1. e < D + state'.count
          BY <1>8
        <4> QED  BY <1>1, <1>5, <1>8, <1>11, <1>13, <1>16, <3>1, <4>1 DEF WriterAt
      <3>2. CASE u # w
        <4>1. /\ pc[u] \in Claiming /\ q[u] = pos[u] /\ pos[u] < e /\ im[pos[u]] = it[pos[u]]
              /\ pc'[u] = pc[u] /\ cur'[u] = cur[u] /\ pos[u] \in Nat
          BY <1>17, <2>1, <3>2, ThreadSets
        <4>2. WriterAt(u, D, pos, num, fill, it)
          BY <1>2, <4>1 DEF Placed, ThreadsAt
        <4>3. pos[u] < D + state'.count
          BY <1>8, <4>1
        <4> QED  BY <1>1, <4>1, <4>2, <4>3 DEF WriterAt
      <3> QED  BY <3>1, <3>2
    <2>2. ASSUME NEW r \in Readers, pc'[r] \in Claiming PROVE ReaderAt(r, D, q, num, fill, im)'
      <3>1. /\ pc[r] \in Claiming /\ q[r] = pos[r] /\ pos[r] < e /\ im[pos[r]] = it[pos[r]]
            /\ pc'[r] = pc[r] /\ cur'[r] = cur[r] /\ pos[r] \in Nat
        BY <1>3, <1>17, <2>2, ThreadSets
      <3>2. ReaderAt(r, D, pos, num, fill, it)
        BY <1>2, <3>1 DEF Placed, ThreadsAt
      <3> QED  BY <1>1, <3>1, <3>2 DEF ReaderAt
    <2> QED  BY <2>1, <2>2 DEF ThreadsAt
  <1>19. Apart(q)'
    <2>1. \A u \in Writers : u # w /\ pc'[u] \in Claiming => pc[u] \in Claiming /\ q[u] = pos[u] /\ q[u] # e
      BY <1>7, <1>17, ThreadSets
    <2>2. \A r \in Readers : pc'[r] = pc[r] /\ q[r] = pos[r]
      BY <1>3, <1>5, <1>11, ThreadSets
    <2>3. Apart(pos)
      BY <1>2 DEF Placed
    <2> QED  BY <1>11, <2>1, <2>2, <2>3 DEF Apart
  <1>20. Claimed(D, q, num, fill)'
    <2> SUFFICES ASSUME NEW x \in Nat
                 PROVE  /\ x < num[SlotOf(x)] => x < D
                        /\ x < num[SlotOf(x)] + fill[SlotOf(x)] => x < D + state'.count
                        /\ num[SlotOf(x)] + fill[SlotOf(x)] <= x /\ x < D + state'.count
                             => \E u \in Writers : pc'[u] \in Claiming /\ q[u] = x
                        /\ num[SlotOf(x)] <= x /\ x < D
                             => \E r \in Readers : pc'[r] \in Claiming /\ q[r] = x
      BY DEF Claimed
    <2>1. /\ x < num[SlotOf(x)] => x < D
          /\ x < num[SlotOf(x)] + fill[SlotOf(x)] => x < D + state.count
          /\ num[SlotOf(x)] + fill[SlotOf(x)] <= x /\ x < D + state.count
               => \E u \in Writers : pc[u] \in Claiming /\ pos[u] = x
          /\ num[SlotOf(x)] <= x /\ x < D => \E r \in Readers : pc[r] \in Claiming /\ pos[r] = x
      BY <1>2 DEF Placed, Claimed
    <2>2. \A r \in Readers : pc'[r] = pc[r] /\ q[r] = pos[r]
      BY <1>3, <1>5, <1>11, ThreadSets
    <2>3. \A u \in Writers : pc[u] \in Claiming => pc'[u] = pc[u] /\ q[u] = pos[u]
      BY <1>1, <1>5, <1>11, ThreadSets DEF Claiming
    <2>4. w \in Writers /\ pc'[w] \in Claiming /\ q[w] = e
      BY <1>5, <1>11 DEF Claiming
    <2>5. x < D + state.count => x < D + state'.count
      BY <1>7, <1>8
    <2>6. x < D + state'.count => x < D + state.count \/ x = e
      BY <1>7, <1>8
    <2> QED  BY <2>1, <2>2, <2>3, <2>4, <2>5, <2>6
  <1>21. LineAt(D, im)'
    <2>1. ASSUME NEW k \in 1 .. state'.count PROVE line'[k] = im[D + k - 1]
      <3>1. CASE k \in 1 .. state.count
        <4>1. line'[k] = line[k]
          BY <1>1, <1>9, <3>1
        <4>2. line[k] = it[D + k - 1]
          BY <1>2, <3>1 DEF Placed, LineAt
        <4>3. D + k - 1 \in Nat /\ D + k - 1 < e
          BY <1>4, <1>7, <3>1
        <4> QED  BY <1>13, <4>1, <4>2, <4>3
      <3>2. CASE k = state.count + 1
        <4>1. line'[k] = <<w, next[w]>>
          BY <1>1, <1>4, <1>9, <3>2
        <4>2. D + k - 1 = e
          BY <1>4, <1>7, <3>2
        <4> QED  BY <1>13, <4>1, <4>2
      <3> QED  BY <1>4, <1>8, <3>1, <3>2
    <2> QED  BY <1>8, <2>1 DEF LineAt
  <1>22. Placed(D, q, num, fill, im)'
    BY <1>4, <1>15, <1>18, <1>19, <1>20, <1>21 DEF Placed, Ghosts
  <1> QED  BY <1>22 DEF Positions

\* A reader that has seen its slot filled reads the item that is due to it.
LEMMA TakeInPlace ==
    ASSUME Base, Positions, NEW r \in Readers, Take(r)
    PROVE  Positions'
  <1>1. /\ pc[r] = "slot" /\ pc' = [pc EXCEPT ![r] = "store"] /\ SlotFilled(r)
        /\ result' = [result EXCEPT ![r] = slot[SlotOf(cur[r].deq)].value]
        /\ UNCHANGED <<state, cur, slot, next, line, due>>
    BY DEF Take, Goto, history
  <1>2. PICK D, pos, num, fill, it : Placed(D, pos, num, fill, it)
    BY DEF Positions
  <1>3. Types /\ r \in Threads /\ r \notin Writers /\ pc[r] \in Claiming
    BY <1>1, ThreadSets DEF Base, Claiming
  <1>4. /\ pc'[r] = "store" /\ \A u \in Threads : u # r => pc'[u] = pc[u]
        /\ result'[r] = slot[SlotOf(cur[r].deq)].value /\ \A u \in Readers : u # r => result'[u] = result[u]
    BY <1>1, <1>3 DEF Types
  <1>5. /\ num[SlotOf(pos[r])] = pos[r] /\ fill[SlotOf(pos[r])] = 1
        /\ SlotOf(cur[r].deq) = SlotOf(pos[r]) /\ slot[SlotOf(pos[r])].value = it[pos[r]]
    BY <1>1, <1>2, <1>3, SlotIsFilled
  <1>6. \A t \in Threads : pc'[t] \in Claiming <=> pc[t] \in Claiming
    BY <1>3, <1>4 DEF Claiming
  <1>7. SlotsAt(num, fill, it)'
    BY <1>1, <1>2 DEF Placed, SlotsAt
  <1>8. ThreadsAt(D, pos, num, fill, it)'
    <2>1. ASSUME NEW w \in Writers, pc'[w] \in Claiming PROVE WriterAt(w, D, pos, num, fill, it)'
      <3>1. w \in Threads /\ w # r /\ pc'[w] = pc[w]
        BY <1>3, <1>4, ThreadSets
      <3>2. WriterAt(w, D, pos, num, fill, it)
        BY <1>2, <2>1, <3>1 DEF Placed, ThreadsAt
      <3> QED  BY <1>1, <3>1, <3>2 DEF WriterAt
    <2>2. ASSUME NEW u \in Readers, pc'[u] \in Claiming PROVE ReaderAt(u, D, pos, num, fill, it)'
      <3>1. pc[u] \in Claiming
        BY <1>6, <2>2, ThreadSets
      <3>2. ReaderAt(u, D, pos, num, fill, it)
        BY <1>2, <3>1 DEF Placed, ThreadsAt
      <3>3. CASE u = r
        BY <1>1, <1>4, <1>5, <3>2, <3>3 DEF ReaderAt
      <3>4. CASE u # r
        BY <1>1, <1>4, <3>2, <3>4, ThreadSets DEF ReaderAt
      <3> QED  BY <3>3, <3>4
    <2> QED  BY <2>1, <2>2 DEF ThreadsAt
  <1>9. Apart(pos)'
    BY <1>2, <1>6, ThreadSets DEF Placed, Apart
  <1>10. Claimed(D, pos, num, fill)'
    BY <1>1, <1>2, <1>6, ThreadSets DEF Placed, Claimed
  <1>11. LineAt(D, it)'
    BY <1>1, <1>2 DEF Placed, LineAt
  <1>12. Placed(D, pos, num, fill, it)'
    BY <1>2, <1>7, <1>8, <1>9, <1>10, <1>11 DEF Placed, Ghosts
  <1> QED  BY <1>12 DEF Positions

\* A writer that has seen its slot free fills it, and no one else's.
LEMMA FillInPlace ==
    ASSUME Base, Positions, NEW w \in Writers, Fill(w)
    PROVE  Positions'
  <1>1. /\ pc[w] = "slot" /\ pc' = [pc EXCEPT ![w] = "store"] /\ SlotFree(w)
        /\ slot' = [slot EXCEPT ![SlotOf(EnqueueSeq(cur[w]))].value = <<w, next[w]>>]
        /\ UNCHANGED <<state, cur, result, next, line, due>>
    BY DEF Fill, Goto, history
  <1>2. PICK D, pos, num, fill, it : Placed(D, pos, num, fill, it)
    BY DEF Positions
  <1>3. Types /\ w \in Threads /\ w \notin Readers /\ pc[w] \in Claiming
    BY <1>1, ThreadSets DEF Base, Claiming
  <1>4. pc'[w] = "store" /\ \A u \in Threads : u # w => pc'[u] = pc[u]
    BY <1>1, <1>3 DEF Types
  <1>5. num[SlotOf(pos[w])] = pos[w] /\ fill[SlotOf(pos[w])] = 0
    BY <1>1, <1>2, <1>3, SlotIsFree
  <1>6. \A t \in Threads : pc'[t] \in Claiming <=> pc[t] \in Claiming
    BY <1>3, <1>4 DEF Claiming
  <1>7. pos \in [Threads -> Nat] /\ \A x \in Nat : SlotOf(x) \in Slots /\ SlotOf(Seq1(x)) = SlotOf(x)
    <2>1. pos \in [Threads -> Nat]
      BY <1>2 DEF Placed, Ghosts
    <2>2. \A x \in Nat : SlotOf(x) \in Slots /\ SlotOf(Seq1(x)) = SlotOf(x)
      BY Wraps
    <2> QED  BY <2>1, <2>2
  <1>8. PICK i \in Slots : i = SlotOf(pos[w])
    BY <1>3, <1>7
  <1>9. WriterAt(w, D, pos, num, fill, it)
    BY <1>2, <1>3 DEF Placed, ThreadsAt
  <1>10. slot' = [slot EXCEPT ![i].value = <<w, next[w]>>]
    <2>1. SlotOf(EnqueueSeq(cur[w])) = i
      BY <1>3, <1>7, <1>8, <1>9 DEF WriterAt
    <2> QED  BY <1>1, <2>1
  <1>11. /\ slot'[i].value = <<w, next[w]>> /\ \A j \in Slots : j # i => slot'[j].value = slot[j].value
         /\ \A j \in Slots : slot'[j].seq = slot[j].seq
    BY <1>3, <1>10 DEF Types, Cells
  <1>12. SlotsAt(num, fill, it)'
    <2>1. \A j \in Slots : fill[j] = 1 => slot'[j].value = slot[j].value
      <3>1. fill[i] = 0
        BY <1>5, <1>8
      <3> QED  BY <1>11, <3>1
    <2>2. SlotsAt(num, fill, it)
      BY <1>2 DEF Placed
    <2> QED  BY <1>11, <2>1, <2>2 DEF SlotsAt
  <1>13. ThreadsAt(D, pos, num, fill, it)'
    <2>1. ASSUME NEW u \in Writers, pc'[u] \in Claiming PROVE WriterAt(u, D, pos, num, fill, it)'
      <3>1. pc[u] \in Claiming /\ u \in Threads
        BY <1>6, <2>1, ThreadSets
      <3>2. WriterAt(u, D, pos, num, fill, it)
        BY <1>2, <3>1 DEF Placed, ThreadsAt
      <3>3. CASE u = w
        BY <1>1, <1>5, <1>8, <1>11, <3>2, <3>3 DEF WriterAt
      <3>4. CASE u # w
        <4>1. pc'[u] = pc[u] /\ pos[u] # pos[w]
          BY <1>2, <1>3, <1>4, <3>1, <3>4 DEF Placed, Apart
        <4>2. pc[u] = "store" => SlotOf(pos[u]) # i
          BY <1>5, <1>8, <3>2, <4>1 DEF WriterAt
        <4>3. SlotOf(pos[u]) \in Slots
          BY <1>7, <3>1
        <4> QED  BY <1>1, <1>11, <3>2, <4>1, <4>2, <4>3 DEF WriterAt
      <3> QED  BY <3>3, <3>4
    <2>2. ASSUME NEW r \in Readers, pc'[r] \in Claiming PROVE ReaderAt(r, D, pos, num, fill, it)'
      <3>1. r \in Threads /\ r # w /\ pc'[r] = pc[r]
        BY <1>3, <1>4, ThreadSets
      <3>2. ReaderAt(r, D, pos, num, fill, it)
        BY <1>2, <2>2, <3>1 DEF Placed, ThreadsAt
      <3> QED  BY <1>1, <3>1, <3>2 DEF ReaderAt
    <2> QED  BY <2>1, <2>2 DEF ThreadsAt
  <1>14. Apart(pos)'
    BY <1>2, <1>6, ThreadSets DEF Placed, Apart
  <1>15. Claimed(D, pos, num, fill)'
    BY <1>1, <1>2, <1>6, ThreadSets DEF Placed, Claimed
  <1>16. LineAt(D, it)'
    BY <1>1, <1>2 DEF Placed, LineAt
  <1>17. Placed(D, pos, num, fill, it)'
    BY <1>2, <1>12, <1>13, <1>14, <1>15, <1>16 DEF Placed, Ghosts
  <1> QED  BY <1>17 DEF Positions

\* A writer hands over its slot: the position is filled.
LEMMA HandOverInPlace ==
    ASSUME Base, Positions, NEW w \in Writers, Filled(w)
    PROVE  Positions'
  <1>1. PICK to \in {"signal", "idle"} :
        /\ pc[w] = "store" /\ pc' = [pc EXCEPT ![w] = to] /\ cur' = [cur EXCEPT ![w] = Empty]
        /\ slot' = [slot EXCEPT ![SlotOf(EnqueueSeq(cur[w]))].seq = FilledSeq(cur[w])]
        /\ next' = [next EXCEPT ![w] = next[w] + 1]
        /\ UNCHANGED <<state, result, line, due>>
    BY DEF Filled, Goto, Forget, history
  <1>2. PICK D, pos, num, fill, it : Placed(D, pos, num, fill, it)
    BY DEF Positions
  <1>3. Types /\ w \in Threads /\ w \notin Readers /\ pc[w] \in Claiming
    BY <1>1, ThreadSets DEF Base, Claiming
  <1>4. /\ pc'[w] \notin Claiming
        /\ \A u \in Threads : u # w => pc'[u] = pc[u] /\ cur'[u] = cur[u]
        /\ \A u \in Writers : u # w => next'[u] = next[u]
    BY <1>1, <1>3 DEF Types, Claiming
  <1>5. /\ D \in Nat /\ pos \in [Threads -> Nat] /\ num \in [Slots -> Nat] /\ fill \in [Slots -> {0, 1}]
        /\ it \in [Nat -> ItemOrNone] /\ state.count \in Nat
    BY <1>2, <1>3, StateFields, Widths DEF Placed, Ghosts, Types
  <1>6. WriterAt(w, D, pos, num, fill, it)
    BY <1>2, <1>3 DEF Placed, ThreadsAt
  <1>7. PICK p \in Nat : p = pos[w]
    BY <1>3, <1>5
  <1>8. PICK i \in Slots : i = SlotOf(p)
    BY <1>7, Wraps
  <1>9. /\ num[i] = p /\ fill[i] = 0 /\ slot[i].value = it[p] /\ p < D + state.count
        /\ EnqueueSeq(cur[w]) = Seq1(p)
    BY <1>1, <1>6, <1>7, <1>8 DEF WriterAt
  <1>10. SlotOf(EnqueueSeq(cur[w])) = i /\ FilledSeq(cur[w]) = Seq1(p + 1)
    <2>1. p \in Int /\ 1 \in Int
      OBVIOUS
    <2>2. SlotOf(Seq1(p)) = SlotOf(p) /\ Seq1(Seq1(p) + 1) = Seq1(p + 1)
      BY <2>1, Wraps
    <2> QED  BY <1>8, <1>9, <2>2 DEF FilledSeq
  <1>11. /\ slot'[i].seq = Seq1(p + 1) /\ \A j \in Slots : j # i => slot'[j].seq = slot[j].seq
         /\ \A j \in Slots : slot'[j].value = slot[j].value
    <2>1. slot' = [slot EXCEPT ![i].seq = Seq1(p + 1)]
      BY <1>1, <1>10
    <2> QED  BY <1>3, <2>1 DEF Types, Cells
  <1>12. PICK full \in [Slots -> {0, 1}] : full = [fill EXCEPT ![i] = 1]
    BY <1>5
  <1>13. full[i] = 1 /\ \A j \in Slots : j # i => full[j] = fill[j]
    BY <1>5, <1>12
  <1>14. \A x \in Nat : SlotOf(x) \in Slots
    BY Wraps
  <1>15. SlotsAt(num, full, it)'
    <2> SUFFICES ASSUME NEW j \in Slots
                 PROVE  /\ SlotOf(num[j]) = j /\ slot'[j].seq = Seq1(num[j] + full[j])
                        /\ full[j] = 1 => slot'[j].value = it[num[j]]
      BY DEF SlotsAt
    <2>1. /\ SlotOf(num[j]) = j /\ slot[j].seq = Seq1(num[j] + fill[j])
          /\ fill[j] = 1 => slot[j].value = it[num[j]]
      BY <1>2 DEF Placed, SlotsAt
    <2>2. CASE j = i
      BY <1>9, <1>11, <1>13, <2>1, <2>2
    <2>3. CASE j # i
      BY <1>11, <1>13, <2>1, <2>3
    <2> QED  BY <2>2, <2>3
  <1>16. ThreadsAt(D, pos, num, full, it)'
    <2>1. ASSUME NEW u \in Writers, pc'[u] \in Claiming PROVE WriterAt(u, D, pos, num, full, it)'
      <3>1. u # w /\ u \in Threads /\ pc'[u] = pc[u] /\ cur'[u] = cur[u] /\ next'[u] = next[u]
            /\ pc[u] \in Claiming
        BY <1>4, <2>1, ThreadSets
      <3>2. WriterAt(u, D, pos, num, fill, it)
        BY <1>2, <3>1 DEF Placed, ThreadsAt
      <3>3. pos[u] # p
        BY <1>2, <1>3, <1>7, <3>1 DEF Placed, Apart
      <3>4. pos[u] \in Nat /\ SlotOf(pos[u]) \in Slots
        BY <1>5, <1>14, <3>1
      <3>5. CASE SlotOf(pos[u]) = i
        <4>1. num[i] + full[i] <= pos[u]
          BY <1>9, <1>13, <3>2, <3>3, <3>4, <3>5 DEF WriterAt
        <4>2. pc[u] # "store"
          BY <1>9, <3>2, <3>3, <3>5 DEF WriterAt
        <4> QED  BY <1>1, <3>1, <3>2, <3>5, <4>1, <4>2 DEF WriterAt
      <3>6. CASE SlotOf(pos[u]) # i
        <4>1. full[SlotOf(pos[u])] = fill[SlotOf(pos[u])]
              /\ slot'[SlotOf(pos[u])].value = slot[SlotOf(pos[u])].value
          BY <1>11, <1>13, <3>4, <3>6
        <4> QED  BY <1>1, <3>1, <3>2, <4>1 DEF WriterAt
      <3> QED  BY <3>5, <3>6
    <2>2. ASSUME NEW r \in Readers, pc'[r] \in Claiming PROVE ReaderAt(r, D, pos, num, full, it)'
      <3>1. r \in Threads /\ r # w /\ pc'[r] = pc[r] /\ cur'[r] = cur[r]
        BY <1>3, <1>4, ThreadSets
      <3>2. ReaderAt(r, D, pos, num, fill, it)
        BY <1>2, <2>2, <3>1 DEF Placed, ThreadsAt
      <3>3. SlotOf(pos[r]) \in Slots
        BY <1>5, <1>14, <3>1
      <3>4. pc[r] = "store" => full[SlotOf(pos[r])] = 1
        BY <1>13, <3>2, <3>3 DEF ReaderAt
      <3> QED  BY <1>1, <3>1, <3>2, <3>4 DEF ReaderAt
    <2> QED  BY <2>1, <2>2 DEF ThreadsAt
  <1>17. Apart(pos)'
    <2>1. \A t \in Threads : pc'[t] \in Claiming => pc[t] \in Claiming
      BY <1>4
    <2> QED  BY <1>2, <2>1, ThreadSets DEF Placed, Apart
  <1>18. Claimed(D, pos, num, full)'
    <2> SUFFICES ASSUME NEW x \in Nat
                 PROVE  /\ x < num[SlotOf(x)] => x < D
                        /\ x < num[SlotOf(x)] + full[SlotOf(x)] => x < D + state.count
                        /\ num[SlotOf(x)] + full[SlotOf(x)] <= x /\ x < D + state.count
                             => \E u \in Writers : pc'[u] \in Claiming /\ pos[u] = x
                        /\ num[SlotOf(x)] <= x /\ x < D
                             => \E r \in Readers : pc'[r] \in Claiming /\ pos[r] = x
      BY <1>1 DEF Claimed
    <2>1. /\ x < num[SlotOf(x)] => x < D
          /\ x < num[SlotOf(x)] + fill[SlotOf(x)] => x < D + state.count
          /\ num[SlotOf(x)] + fill[SlotOf(x)] <= x /\ x < D + state.count
               => \E u \in Writers : pc[u] \in Claiming /\ pos[u] = x
          /\ num[SlotOf(x)] <= x /\ x < D => \E r \in Readers : pc[r] \in Claiming /\ pos[r] = x
      BY <1>2 DEF Placed, Claimed
    <2>2. \A r \in Readers : pc'[r] = pc[r]
      BY <1>3, <1>4, ThreadSets
    <2>3. \A u \in Writers : pc[u] \in Claiming /\ u # w => pc'[u] = pc[u]
      BY <1>4, ThreadSets
    <2>4. CASE SlotOf(x) = i
      <3>1. x < num[i] + full[i] => x < num[i] + fill[i] \/ x = p
        BY <1>9, <1>13
      <3>2. num[i] + full[i] <= x => num[i] + fill[i] <= x /\ x # p
        BY <1>9, <1>13
      <3> QED  BY <1>7, <1>9, <2>1, <2>2, <2>3, <2>4, <3>1, <3>2
    <2>5. CASE SlotOf(x) # i
      <3>1. full[SlotOf(x)] = fill[SlotOf(x)]
        BY <1>13, <1>14, <2>5
      <3>2. x # pos[w]
        BY <1>7, <1>8, <2>5
      <3> QED  BY <2>1, <2>2, <2>3, <3>1, <3>2
    <2> QED  BY <2>4, <2>5
  <1>19. LineAt(D, it)'
    BY <1>1, <1>2 DEF Placed, LineAt
  <1>20. Placed(D, pos, num, full, it)'
    BY <1>5, <1>15, <1>16, <1>17, <1>18, <1>19 DEF Placed, Ghosts
  <1> QED  BY <1>20 DEF Positions

\* A reader frees its slot: it is for the position one round on.
LEMMA FreeInPlace ==
    ASSUME Base, Positions, NEW r \in Readers, Freed(r)
    PROVE  Positions'
  <1>1. PICK to \in {"signal", "idle"} :
        /\ pc[r] = "store" /\ pc' = [pc EXCEPT ![r] = to] /\ cur' = [cur EXCEPT ![r] = Empty]
        /\ slot' = [slot EXCEPT ![SlotOf(cur[r].deq)] = [seq |-> FreedSeq(cur[r]), value |-> NoItem]]
        /\ result' = [result EXCEPT ![r] = NoItem] /\ due' = [due EXCEPT ![r] = NoItem]
        /\ UNCHANGED <<state, next, line>>
    BY DEF Freed, Goto, Forget
  <1>2. PICK D, pos, num, fill, it : Placed(D, pos, num, fill, it)
    BY DEF Positions
  <1>3. Types /\ r \in Threads /\ r \notin Writers /\ pc[r] \in Claiming
    BY <1>1, ThreadSets DEF Base, Claiming
  <1>4. /\ pc'[r] \notin Claiming
        /\ \A u \in Threads : u # r => pc'[u] = pc[u] /\ cur'[u] = cur[u]
        /\ \A u \in Readers : u # r => result'[u] = result[u] /\ due'[u] = due[u]
    BY <1>1, <1>3 DEF Types, Claiming
  <1>5. /\ D \in Nat /\ pos \in [Threads -> Nat] /\ num \in [Slots -> Nat] /\ fill \in [Slots -> {0, 1}]
        /\ it \in [Nat -> ItemOrNone] /\ state.count \in Nat /\ NumSlots \in Nat /\ NumSlots > 1
    <2>1. state.count \in Nat /\ NumSlots \in Nat /\ NumSlots > 1
      BY <1>3, StateFields, Widths DEF Types
    <2> QED  BY <1>2, <2>1 DEF Placed, Ghosts
  <1>6. ReaderAt(r, D, pos, num, fill, it)
    BY <1>2, <1>3 DEF Placed, ThreadsAt
  <1>7. PICK p \in Nat : p = pos[r]
    BY <1>3, <1>5
  <1>8. PICK i \in Slots : i = SlotOf(p)
    BY <1>7, Wraps
  <1>9. num[i] = p /\ fill[i] = 1 /\ p < D /\ cur[r].deq = Seq1(p)
    BY <1>1, <1>6, <1>7, <1>8 DEF ReaderAt
  <1>10. SlotOf(cur[r].deq) = i /\ FreedSeq(cur[r]) = Seq1(p + NumSlots) /\ SlotOf(p + NumSlots) = i
    <2>1. p \in Int /\ NumSlots \in Int
      BY <1>5
    <2>2. SlotOf(Seq1(p)) = SlotOf(p) /\ Seq1(Seq1(p) + NumSlots) = Seq1(p + NumSlots)
          /\ SlotOf(p + NumSlots) = SlotOf(p)
      BY <2>1, Wraps
    <2> QED  BY <1>8, <1>9, <2>2 DEF FreedSeq
  <1>11. slot'[i].seq = Seq1(p + NumSlots) /\ \A j \in Slots : j # i => slot'[j] = slot[j]
    <2>1. slot' = [slot EXCEPT ![i] = [seq |-> Seq1(p + NumSlots), value |-> NoItem]]
      BY <1>1, <1>10
    <2> QED  BY <1>3, <2>1 DEF Types
  <1>12. PICK later \in [Slots -> Nat] : later = [num EXCEPT ![i] = p + NumSlots]
    <2>1. p + NumSlots \in Nat /\ num \in [Slots -> Nat]
      BY <1>5
    <2> QED  BY <2>1
  <1>13. PICK full \in [Slots -> {0, 1}] : full = [fill EXCEPT ![i] = 0]
    BY <1>5
  <1>14. /\ later[i] = p + NumSlots /\ full[i] = 0
         /\ \A j \in Slots : j # i => full[j] = fill[j] /\ later[j] = num[j]
    BY <1>5, <1>12, <1>13
  <1>15. \A x \in Nat : SlotOf(x) \in Slots
    BY Wraps
  <1>16. ASSUME NEW x \in Nat, SlotOf(x) = i, p < x
         PROVE  p + NumSlots <= x
    BY <1>8, <1>16, RoundApart
  <1>17. SlotsAt(later, full, it)'
    <2> SUFFICES ASSUME NEW j \in Slots
                 PROVE  /\ SlotOf(later[j]) = j /\ slot'[j].seq = Seq1(later[j] + full[j])
                        /\ full[j] = 1 => slot'[j].value = it[later[j]]
      BY DEF SlotsAt
    <2>1. /\ SlotOf(num[j]) = j /\ slot[j].seq = Seq1(num[j] + fill[j])
          /\ fill[j] = 1 => slot[j].value = it[num[j]]
      BY <1>2 DEF Placed, SlotsAt
    <2>2. CASE j = i
      <3>1. later[i] + full[i] = p + NumSlots
        BY <1>5, <1>14
      <3> QED  BY <1>10, <1>11, <1>14, <2>2, <3>1
    <2>3. CASE j # i
      BY <1>11, <1>14, <2>1, <2>3
    <2> QED  BY <2>2, <2>3
  <1>18. ThreadsAt(D, pos, later, full, it)'
    <2>1. ASSUME NEW w \in Writers, pc'[w] \in Claiming PROVE WriterAt(w, D, pos, later, full, it)'
      <3>1. w # r /\ w \in Threads /\ pc'[w] = pc[w] /\ cur'[w] = cur[w] /\ pc[w] \in Claiming
        BY <1>3, <1>4, <2>1, ThreadSets
      <3>2. WriterAt(w, D, pos, num, fill, it)
        BY <1>2, <3>1 DEF Placed, ThreadsAt
      <3>3. pos[w] \in Nat /\ SlotOf(pos[w]) \in Slots
        BY <1>5, <1>15, <3>1
      <3>4. CASE SlotOf(pos[w]) = i
        <4>1. p < pos[w]
          BY <1>9, <3>2, <3>3, <3>4 DEF WriterAt
        <4>2. later[i] + full[i] <= pos[w]
          BY <1>5, <1>14, <1>16, <3>3, <3>4, <4>1
        <4>3. pc[w] # "store"
          BY <1>9, <3>2, <3>4 DEF WriterAt
        <4> QED  BY <1>1, <3>1, <3>2, <3>4, <4>2, <4>3 DEF WriterAt
      <3>5. CASE SlotOf(pos[w]) # i
        <4>1. full[SlotOf(pos[w])] = fill[SlotOf(pos[w])] /\ later[SlotOf(pos[w])] = num[SlotOf(pos[w])]
              /\ slot'[SlotOf(pos[w])] = slot[SlotOf(pos[w])]
          BY <1>11, <1>14, <3>3, <3>5
        <4> QED  BY <1>1, <3>1, <3>2, <4>1 DEF WriterAt
      <3> QED  BY <3>4, <3>5
    <2>2. ASSUME NEW u \in Readers, pc'[u] \in Claiming PROVE ReaderAt(u, D, pos, later, full, it)'
      <3>1. u \in Threads /\ u # r /\ pc'[u] = pc[u] /\ cur'[u] = cur[u] /\ pc[u] \in Claiming
            /\ result'[u] = result[u] /\ due'[u] = due[u]
        BY <1>4, <2>2, ThreadSets
      <3>2. ReaderAt(u, D, pos, num, fill, it)
        BY <1>2, <3>1 DEF Placed, ThreadsAt
      <3>3. pos[u] \in Nat /\ SlotOf(pos[u]) \in Slots
        BY <1>5, <1>15, <3>1
      <3>4. pos[u] # p
        BY <1>2, <1>3, <1>7, <3>1 DEF Placed, Apart
      <3>5. CASE SlotOf(pos[u]) = i
        <4>1. p < pos[u]
          BY <1>9, <3>2, <3>3, <3>4, <3>5 DEF ReaderAt
        <4>2. later[i] <= pos[u]
          BY <1>14, <1>16, <3>3, <3>5, <4>1
        <4>3. pc[u] # "store"
          BY <1>9, <3>2, <3>4, <3>5 DEF ReaderAt
        <4> QED  BY <1>1, <3>1, <3>2, <3>5, <4>2, <4>3 DEF ReaderAt
      <3>6. CASE SlotOf(pos[u]) # i
        <4>1. full[SlotOf(pos[u])] = fill[SlotOf(pos[u])] /\ later[SlotOf(pos[u])] = num[SlotOf(pos[u])]
          BY <1>14, <3>3, <3>6
        <4> QED  BY <1>1, <3>1, <3>2, <4>1 DEF ReaderAt
      <3> QED  BY <3>5, <3>6
    <2> QED  BY <2>1, <2>2 DEF ThreadsAt
  <1>19. Apart(pos)'
    <2>1. \A t \in Threads : pc'[t] \in Claiming => pc[t] \in Claiming
      BY <1>4
    <2> QED  BY <1>2, <2>1, ThreadSets DEF Placed, Apart
  <1>20. Claimed(D, pos, later, full)'
    <2> SUFFICES ASSUME NEW x \in Nat
                 PROVE  /\ x < later[SlotOf(x)] => x < D
                        /\ x < later[SlotOf(x)] + full[SlotOf(x)] => x < D + state.count
                        /\ later[SlotOf(x)] + full[SlotOf(x)] <= x /\ x < D + state.count
                             => \E w \in Writers : pc'[w] \in Claiming /\ pos[w] = x
                        /\ later[SlotOf(x)] <= x /\ x < D
                             => \E u \in Readers : pc'[u] \in Claiming /\ pos[u] = x
      BY <1>1 DEF Claimed
    <2>1. /\ x < num[SlotOf(x)] => x < D
          /\ x < num[SlotOf(x)] + fill[SlotOf(x)] => x < D + state.count
          /\ num[SlotOf(x)] + fill[SlotOf(x)] <= x /\ x < D + state.count
               => \E w \in Writers : pc[w] \in Claiming /\ pos[w] = x
          /\ num[SlotOf(x)] <= x /\ x < D => \E u \in Readers : pc[u] \in Claiming /\ pos[u] = x
      BY <1>2 DEF Placed, Claimed
    <2>2. \A w \in Writers : pc'[w] = pc[w]
      BY <1>3, <1>4, ThreadSets
    <2>3. \A u \in Readers : pc[u] \in Claiming /\ u # r => pc'[u] = pc[u]
      BY <1>4, ThreadSets
    <2>4. CASE SlotOf(x) = i
      <3>1. x < later[i] => x < D /\ x < D + state.count
        <4> SUFFICES ASSUME x < p + NumSlots PROVE x < D /\ x < D + state.count
          BY <1>14
        <4>1. x <= p
          BY <1>5, <1>16, <2>4
        <4> QED  BY <1>5, <1>9, <4>1
      <3>2. later[i] <= x => num[i] + fill[i] <= x /\ num[i] <= x /\ x # p
        BY <1>5, <1>9, <1>14
      <3>3. later[i] + full[i] = later[i]
        BY <1>5, <1>14
      <3> QED  BY <1>7, <2>1, <2>2, <2>3, <2>4, <3>1, <3>2, <3>3
    <2>5. CASE SlotOf(x) # i
      <3>1. full[SlotOf(x)] = fill[SlotOf(x)] /\ later[SlotOf(x)] = num[SlotOf(x)]
        BY <1>14, <1>15, <2>5
      <3>2. x # pos[r]
        BY <1>7, <1>8, <2>5
      <3> QED  BY <2>1, <2>2, <2>3, <3>1, <3>2
    <2> QED  BY <2>4, <2>5
  <1>21. LineAt(D, it)'
    BY <1>1, <1>2 DEF Placed, LineAt
  <1>22. Placed(D, pos, later, full, it)'
    BY <1>5, <1>17, <1>18, <1>19, <1>20, <1>21 DEF Placed, Ghosts
  <1> QED  BY <1>22 DEF Positions

\* When the queue is made, the slots are for the positions from the first one on.
LEMMA PositionsInit ==
    ASSUME Init
    PROVE  Positions
  <1>1. /\ state.deq = FirstSeq /\ state.count = 0 /\ FirstSeq \in Nat /\ NumSlots \in Nat \ {0}
        /\ FirstSeq \in 0 .. SeqSpace - 1 /\ SeqSpace \in Nat \ {0}
    BY Widths DEF Init, Empty
  <1>2. ASSUME NEW i \in Slots
        PROVE  \E k \in 0 .. NumSlots - 1 : slot[i].seq = Seq1(FirstSeq + k) /\ SlotOf(FirstSeq + k) = i
    <2> DEFINE P(n) == \E k \in 0 .. NumSlots - 1 : n = (FirstSeq + k) % SeqSpace /\ n % NumSlots = i
               c == CHOOSE n \in Sequence : P(n)
    <2>1. \E n \in Sequence : P(n)
      BY FirstNumber
    <2>2. P(c)
      BY <2>1
    <2>3. slot[i].seq = c
      BY DEF Init, Slots
    <2> HIDE DEF c
    <2>4. PICK k \in 0 .. NumSlots - 1 : c = (FirstSeq + k) % SeqSpace /\ c % NumSlots = i
      BY <2>2
    <2>5. FirstSeq + k \in Int
      BY <1>1
    <2>6. SlotOf(Seq1(FirstSeq + k)) = SlotOf(FirstSeq + k)
      BY <2>5, Wraps
    <2> QED  BY <2>3, <2>4, <2>6 DEF Seq1, SlotOf
  <1> DEFINE num == [i \in Slots |-> FirstSeq + CHOOSE k \in 0 .. NumSlots - 1 :
                        slot[i].seq = Seq1(FirstSeq + k) /\ SlotOf(FirstSeq + k) = i]
             fill == [i \in Slots |-> 0]
             it == [x \in Nat |-> NoItem]
             pos == [t \in Threads |-> 0]
  <1>3. ASSUME NEW i \in Slots
        PROVE  /\ num[i] \in Nat /\ FirstSeq <= num[i] /\ num[i] < FirstSeq + NumSlots
               /\ slot[i].seq = Seq1(num[i]) /\ SlotOf(num[i]) = i /\ fill[i] = 0
    <2>1. PICK k \in 0 .. NumSlots - 1 : num[i] = FirstSeq + k /\ slot[i].seq = Seq1(FirstSeq + k)
                                         /\ SlotOf(FirstSeq + k) = i
      BY <1>2
    <2> QED  BY <1>1, <2>1
  <1>4. Ghosts(FirstSeq, pos, num, fill, it)
    <2>1. num \in [Slots -> Nat]
      BY <1>3
    <2> QED  BY <1>1, <2>1 DEF Ghosts, ItemOrNone
  <1>5. \A t \in Threads : pc[t] \notin Claiming
    BY DEF Init, Claiming
  <1> HIDE DEF num, fill, it, pos
  <1>6. SlotsAt(num, fill, it)
    <2> SUFFICES ASSUME NEW i \in Slots
                 PROVE  /\ SlotOf(num[i]) = i /\ slot[i].seq = Seq1(num[i] + fill[i])
                        /\ fill[i] = 1 => slot[i].value = it[num[i]]
      BY DEF SlotsAt
    <2>1. num[i] + fill[i] = num[i] /\ fill[i] = 0
      BY <1>3
    <2> QED  BY <1>3, <2>1
  <1>7. ThreadsAt(FirstSeq, pos, num, fill, it) /\ Apart(pos)
    BY <1>5, ThreadSets DEF ThreadsAt, Apart
  <1>8. Claimed(FirstSeq, pos, num, fill)
    <2> SUFFICES ASSUME NEW x \in Nat
                 PROVE  /\ x < num[SlotOf(x)] => x < FirstSeq
                        /\ num[SlotOf(x)] + fill[SlotOf(x)] = num[SlotOf(x)]
                        /\ num[SlotOf(x)] <= x => ~(x < FirstSeq)
      BY <1>1 DEF Claimed
    <2>1. SlotOf(x) \in Slots
      BY Wraps
    <2>2. PICK n \in Nat : n = num[SlotOf(x)] /\ FirstSeq <= n /\ n < FirstSeq + NumSlots
                           /\ SlotOf(n) = SlotOf(x) /\ fill[SlotOf(x)] = 0
      BY <1>3, <2>1
    <2>3. x < n => x + NumSlots <= n
      BY <2>2, RoundApart
    <2> QED  BY <1>1, <2>2, <2>3
  <1>9. LineAt(FirstSeq, it)
    <2>1. Seq1(FirstSeq) = FirstSeq
      BY <1>1, ModSmall DEF Seq1
    <2> QED  BY <1>1, <2>1 DEF LineAt
  <1>10. Placed(FirstSeq, pos, num, fill, it)
    BY <1>4, <1>6, <1>7, <1>8, <1>9 DEF Placed
  <1> QED  BY <1>10 DEF Positions

\* When the queue is used again, it is drained: the slots of the line are freed.
LEMMA ResetInPlace ==
    ASSUME Base, Positions, Reset
    PROVE  Positions'
  <1>1. /\ \A t \in Threads : pc[t] = "done"
        /\ pc' = [t \in Threads |-> "idle"]
        /\ slot' = [i \in DOMAIN slot |->
                     IF i \in Undrained
                     THEN [seq |-> Seq1(slot[i].seq + NumSlots - 1), value |-> NoItem] ELSE slot[i]]
    BY DEF Reset, AllDone
  <1>2. PICK D, pos, num, fill, it : Placed(D, pos, num, fill, it)
    BY DEF Positions
  <1>3. Types /\ state \in State /\ slot \in [Slots -> Cells]
    BY DEF Base, Types
  <1>4. /\ D \in Nat /\ pos \in [Threads -> Nat] /\ num \in [Slots -> Nat] /\ fill \in [Slots -> {0, 1}]
        /\ it \in [Nat -> ItemOrNone]
    BY <1>2 DEF Placed, Ghosts
  <1>5. state.count \in Nat /\ NumSlots \in Nat /\ NumSlots > 1
    BY <1>3, StateFields, Widths
  <1>6. PICK e \in Nat : e = D + state.count
    BY <1>4, <1>5
  <1>7. state'.count = 0 /\ state'.deq = Seq1(e)
    <2>1. state'.deq = Seq1(state.deq + state.count) /\ state'.count = 0
      <3>1. PICK d : d = Seq1(state.deq + state.count)
        BY Zenon
      <3>2. PICK v : v = state.writers - (IF state.count < state.writers THEN state.count ELSE state.writers)
        BY Zenon
      <3>3. state' = [state EXCEPT !.deq = d, !.count = 0, !.writers = v]
        BY <3>1, <3>2, Zenon DEF Reset
      <3> QED  BY <1>3, <3>1, <3>3 DEF State
    <2>2. state.deq = Seq1(D)
      BY <1>2 DEF Placed, LineAt
    <2>3. EnqueueSeq(state) = Seq1(D + state.count) /\ Seq1(state.deq + 1) = Seq1(D + 1)
      BY <1>3, <1>4, <2>2, EndOfLine
    <2> QED  BY <1>6, <2>1, <2>3 DEF EnqueueSeq
  <1>8. \A t \in Threads : pc[t] \notin Claiming /\ pc'[t] \notin Claiming
    BY <1>1 DEF Claiming
  <1>9. ASSUME NEW x \in Nat
        PROVE  /\ SlotOf(x) \in Slots
               /\ x < num[SlotOf(x)] <=> x < D
               /\ x < num[SlotOf(x)] + fill[SlotOf(x)] <=> x < e
    <2>1. SlotOf(x) \in Slots
      BY Wraps
    <2>2. num[SlotOf(x)] \in Nat /\ fill[SlotOf(x)] \in {0, 1}
      BY <1>4, <2>1
    <2>3. /\ x < num[SlotOf(x)] => x < D
          /\ x < num[SlotOf(x)] + fill[SlotOf(x)] => x < e
          /\ ~(num[SlotOf(x)] + fill[SlotOf(x)] <= x /\ x < e)
          /\ ~(num[SlotOf(x)] <= x /\ x < D)
      BY <1>2, <1>6, <1>8, ThreadSets DEF Placed, Claimed
    <2> QED  BY <1>4, <2>1, <2>2, <2>3
  <1>10. ASSUME NEW i \in Slots
         PROVE  /\ i \in Undrained <=> fill[i] = 1
                /\ num[i] \in Nat /\ fill[i] \in {0, 1} /\ SlotOf(num[i]) = i
                /\ slot[i].seq = Seq1(num[i] + fill[i])
                /\ fill[i] = 1 => D <= num[i] /\ num[i] < e
    <2>1. num[i] \in Nat /\ fill[i] \in {0, 1}
      BY <1>4
    <2>2. SlotOf(num[i]) = i /\ slot[i].seq = Seq1(num[i] + fill[i])
      BY <1>2 DEF Placed, SlotsAt
    <2>3. num[i] < num[SlotOf(num[i])] <=> num[i] < D
      BY <1>9, <2>1
    <2>4. num[i] < num[SlotOf(num[i])] + fill[SlotOf(num[i])] <=> num[i] < e
      BY <1>9, <2>1
    <2>5. fill[i] = 1 => D <= num[i] /\ num[i] < e
      BY <1>4, <1>6, <2>1, <2>2, <2>3, <2>4
    <2>6. \A k \in Nat : SlotOf(state.deq + k) = SlotOf(D + k)
      <3> SUFFICES ASSUME NEW k \in Nat PROVE SlotOf(state.deq + k) = SlotOf(D + k)
        OBVIOUS
      <3>1. state.deq = Seq1(D)
        BY <1>2 DEF Placed, LineAt
      <3>2. state.deq \in Int /\ D \in Int /\ k \in Int
        BY <1>3, <1>4, StateFields, Widths
      <3>3. SlotOf(Seq1(state.deq + k)) = SlotOf(state.deq + k) /\ SlotOf(Seq1(D + k)) = SlotOf(D + k)
        <4>1. state.deq + k \in Int /\ D + k \in Int
          BY <3>2
        <4> QED  BY <4>1, Wraps
      <3>4. Seq1(Seq1(D) + k) = Seq1(D + k)
        BY <3>2, Wraps
      <3> QED  BY <3>1, <3>3, <3>4
    <2>7. ASSUME i \in Undrained PROVE fill[i] = 1
      <3>1. PICK k \in 0 .. state.count - 1 : i = SlotOf(state.deq + k)
        BY <2>7 DEF Undrained
      <3>2. k \in Nat /\ D + k \in Nat /\ D + k < e /\ ~(D + k < D)
        BY <1>4, <1>5, <1>6
      <3>3. i = SlotOf(D + k)
        BY <2>6, <3>1, <3>2
      <3>4. ~(D + k < num[i]) /\ D + k < num[i] + fill[i]
        BY <1>9, <3>2, <3>3
      <3> QED  BY <2>1, <3>2, <3>4
    <2>8. ASSUME fill[i] = 1 PROVE i \in Undrained
      <3>1. PICK k \in Nat : k = num[i] - D
        BY <1>4, <2>1, <2>5, <2>8
      <3>2. k \in 0 .. state.count - 1 /\ D + k = num[i]
        BY <1>4, <1>5, <1>6, <2>1, <2>5, <2>8, <3>1
      <3>3. SlotOf(state.deq + k) = i
        BY <2>2, <2>6, <3>2
      <3> QED  BY <3>2, <3>3 DEF Undrained
    <2> QED  BY <2>1, <2>2, <2>5, <2>7, <2>8
  <1> DEFINE later == [i \in Slots |-> num[i] + IF fill[i] = 1 THEN NumSlots ELSE 0]
             none == [i \in Slots |-> 0]
  <1>11. later \in [Slots -> Nat] /\ none \in [Slots -> {0, 1}]
    BY <1>4, <1>5
  <1>12. ASSUME NEW i \in Slots
         PROVE  /\ none[i] = 0 /\ later[i] \in Nat /\ later[i] + none[i] = later[i]
                /\ later[i] = IF fill[i] = 1 THEN num[i] + NumSlots ELSE num[i]
    BY <1>5, <1>10
  <1> HIDE DEF later, none
  <1>13. SlotsAt(later, none, it)'
    <2> SUFFICES ASSUME NEW i \in Slots
                 PROVE  SlotOf(later[i]) = i /\ slot'[i].seq = Seq1(later[i] + none[i]) /\ none[i] # 1
      BY DEF SlotsAt
    <2>1. none[i] # 1 /\ later[i] + none[i] = later[i]
      BY <1>12
    <2>2. CASE fill[i] = 1
      <3>1. later[i] = num[i] + NumSlots /\ num[i] \in Int /\ SlotOf(num[i]) = i
        BY <1>10, <1>12, <2>2
      <3>2. SlotOf(num[i] + NumSlots) = SlotOf(num[i])
        BY <3>1, Wraps
      <3>3. slot'[i].seq = Seq1(slot[i].seq + NumSlots - 1) /\ slot[i].seq = Seq1(num[i] + 1)
        BY <1>1, <1>3, <1>10, <2>2
      <3>4. num[i] + 1 \in Int /\ NumSlots - 1 \in Int /\ (num[i] + 1) + (NumSlots - 1) = num[i] + NumSlots
        BY <1>5, <3>1
      <3>5. Seq1(Seq1(num[i] + 1) + (NumSlots - 1)) = Seq1((num[i] + 1) + (NumSlots - 1))
        BY <3>4, Wraps
      <3>6. Seq1(num[i] + 1) \in Int
        BY <3>4, SeqType, Widths
      <3>7. Seq1(num[i] + 1) + NumSlots - 1 = Seq1(num[i] + 1) + (NumSlots - 1)
        BY <1>5, <3>6
      <3> QED  BY <2>1, <3>1, <3>2, <3>3, <3>4, <3>5, <3>7
    <2>3. CASE fill[i] = 0
      <3>1. slot'[i] = slot[i]
        BY <1>1, <1>3, <1>10, <2>3
      <3>2. num[i] + fill[i] = num[i] /\ later[i] = num[i]
        BY <1>10, <1>12, <2>3
      <3> QED  BY <1>10, <2>1, <3>1, <3>2
    <2> QED  BY <1>4, <2>2, <2>3
  <1>14. ThreadsAt(e, pos, later, none, it)' /\ Apart(pos)'
    BY <1>8, ThreadSets DEF ThreadsAt, Apart
  <1>15. Claimed(e, pos, later, none)'
    <2> SUFFICES ASSUME NEW x \in Nat
                 PROVE  /\ x < later[SlotOf(x)] <=> x < e
                        /\ ~(later[SlotOf(x)] <= x /\ x < e)
                        /\ later[SlotOf(x)] + none[SlotOf(x)] = later[SlotOf(x)]
      BY <1>6, <1>7 DEF Claimed
    <2>1. PICK i \in Slots : i = SlotOf(x)
      BY <1>9
    <2>2. /\ x < num[i] + fill[i] <=> x < e
          /\ num[i] \in Nat /\ fill[i] \in {0, 1} /\ SlotOf(num[i]) = SlotOf(x)
          /\ fill[i] = 1 => num[i] < e
      BY <1>9, <1>10, <2>1
    <2>3. later[i] + none[i] = later[i] /\ later[i] = IF fill[i] = 1 THEN num[i] + NumSlots ELSE num[i]
      BY <1>12
    <2>4. num[i] < x => num[i] + NumSlots <= x
      BY <2>2, RoundApart
    <2>5. x < later[i] <=> x < e
      BY <1>5, <1>6, <2>2, <2>3, <2>4
    <2>6. later[i] \in Nat
      BY <1>12
    <2> QED  BY <2>1, <2>3, <2>5, <2>6
  <1>16. LineAt(e, it)'
    BY <1>7 DEF LineAt
  <1>17. Placed(e, pos, later, none, it)'
    BY <1>4, <1>6, <1>11, <1>13, <1>14, <1>15, <1>16 DEF Placed, Ghosts
  <1> QED  BY <1>17 DEF Positions

-----------------------------------------------------------------------------
(* Who has ended, and why.                                                    *)

Ended == {"stop", "wake", "done"}

\* If nobody has aborted or stopped early, a reader ends when all writers have and
\* nothing is left, and a writer when it has no more.
Ending ==
    ~aborted /\ ~early =>
        /\ \A r \in Readers : /\ pc[r] \in Ended => activeWriters = 0 /\ state.count = 0
                              /\ pc[r] = "last" => activeWriters = 0
        /\ \A w \in Writers : pc[w] \in Ended => next[w] > NumItems

\* A thread that has not stopped is counted.
LEMMA ActiveWriter ==
    ASSUME Base, NEW w \in Writers, pc[w] \in Active
    PROVE  activeWriters # 0
  <1>1. w \in {t \in Writers : pc[t] \in Active} /\ {t \in Writers : pc[t] \in Active} \subseteq Writers
    OBVIOUS
  <1>2. Cardinality({t \in Writers : pc[t] \in Active}) # 0
    BY <1>1, ThreadSets, CountBounds
  <1> QED  BY <1>2 DEF Base, Counts, Actives, CountAt

\* When no reader is counted, one has ended.
LEMMA ReadersGone ==
    ASSUME Base, activeReaders = 0
    PROVE  \E r \in Readers : pc[r] \in Ended
  <1>1. PICK r \in Readers : TRUE
    BY QueueAssumption
  <1>2. Cardinality({t \in Readers : pc[t] \in Active}) = 0
    BY DEF Base, Counts, Actives, CountAt
  <1>3. {t \in Readers : pc[t] \in Active} = {}
    <2>1. {t \in Readers : pc[t] \in Active} \subseteq Readers
      OBVIOUS
    <2> QED  BY <1>2, <2>1, ThreadSets, CountBounds
  <1>4. pc[r] \notin Active /\ pc[r] \in Places
    BY <1>3, ThreadSets DEF Base, Types
  <1> QED  BY <1>4 DEF Active, Ended

\* A step of a reader that ends only for a reason.
LEMMA ReaderEnds ==
    ASSUME Ending, NEW r \in Readers, \A u \in Threads : u # r => pc'[u] = pc[u],
           UNCHANGED <<activeWriters, aborted, early, resets, next>>,
           state.count = 0 => state'.count = 0,
           pc'[r] \in Ended => pc[r] \in Ended \/ aborted \/ (activeWriters = 0 /\ state'.count = 0),
           pc'[r] = "last" => activeWriters = 0
    PROVE  Ending'
  <1>1. NumItems' = NumItems
    BY DEF NumItems
  <1>2. \A w \in Writers : pc'[w] = pc[w]
    BY ThreadSets
  <1>3. \A u \in Readers : u # r => pc'[u] = pc[u]
    BY ThreadSets
  <1> QED  BY <1>1, <1>2, <1>3 DEF Ending

\* A step of a writer that ends only for a reason.
LEMMA WriterEnds ==
    ASSUME Base, Ending, NEW w \in Writers, \A u \in Threads : u # w => pc'[u] = pc[u],
           UNCHANGED <<aborted, early, resets>>, \A u \in Writers : u # w => next'[u] = next[u],
           pc[w] \in Active \/ (activeWriters' = activeWriters /\ state'.count = state.count),
           pc'[w] \in Ended => aborted \/ early \/ next'[w] > NumItems
    PROVE  Ending'
  <1>1. NumItems' = NumItems
    BY DEF NumItems
  <1>2. \A r \in Readers : pc'[r] = pc[r]
    BY ThreadSets
  <1>3. \A u \in Writers : u # w => pc'[u] = pc[u]
    BY ThreadSets
  <1>4. CASE pc[w] \in Active
    <2>1. activeWriters # 0
      BY <1>4, ActiveWriter
    <2> QED  BY <1>1, <1>2, <1>3, <2>1 DEF Ending
  <1>5. CASE activeWriters' = activeWriters /\ state'.count = state.count
    BY <1>1, <1>2, <1>3, <1>5 DEF Ending
  <1> QED  BY <1>4, <1>5

\* What readers do.
LEMMA ReaderEnding ==
    ASSUME Base, Ending, NEW r \in Readers, Reader(r) \/ StopEarly(r)
    PROVE  Ending'
  <1>1. Types /\ r \in Threads /\ r \notin Writers /\ state \in State
    BY ThreadSets DEF Base, Types
  <1>2. ASSUME NEW to, pc' = [pc EXCEPT ![r] = to],
               UNCHANGED <<activeWriters, aborted, early, resets, next>>,
               state.count = 0 => state'.count = 0,
               to \in Ended => pc[r] \in Ended \/ aborted \/ (activeWriters = 0 /\ state'.count = 0),
               to = "last" => activeWriters = 0
        PROVE  Ending'
    <2>1. pc'[r] = to /\ \A u \in Threads : u # r => pc'[u] = pc[u]
      BY <1>1, <1>2 DEF Types
    <2> QED  BY <1>2, <2>1, ReaderEnds
  <1>3. ASSUME NEW from, NEW to, Step(r, from, to),
               to \in Ended => aborted \/ (activeWriters = 0 /\ state.count = 0),
               to = "last" => activeWriters = 0
        PROVE  Ending'
    <2>1. /\ pc' = [pc EXCEPT ![r] = to] /\ state' = state
          /\ UNCHANGED <<activeWriters, aborted, early, resets, next>>
      BY <1>3 DEF Step, Goto, active, others, counters, history
    <2> QED  BY <1>2, <1>3, <2>1
  <1>4. CASE DequeueBegin(r)
    BY <1>3, <1>4 DEF DequeueBegin, Unless, Ended
  <1>5. CASE DequeueTry(r)
    <2>1. UNCHANGED <<activeWriters, aborted, early, resets, next>>
      BY <1>5 DEF DequeueTry, active, counters
    <2>2. PICK to \in {"check", "slot"} : pc' = [pc EXCEPT ![r] = to]
      BY <1>5 DEF DequeueTry, Goto
    <2>3. state.count = 0 => state'.count = 0
      BY <1>5 DEF DequeueTry
    <2> QED  BY <1>2, <2>1, <2>2, <2>3 DEF Ended
  <1>6. CASE DequeueCheck(r)
    BY <1>3, <1>6 DEF DequeueCheck, AllWritersStopped, Ended
  <1>7. CASE DequeueLast(r)
    <2>1. PICK to \in {"stop", "try"} : Step(r, "last", to) /\ (to = "stop" => state.count = 0)
      BY <1>7 DEF DequeueLast, Unless
    <2>2. CASE aborted \/ early
      <3>1. UNCHANGED <<aborted, early>>
        BY <2>1 DEF Step, others, history
      <3> QED  BY <2>2, <3>1 DEF Ending
    <2>3. CASE ~aborted /\ ~early
      <3>1. activeWriters = 0
        BY <2>1, <2>3 DEF Ending, Step
      <3> QED  BY <1>3, <2>1, <3>1 DEF Ended
    <2> QED  BY <2>2, <2>3
  <1>8. CASE Park(r, WithReader(state))
    <2>1. UNCHANGED <<activeWriters, aborted, early, resets, next>>
      BY <1>8 DEF Park, active, others, counters, history
    <2>2. PICK to \in {"parked", "try"} : pc' = [pc EXCEPT ![r] = to]
      BY <1>8 DEF Park, Goto
    <2>3. state' = WithReader(state) \/ state' = state
      BY <1>8 DEF Park
    <2>4. WithReader(state).count = state.count
      BY <1>1 DEF WithReader, State
    <2> QED  BY <1>2, <2>1, <2>2, <2>3, <2>4 DEF Ended
  <1>9. CASE Parked(r)
    BY <1>3, <1>9 DEF Parked, Unless, Ended
  <1>10. CASE DequeueWait(r)
    BY <1>3, <1>10 DEF DequeueWait, Ended
  <1>11. CASE DequeueWake(r)
    <2>1. UNCHANGED <<activeWriters, aborted, early, resets, next>> /\ state' = state
      BY <1>11 DEF DequeueWake, active, others, counters, history
    <2>2. pc' = [pc EXCEPT ![r] = "woken"]
      BY <1>11 DEF DequeueWake, Goto
    <2> QED  BY <1>2, <2>1, <2>2 DEF Ended
  <1>12. CASE Woken(r)
    BY <1>3, <1>12 DEF Woken, Unless, Ended
  <1>13. CASE Take(r)
    <2>1. UNCHANGED <<activeWriters, aborted, early, resets, next>> /\ state' = state
      BY <1>13 DEF Take, active, counters, history
    <2>2. pc' = [pc EXCEPT ![r] = "store"]
      BY <1>13 DEF Take, Goto
    <2> QED  BY <1>2, <2>1, <2>2 DEF Ended
  <1>14. CASE Freed(r)
    <2>1. UNCHANGED <<activeWriters, aborted, early, resets, next>> /\ state' = state
      BY <1>14 DEF Freed, active, counters
    <2>2. PICK to \in {"signal", "idle"} : pc' = [pc EXCEPT ![r] = to]
      BY <1>14 DEF Freed, Goto
    <2> QED  BY <1>2, <2>1, <2>2 DEF Ended
  <1>15. CASE SignalWriters(r, "signal", 1, "idle") \/ SignalWriters(r, "wake", state.writers, "done")
    <2>1. UNCHANGED <<activeWriters, aborted, early, resets, next>> /\ state' = state
      BY <1>15 DEF SignalWriters, active, others, counters, history
    <2>2. PICK to \in {"idle", "done"} : pc' = [pc EXCEPT ![r] = to] /\ (to = "done" => pc[r] = "wake")
      BY <1>15 DEF SignalWriters, Goto
    <2> QED  BY <1>2, <2>1, <2>2 DEF Ended
  <1>16. CASE ReaderStops(r)
    <2>1. UNCHANGED <<activeWriters, aborted, early, resets, next>> /\ state' = state /\ pc[r] = "stop"
      BY <1>16 DEF ReaderStops, others, counters, history
    <2>2. PICK to \in {"wake", "done"} : pc' = [pc EXCEPT ![r] = to]
      BY <1>16 DEF ReaderStops, Goto
    <2> QED  BY <1>2, <2>1, <2>2 DEF Ended
  <1>17. CASE StopEarly(r)
    BY <1>17 DEF StopEarly, Ending
  <1> QED  BY <1>4, <1>5, <1>6, <1>7, <1>8, <1>9, <1>10, <1>11, <1>12, <1>13, <1>14, <1>15, <1>16, <1>17
           DEF Reader

\* What writers do.
LEMMA WriterEnding ==
    ASSUME Base, Ending, NEW w \in Writers, Writer(w)
    PROVE  Ending'
  <1>1. Types /\ Proper /\ w \in Threads /\ w \notin Readers /\ state \in State
    BY ThreadSets DEF Base, Types
  <1>2. ASSUME NEW to, pc' = [pc EXCEPT ![w] = to], UNCHANGED <<aborted, early, resets>>,
               \A u \in Writers : u # w => next'[u] = next[u],
               pc[w] \in Active \/ (activeWriters' = activeWriters /\ state'.count = state.count),
               to \in Ended => aborted \/ early \/ next'[w] > NumItems
        PROVE  Ending'
    <2>1. pc'[w] = to /\ \A u \in Threads : u # w => pc'[u] = pc[u]
      BY <1>1, <1>2 DEF Types
    <2> QED  BY <1>2, <2>1, WriterEnds
  <1>3. ASSUME NEW from, NEW to, Step(w, from, to),
               to \in Ended => aborted \/ early \/ next[w] > NumItems
        PROVE  Ending'
    <2>1. /\ pc' = [pc EXCEPT ![w] = to]
          /\ UNCHANGED <<aborted, early, resets, next, activeWriters, state>>
      BY <1>3 DEF Step, Goto, active, others, counters, history
    <2> QED  BY <1>2, <1>3, <2>1
  <1>4. pc[w] \in Active /\ activeReaders = 0 => aborted \/ early
    <2> SUFFICES ASSUME pc[w] \in Active, activeReaders = 0, ~aborted, ~early PROVE FALSE
      OBVIOUS
    <2>1. \E r \in Readers : pc[r] \in Ended
      BY ReadersGone
    <2>2. activeWriters # 0
      BY ActiveWriter
    <2> QED  BY <2>1, <2>2 DEF Ending
  <1>5. CASE EnqueueBegin(w)
    BY <1>3, <1>5 DEF EnqueueBegin, Unless, Ended
  <1>6. CASE EnqueueTry(w)
    <2>1. UNCHANGED <<aborted, early, resets, next>> /\ pc[w] = "try"
      BY <1>6 DEF EnqueueTry, counters
    <2>2. PICK to \in {"check", "slot"} : pc' = [pc EXCEPT ![w] = to]
      BY <1>6 DEF EnqueueTry, Goto
    <2> QED  BY <1>2, <2>1, <2>2 DEF Ended, Active, Places
  <1>7. CASE EnqueueCheck(w)
    <2>1. PICK to \in {"stop", "park"} : Step(w, "check", to) /\ (to = "stop" => activeReaders = 0)
      BY <1>7 DEF EnqueueCheck, Unless, AllReadersStopped
    <2>2. pc[w] \in Active
      BY <2>1 DEF Step, Active, Places
    <2> QED  BY <1>3, <1>4, <2>1, <2>2 DEF Ended
  <1>8. CASE Park(w, WithWriter(state))
    <2>1. UNCHANGED <<aborted, early, resets, next>> /\ pc[w] = "park"
      BY <1>8 DEF Park, others, counters, history
    <2>2. PICK to \in {"parked", "try"} : pc' = [pc EXCEPT ![w] = to]
      BY <1>8 DEF Park, Goto
    <2> QED  BY <1>2, <2>1, <2>2 DEF Ended, Active, Places
  <1>9. CASE Parked(w)
    BY <1>3, <1>9 DEF Parked, Unless, Ended
  <1>10. CASE EnqueueWait(w)
    <2>1. PICK to \in {"stop", "sleep"} : Step(w, "wait", to) /\ (to = "stop" => activeReaders = 0)
      BY <1>10 DEF EnqueueWait, Unless, AllReadersStopped
    <2>2. pc[w] \in Active
      BY <2>1 DEF Step, Active, Places
    <2> QED  BY <1>3, <1>4, <2>1, <2>2 DEF Ended
  <1>11. CASE EnqueueWake(w)
    <2>1. UNCHANGED <<aborted, early, resets, next>> /\ pc[w] = "sleep" /\ pc' = [pc EXCEPT ![w] = "woken"]
      BY <1>11 DEF EnqueueWake, Goto, others, counters, history
    <2> QED  BY <1>2, <2>1 DEF Ended, Active, Places
  <1>12. CASE Woken(w)
    BY <1>3, <1>12 DEF Woken, Unless, Ended
  <1>13. CASE Fill(w)
    <2>1. UNCHANGED <<aborted, early, resets, next>> /\ pc[w] = "slot" /\ pc' = [pc EXCEPT ![w] = "store"]
      BY <1>13 DEF Fill, Goto, counters, history
    <2> QED  BY <1>2, <2>1 DEF Ended, Active, Places
  <1>14. CASE Filled(w)
    <2>1. UNCHANGED <<aborted, early, resets>> /\ pc[w] = "store"
      BY <1>14 DEF Filled, counters, history
    <2>2. PICK to \in {"signal", "idle"} : pc' = [pc EXCEPT ![w] = to]
      BY <1>14 DEF Filled, Goto
    <2>3. \A u \in Writers : u # w => next'[u] = next[u]
      BY <1>1, <1>14 DEF Filled, Types
    <2> QED  BY <1>2, <2>1, <2>2, <2>3 DEF Ended, Active, Places
  <1>15. CASE SignalReaders(w, "signal", 1, "idle") \/ SignalReaders(w, "wake", state.readers, "done")
    <2>1. UNCHANGED <<aborted, early, resets, next, activeWriters>> /\ state' = state
      BY <1>15 DEF SignalReaders, active, others, counters, history
    <2>2. PICK to \in {"idle", "done"} : pc' = [pc EXCEPT ![w] = to] /\ (to = "done" => pc[w] = "wake")
      BY <1>15 DEF SignalReaders, Goto
    <2>3. to \in Ended => aborted \/ early \/ next'[w] > NumItems
      BY <2>1, <2>2 DEF Ended, Ending
    <2> QED  BY <1>2, <2>1, <2>2, <2>3
  <1>16. CASE LastItem(w)
    BY <1>3, <1>16 DEF LastItem
  <1>17. CASE WriterStops(w)
    <2>1. UNCHANGED <<aborted, early, resets, next>> /\ pc[w] = "stop"
      BY <1>17 DEF WriterStops, others, counters, history
    <2>2. PICK to \in {"wake", "done"} : pc' = [pc EXCEPT ![w] = to]
      BY <1>17 DEF WriterStops, Goto
    <2>3. aborted \/ early \/ next'[w] > NumItems
      BY <2>1 DEF Ended, Ending
    <2> QED  BY <1>2, <2>1, <2>2, <2>3 DEF Active, Places
  <1> QED  BY <1>5, <1>6, <1>7, <1>8, <1>9, <1>10, <1>11, <1>12, <1>13, <1>14, <1>15, <1>16, <1>17
           DEF Writer

-----------------------------------------------------------------------------
(* Where every item is.                                                       *)

\* How many items a writer has claimed slots for.
Made(w) == IF pc[w] \in Claiming THEN next[w] ELSE next[w] - 1

InLine(i) == \E k \in 1 .. Len(line) : line[k] = i
Promised(i) == \E r \in Readers : pc[r] \in Claiming /\ due[r] = i

\* Every item that was enqueued is in line, due to a reader, or received.
Accounted ==
    /\ received \subseteq Items
    /\ \A i \in Items : i[2] <= Made(i[1]) <=> i \in received \/ InLine(i) \/ Promised(i)

\* Readers that are about to hand over have read what is due to them.
LEMMA ReadsWhatIsDue ==
    ASSUME Positions, NEW r \in Readers, pc[r] = "store"
    PROVE  result[r] = due[r]
  <1>1. PICK D, pos, num, fill, it : Placed(D, pos, num, fill, it)
    BY DEF Positions
  <1>2. ReaderAt(r, D, pos, num, fill, it)
    BY <1>1 DEF Placed, ThreadsAt, Claiming
  <1> QED  BY <1>2 DEF ReaderAt

\* An item is a writer and a number.
LEMMA ItemParts ==
    ASSUME NEW i \in Items
    PROVE  i[1] \in Writers /\ i[2] \in Nat /\ i[2] >= 1 /\ i = <<i[1], i[2]>>
  <1>1. \A n \in Numbers : n \in Nat /\ n >= 1
    BY Widths DEF Numbers
  <1> QED  BY <1>1 DEF Items

\* Steps aside move no item.
LEMMA AsideAccounts ==
    ASSUME Accounted, Aside
    PROVE  Accounted'
  <1>1. UNCHANGED <<line, due, next, received>> /\ \A t \in Threads : pc'[t] \in Claiming <=> pc[t] \in Claiming
    BY DEF Aside
  <1>2. \A i : InLine(i)' <=> InLine(i)
    BY <1>1 DEF InLine
  <1>3. \A i : Promised(i)' <=> Promised(i)
    BY <1>1, ThreadSets DEF Promised
  <1>4. \A i \in Items : Made(i[1])' = Made(i[1])
    BY <1>1, ItemParts, ThreadSets DEF Made
  <1> QED  BY <1>1, <1>2, <1>3, <1>4 DEF Accounted

\* The same when a thread only fills or reads the slot that it has claimed.
LEMMA InPlaceAccounts ==
    ASSUME Base, Accounted, NEW t \in Threads, pc[t] = "slot", pc' = [pc EXCEPT ![t] = "store"],
           UNCHANGED <<line, due, next, received>>
    PROVE  Accounted'
  <1>1. \A u \in Threads : pc'[u] \in Claiming <=> pc[u] \in Claiming
    BY DEF Base, Types, Claiming
  <1>2. \A i : InLine(i)' <=> InLine(i)
    BY DEF InLine
  <1>3. \A i : Promised(i)' <=> Promised(i)
    BY <1>1, ThreadSets DEF Promised
  <1>4. \A i \in Items : Made(i[1])' = Made(i[1])
    BY <1>1, ItemParts, ThreadSets DEF Made
  <1> QED  BY <1>2, <1>3, <1>4 DEF Accounted

\* A reader is promised the head of the line.
LEMMA ClaimToReadAccounts ==
    ASSUME Base, Accounted, NEW r \in Readers, DequeueTry(r), state.count # 0
    PROVE  Accounted'
  <1>1. /\ pc[r] = "try" /\ pc' = [pc EXCEPT ![r] = "slot"]
        /\ due' = [due EXCEPT ![r] = Head(line)] /\ line' = Tail(line)
        /\ UNCHANGED <<next, received>>
    BY DEF DequeueTry, Goto
  <1>2. Types /\ Proper /\ r \in Threads /\ r \notin Writers /\ state.count \in Nat
    BY ThreadSets, StateFields, Widths DEF Base, Types
  <1>3. /\ pc'[r] \in Claiming /\ pc[r] \notin Claiming
        /\ \A u \in Threads : u # r => pc'[u] = pc[u]
        /\ due'[r] = Head(line) /\ \A u \in Readers : u # r => due'[u] = due[u]
    BY <1>1, <1>2 DEF Types, Claiming
  <1>4. line \in Seq(Items) /\ Len(line) \in Nat /\ Len(line) # 0
    BY <1>2 DEF Types, Proper
  <1>5. ASSUME NEW i PROVE InLine(i) <=> i = Head(line) \/ InLine(i)'
    <2>1. Head(line) = line[1] /\ Len(Tail(line)) = Len(line) - 1
          /\ \A k \in 1 .. Len(line) - 1 : Tail(line)[k] = line[k + 1]
      BY <1>4
    <2>2. ASSUME InLine(i) PROVE i = Head(line) \/ InLine(i)'
      <3>1. PICK k \in 1 .. Len(line) : line[k] = i
        BY <2>2 DEF InLine
      <3>2. CASE k = 1
        BY <2>1, <3>1, <3>2
      <3>3. CASE k # 1
        <4>1. k - 1 \in 1 .. Len(line) - 1 /\ (k - 1) + 1 = k
          BY <1>4, <3>3
        <4>2. line'[k - 1] = i /\ k - 1 \in 1 .. Len(line')
          BY <1>1, <2>1, <3>1, <4>1
        <4> QED  BY <4>2 DEF InLine
      <3> QED  BY <3>2, <3>3
    <2>3. ASSUME i = Head(line) PROVE InLine(i)
      <3>1. 1 \in 1 .. Len(line)
        BY <1>4
      <3> QED  BY <2>1, <2>3, <3>1 DEF InLine
    <2>4. ASSUME InLine(i)' PROVE InLine(i)
      <3>1. PICK k \in 1 .. Len(line') : line'[k] = i
        BY <2>4 DEF InLine
      <3>2. k \in 1 .. Len(line) - 1 /\ k + 1 \in 1 .. Len(line)
        BY <1>1, <1>4, <2>1, <3>1
      <3>3. line[k + 1] = i
        BY <1>1, <2>1, <3>1, <3>2
      <3> QED  BY <3>2, <3>3 DEF InLine
    <2> QED  BY <2>2, <2>3, <2>4
  <1>6. ASSUME NEW i PROVE Promised(i)' <=> Promised(i) \/ i = Head(line)
    <2>1. \A u \in Readers : u # r => pc'[u] = pc[u] /\ due'[u] = due[u]
      BY <1>3, ThreadSets
    <2> QED  BY <1>3, <2>1 DEF Promised
  <1>7. \A w \in Writers : Made(w)' = Made(w)
    BY <1>1, <1>2, <1>3, ThreadSets DEF Made
  <1>8. ASSUME NEW i \in Items
        PROVE  i[2] <= Made(i[1])' <=> i \in received' \/ InLine(i)' \/ Promised(i)'
    <2>1. i[2] <= Made(i[1]) <=> i \in received \/ InLine(i) \/ Promised(i)
      BY DEF Accounted
    <2>2. Made(i[1])' = Made(i[1]) /\ received' = received
      BY <1>1, <1>7, ItemParts
    <2>3. InLine(i) <=> i = Head(line) \/ InLine(i)'
      BY <1>5
    <2>4. Promised(i)' <=> Promised(i) \/ i = Head(line)
      BY <1>6
    <2> QED  BY <2>1, <2>2, <2>3, <2>4
  <1> QED  BY <1>1, <1>8 DEF Accounted

\* A writer's item goes to the end of the line.
LEMMA ClaimToWriteAccounts ==
    ASSUME Base, Accounted, NEW w \in Writers, EnqueueTry(w), state.count # MaxItems
    PROVE  Accounted'
  <1>1. /\ pc[w] = "try" /\ pc' = [pc EXCEPT ![w] = "slot"] /\ line' = Append(line, <<w, next[w]>>)
        /\ UNCHANGED <<next, received, due>>
    BY DEF EnqueueTry, Goto
  <1>2. Types /\ w \in Threads /\ w \notin Readers /\ next[w] \in Nat
    BY ThreadSets DEF Base, Types
  <1>3. pc'[w] \in Claiming /\ pc[w] \notin Claiming /\ \A u \in Threads : u # w => pc'[u] = pc[u]
    BY <1>1, <1>2 DEF Types, Claiming
  <1>4. line \in Seq(Items) /\ Len(line) \in Nat
    BY <1>2 DEF Types
  <1>5. PICK e : e = <<w, next[w]>>
    BY Zenon
  <1>6. /\ Len(line') = Len(line) + 1 /\ line'[Len(line) + 1] = e
        /\ \A k \in 1 .. Len(line) : line'[k] = line[k]
    BY <1>1, <1>4, <1>5
  <1>7. ASSUME NEW i PROVE InLine(i)' <=> i = e \/ InLine(i)
    <2>1. ASSUME InLine(i)' PROVE i = e \/ InLine(i)
      <3>1. PICK k \in 1 .. Len(line') : line'[k] = i
        BY <2>1 DEF InLine
      <3>2. k \in 1 .. Len(line) \/ k = Len(line) + 1
        BY <1>4, <1>6
      <3> QED  BY <1>6, <3>1, <3>2 DEF InLine
    <2>2. ASSUME i = e PROVE InLine(i)'
      <3>1. Len(line) + 1 \in 1 .. Len(line')
        BY <1>4, <1>6
      <3> QED  BY <1>6, <2>2, <3>1 DEF InLine
    <2>3. ASSUME InLine(i) PROVE InLine(i)'
      <3>1. PICK k \in 1 .. Len(line) : line[k] = i
        BY <2>3 DEF InLine
      <3>2. k \in 1 .. Len(line')
        BY <1>4, <1>6
      <3> QED  BY <1>6, <3>1, <3>2 DEF InLine
    <2> QED  BY <2>1, <2>2, <2>3
  <1>8. ASSUME NEW i PROVE Promised(i)' <=> Promised(i)
    <2>1. \A r \in Readers : pc'[r] = pc[r]
      BY <1>2, <1>3, ThreadSets
    <2> QED  BY <1>1, <2>1 DEF Promised
  <1>9. Made(w)' = next[w] /\ Made(w) = next[w] - 1 /\ \A u \in Writers : u # w => Made(u)' = Made(u)
    BY <1>1, <1>3, ThreadSets DEF Made
  <1>10. ASSUME NEW i \in Items
         PROVE  i[2] <= Made(i[1])' <=> i \in received' \/ InLine(i)' \/ Promised(i)'
    <2>1. i[2] <= Made(i[1]) <=> i \in received \/ InLine(i) \/ Promised(i)
      BY DEF Accounted
    <2>2. i[1] \in Writers /\ i[2] \in Nat /\ i = <<i[1], i[2]>>
      BY ItemParts
    <2>3. i[2] <= Made(i[1])' <=> i[2] <= Made(i[1]) \/ i = e
      <3>1. CASE i[1] = w
        <4>1. i = e <=> i[2] = next[w]
          BY <1>5, <2>2, <3>1
        <4>2. i[2] <= next[w] <=> i[2] <= next[w] - 1 \/ i[2] = next[w]
          BY <1>2, <2>2
        <4> QED  BY <1>9, <3>1, <4>1, <4>2
      <3>2. CASE i[1] # w
        <4>1. i # e
          BY <1>5, <2>2, <3>2
        <4> QED  BY <1>9, <2>2, <3>2, <4>1
      <3> QED  BY <3>1, <3>2
    <2>4. InLine(i)' <=> i = e \/ InLine(i)
      BY <1>7
    <2>5. Promised(i)' <=> Promised(i)
      BY <1>8
    <2> QED  BY <1>1, <2>1, <2>3, <2>4, <2>5
  <1> QED  BY <1>1, <1>10 DEF Accounted

\* A writer that hands over goes on to its next item.
LEMMA HandOverAccounts ==
    ASSUME Base, Accounted, NEW w \in Writers, Filled(w)
    PROVE  Accounted'
  <1>1. PICK to \in {"signal", "idle"} :
        /\ pc[w] = "store" /\ pc' = [pc EXCEPT ![w] = to] /\ next' = [next EXCEPT ![w] = next[w] + 1]
        /\ UNCHANGED <<line, due, received>>
    BY DEF Filled, Goto, history
  <1>2. Types /\ w \in Threads /\ w \notin Readers /\ next[w] \in Nat
    BY ThreadSets DEF Base, Types
  <1>3. /\ pc'[w] \notin Claiming /\ pc[w] \in Claiming /\ next'[w] = next[w] + 1
        /\ \A u \in Threads : u # w => pc'[u] = pc[u]
        /\ \A u \in Writers : u # w => next'[u] = next[u]
    BY <1>1, <1>2 DEF Types, Claiming
  <1>4. ASSUME NEW u \in Writers PROVE Made(u)' = Made(u)
    <2>1. CASE u = w
      BY <1>2, <1>3, <2>1 DEF Made
    <2>2. CASE u # w
      BY <1>3, <2>2, ThreadSets DEF Made
    <2> QED  BY <2>1, <2>2
  <1>5. \A i : InLine(i)' <=> InLine(i)
    BY <1>1 DEF InLine
  <1>6. \A i : Promised(i)' <=> Promised(i)
    <2>1. \A r \in Readers : pc'[r] = pc[r]
      BY <1>2, <1>3, ThreadSets
    <2> QED  BY <1>1, <2>1 DEF Promised
  <1>7. \A i \in Items : Made(i[1])' = Made(i[1])
    BY <1>4, ItemParts
  <1> QED  BY <1>1, <1>5, <1>6, <1>7 DEF Accounted

\* A reader receives what was due to it.
LEMMA FreeAccounts ==
    ASSUME Base, Positions, Accounted, NEW r \in Readers, Freed(r)
    PROVE  Accounted'
  <1>1. PICK to \in {"signal", "idle"} :
        /\ pc[r] = "store" /\ pc' = [pc EXCEPT ![r] = to] /\ due' = [due EXCEPT ![r] = NoItem]
        /\ received' = received \cup {result[r]} /\ UNCHANGED <<next, line>>
    BY DEF Freed, Goto
  <1>2. Types /\ Proper /\ r \in Threads /\ r \notin Writers
    BY ThreadSets DEF Base
  <1>3. /\ pc'[r] \notin Claiming /\ pc[r] \in Claiming
        /\ \A u \in Threads : u # r => pc'[u] = pc[u]
        /\ \A u \in Readers : u # r => due'[u] = due[u]
    BY <1>1, <1>2 DEF Types, Claiming
  <1>4. result[r] = due[r] /\ due[r] \in Items
    <2>1. result[r] = due[r]
      BY <1>1, ReadsWhatIsDue
    <2> QED  BY <1>2, <1>3, <2>1 DEF Proper
  <1>5. \A i : InLine(i)' <=> InLine(i)
    BY <1>1 DEF InLine
  <1>6. ASSUME NEW i PROVE Promised(i) <=> Promised(i)' \/ (Promised(i) /\ i = due[r])
    <2>1. \A u \in Readers : u # r => pc'[u] = pc[u] /\ due'[u] = due[u]
      BY <1>3, ThreadSets
    <2> QED  BY <1>3, <2>1 DEF Promised
  <1>7. Promised(due[r])
    BY <1>3 DEF Promised
  <1>8. \A w \in Writers : Made(w)' = Made(w)
    BY <1>1, <1>2, <1>3, ThreadSets DEF Made
  <1>9. ASSUME NEW i \in Items
        PROVE  i[2] <= Made(i[1])' <=> i \in received' \/ InLine(i)' \/ Promised(i)'
    <2>1. i[2] <= Made(i[1]) <=> i \in received \/ InLine(i) \/ Promised(i)
      BY DEF Accounted
    <2>2. Made(i[1])' = Made(i[1])
      BY <1>8, ItemParts
    <2>3. i \in received' <=> i \in received \/ i = due[r]
      BY <1>1, <1>4
    <2>4. Promised(i) <=> Promised(i)' \/ (Promised(i) /\ i = due[r])
      BY <1>6
    <2>5. i = due[r] => Promised(i)
      BY <1>7
    <2> QED  BY <1>5, <2>1, <2>2, <2>3, <2>4, <2>5
  <1>10. received' \subseteq Items
    BY <1>1, <1>4 DEF Accounted
  <1> QED  BY <1>9, <1>10 DEF Accounted

\* A queue that is made or used again has no items.
LEMMA NoItems ==
    ASSUME \A t \in Threads : pc[t] = "idle", \A w \in Writers : next[w] = 1,
           line = <<>>, received = {}
    PROVE  Accounted
  <1>1. \A i : ~InLine(i)
    <2>1. Len(line) = 0
      OBVIOUS
    <2> QED  BY <2>1 DEF InLine
  <1>2. \A i : ~Promised(i)
    BY ThreadSets DEF Promised, Claiming
  <1>3. \A i \in Items : ~(i[2] <= Made(i[1]))
    <2> SUFFICES ASSUME NEW i \in Items PROVE ~(i[2] <= Made(i[1]))
      OBVIOUS
    <2>1. i[1] \in Writers /\ i[2] \in Nat /\ i[2] >= 1
      BY ItemParts
    <2>2. Made(i[1]) = 0
      BY <2>1, ThreadSets DEF Made, Claiming
    <2> QED  BY <2>1, <2>2
  <1> QED  BY <1>1, <1>2, <1>3 DEF Accounted


\* The same of the next state.
LEMMA NoItemsNext ==
    ASSUME \A t \in Threads : pc'[t] = "idle", \A w \in Writers : next'[w] = 1,
           line' = <<>>, received' = {}
    PROVE  Accounted'
  <1>1. \A i : ~InLine(i)'
    <2>1. Len(line') = 0
      OBVIOUS
    <2> QED  BY <2>1 DEF InLine
  <1>2. \A i : ~Promised(i)'
    BY ThreadSets DEF Promised, Claiming
  <1>3. \A i \in Items : ~(i[2] <= Made(i[1])')
    <2> SUFFICES ASSUME NEW i \in Items PROVE ~(i[2] <= Made(i[1])')
      OBVIOUS
    <2>1. i[1] \in Writers /\ i[2] \in Nat /\ i[2] >= 1
      BY ItemParts
    <2>2. Made(i[1])' = 0
      BY <2>1, ThreadSets DEF Made, Claiming
    <2> QED  BY <2>1, <2>2
  <1> QED  BY <1>1, <1>2, <1>3 DEF Accounted

-----------------------------------------------------------------------------
(* The invariant, and what follows from it.                                   *)

Inv == Base /\ Positions /\ Ending /\ Accounted

\* It holds of a new queue.
LEMMA InvInit ==
    ASSUME Init
    PROVE  Inv
  <1>1. /\ \A t \in Threads : pc[t] = "idle"
        /\ \A w \in Writers : next[w] = 1
        /\ line = <<>> /\ received = {}
    BY DEF Init
  <1>2. Ending
    BY <1>1, ThreadSets DEF Ending, Ended
  <1>3. Accounted
    BY <1>1, NoItems
  <1> QED  BY <1>2, <1>3, BaseInit, PositionsInit DEF Inv

\* Steps aside keep the positions and the items.
LEMMA AsideKeeps ==
    ASSUME Inv, Base', Aside, Ending'
    PROVE  Inv'
  <1>1. Positions' /\ Accounted'
    BY AsideKeepsPositions, AsideAccounts DEF Inv
  <1> QED  BY <1>1 DEF Inv

\* A reader keeps it.
LEMMA InvReader ==
    ASSUME FieldsSuffice, Inv, NEW r \in Readers, Reader(r) \/ StopEarly(r)
    PROVE  Inv'
  <1>1. Base /\ Positions /\ Ending /\ Accounted
    BY DEF Inv
  <1>2. Ending'
    BY <1>1, ReaderEnding
  <1>3. CASE \/ DequeueBegin(r) \/ DequeueCheck(r) \/ DequeueLast(r)
             \/ Parked(r) \/ DequeueWait(r) \/ Woken(r)
    <2>1. Base' /\ Aside
      BY <1>1, <1>3, ReaderDecides
    <2> QED  BY <1>2, <2>1, AsideKeeps
  <1>4. CASE Park(r, WithReader(state))
    <2>1. Base' /\ Aside
      BY <1>1, <1>4, ReaderParks
    <2> QED  BY <1>2, <2>1, AsideKeeps
  <1>5. CASE DequeueWake(r)
    <2>1. Base' /\ Aside
      BY <1>1, <1>5, ReaderWakes
    <2> QED  BY <1>2, <2>1, AsideKeeps
  <1>6. CASE \/ SignalWriters(r, "signal", 1, "idle")
             \/ SignalWriters(r, "wake", state.writers, "done")
    <2>1. Base' /\ Aside
      BY <1>1, <1>6, ReaderSignals
    <2> QED  BY <1>2, <2>1, AsideKeeps
  <1>7. CASE ReaderStops(r)
    <2>1. Base' /\ Aside
      BY <1>1, <1>7, ReaderLeaves
    <2> QED  BY <1>2, <2>1, AsideKeeps
  <1>8. CASE StopEarly(r)
    <2>1. Base' /\ Aside
      BY <1>1, <1>8, ReaderQuits
    <2> QED  BY <1>2, <2>1, AsideKeeps
  <1>9. CASE DequeueTry(r) /\ state.count = 0
    <2>1. Base' /\ Aside
      BY <1>1, <1>9, ReaderFindsNone
    <2> QED  BY <1>2, <2>1, AsideKeeps
  <1>10. CASE DequeueTry(r) /\ state.count # 0
    <2>1. Base'
      BY <1>1, <1>10, ReaderClaims
    <2>2. Positions'
      BY <1>1, <1>10, ClaimToRead
    <2>3. Accounted'
      BY <1>1, <1>10, ClaimToReadAccounts
    <2> QED  BY <1>2, <2>1, <2>2, <2>3 DEF Inv
  <1>11. CASE Take(r)
    <2>1. Base'
      BY <1>1, <1>11, ReaderTakes
    <2>2. Positions'
      BY <1>1, <1>11, TakeInPlace
    <2>3. /\ r \in Threads /\ pc[r] = "slot" /\ pc' = [pc EXCEPT ![r] = "store"]
          /\ UNCHANGED <<line, due, next, received>>
      BY <1>11, ThreadSets DEF Take, Goto, history
    <2>4. Accounted'
      BY <1>1, <2>3, InPlaceAccounts
    <2> QED  BY <1>2, <2>1, <2>2, <2>4 DEF Inv
  <1>12. CASE Freed(r)
    <2>1. Base'
      BY <1>1, <1>12, ReaderFrees
    <2>2. Positions'
      BY <1>1, <1>12, FreeInPlace
    <2>3. Accounted'
      BY <1>1, <1>12, FreeAccounts
    <2> QED  BY <1>2, <2>1, <2>2, <2>3 DEF Inv
  <1> QED  BY <1>3, <1>4, <1>5, <1>6, <1>7, <1>8, <1>9, <1>10, <1>11, <1>12 DEF Reader

\* A writer keeps it.
LEMMA InvWriter ==
    ASSUME FieldsSuffice, Inv, NEW w \in Writers, Writer(w)
    PROVE  Inv'
  <1>1. Base /\ Positions /\ Ending /\ Accounted
    BY DEF Inv
  <1>2. Ending'
    BY <1>1, WriterEnding
  <1>3. CASE \/ EnqueueBegin(w) \/ EnqueueCheck(w) \/ Parked(w) \/ EnqueueWait(w) \/ Woken(w)
             \/ LastItem(w)
    <2>1. Base' /\ Aside
      BY <1>1, <1>3, WriterDecides
    <2> QED  BY <1>2, <2>1, AsideKeeps
  <1>4. CASE Park(w, WithWriter(state))
    <2>1. Base' /\ Aside /\ state'.readers = state.readers
      BY <1>1, <1>4, WriterParks
    <2> QED  BY <1>2, <2>1, AsideKeeps
  <1>5. CASE EnqueueWake(w)
    <2>1. Base' /\ Aside
      BY <1>1, <1>5, WriterWakes
    <2> QED  BY <1>2, <2>1, AsideKeeps
  <1>6. CASE \/ SignalReaders(w, "signal", 1, "idle")
             \/ SignalReaders(w, "wake", state.readers, "done")
    <2>1. Base' /\ Aside
      BY <1>1, <1>6, WriterSignals
    <2> QED  BY <1>2, <2>1, AsideKeeps
  <1>7. CASE WriterStops(w)
    <2>1. Base' /\ Aside
      BY <1>1, <1>7, WriterLeaves
    <2> QED  BY <1>2, <2>1, AsideKeeps
  <1>8. CASE EnqueueTry(w) /\ state.count = MaxItems
    <2>1. Base' /\ Aside
      BY <1>1, <1>8, WriterFindsNone
    <2> QED  BY <1>2, <2>1, AsideKeeps
  <1>9. CASE EnqueueTry(w) /\ state.count # MaxItems
    <2>1. Base'
      BY <1>1, <1>9, WriterClaims
    <2>2. Positions'
      BY <1>1, <1>9, ClaimToWrite
    <2>3. Accounted'
      BY <1>1, <1>9, ClaimToWriteAccounts
    <2> QED  BY <1>2, <2>1, <2>2, <2>3 DEF Inv
  <1>10. CASE Fill(w)
    <2>1. Base'
      BY <1>1, <1>10, WriterFills
    <2>2. Positions'
      BY <1>1, <1>10, FillInPlace
    <2>3. /\ w \in Threads /\ pc[w] = "slot" /\ pc' = [pc EXCEPT ![w] = "store"]
          /\ UNCHANGED <<line, due, next, received>>
      BY <1>10, ThreadSets DEF Fill, Goto, history
    <2>4. Accounted'
      BY <1>1, <2>3, InPlaceAccounts
    <2> QED  BY <1>2, <2>1, <2>2, <2>4 DEF Inv
  <1>11. CASE Filled(w)
    <2>1. Base'
      BY <1>1, <1>11, WriterHandsOver
    <2>2. Positions'
      BY <1>1, <1>11, HandOverInPlace
    <2>3. Accounted'
      BY <1>1, <1>11, HandOverAccounts
    <2> QED  BY <1>2, <2>1, <2>2, <2>3 DEF Inv
  <1> QED  BY <1>3, <1>4, <1>5, <1>6, <1>7, <1>8, <1>9, <1>10, <1>11 DEF Writer

\* Abort, reset and stuttering keep it.
LEMMA InvOthers ==
    ASSUME FieldsSuffice, Inv, Abort \/ AbortSignal \/ Reset \/ UNCHANGED vars
    PROVE  Inv'
  <1>1. Base /\ Positions /\ Ending /\ Accounted
    BY DEF Inv
  <1>2. CASE Abort \/ AbortSignal
    <2>1. Base' /\ Aside
      BY <1>1, <1>2, Aborts
    <2>2. aborted'
      BY <1>1, <1>2 DEF Abort, AbortSignal, Base, Proper
    <2>3. Ending'
      BY <2>2 DEF Ending
    <2> QED  BY <2>1, <2>3, AsideKeeps
  <1>3. CASE Reset
    <2>1. /\ \A t \in Threads : pc'[t] = "idle"
          /\ \A w \in Writers : next'[w] = 1
          /\ line' = <<>> /\ received' = {}
      BY <1>3 DEF Reset
    <2>2. Base'
      BY <1>1, <1>3, BaseReset
    <2>3. Positions'
      BY <1>1, <1>3, ResetInPlace
    <2>4. Ending'
      BY <2>1, ThreadSets DEF Ending, Ended
    <2>5. Accounted'
      BY <2>1, NoItemsNext
    <2> QED  BY <2>2, <2>3, <2>4, <2>5 DEF Inv
  <1>4. CASE UNCHANGED vars
    <2>1. /\ UNCHANGED <<state, slot, readTokens, writeTokens, activeReaders, activeWriters>>
          /\ UNCHANGED <<aborted, pc, cur, next, result, apc, cuts, resets, line, due, received, early>>
      BY <1>4 DEF vars, tokens, active, counters, history
    <2>2. NumItems' = NumItems
      BY <2>1 DEF NumItems
    <2>3. Types'
      BY <1>1, <2>1 DEF Types, Base
    <2>4. Proper'
      BY <1>1, <2>1, <2>2 DEF Proper, Base
    <2>5. WillSignalReader' = WillSignalReader /\ WillSignalWriter' = WillSignalWriter
      BY <2>1 DEF WillSignalReader, WillSignalWriter
    <2>6. \A S, M : CountAt(S, M)' = CountAt(S, M)
      BY <2>1 DEF CountAt
    <2>7. ReaderSide' <=> ReaderSide
      BY <2>1, <2>5, <2>6 DEF ReaderSide, Sided
    <2>8. WriterSide' <=> WriterSide
      BY <2>1, <2>5, <2>6 DEF WriterSide, Sided
    <2>9. Actives' <=> Actives
      BY <2>1, <2>6 DEF Actives
    <2>10. Base'
      BY <1>1, <2>3, <2>4, <2>7, <2>8, <2>9 DEF Base, Counts
    <2>11. Ending'
      BY <1>1, <2>1, <2>2 DEF Ending
    <2>12. Aside
      BY <2>1 DEF Aside
    <2> QED  BY <2>10, <2>11, <2>12, AsideKeeps
  <1> QED  BY <1>2, <1>3, <1>4

\* Every step keeps it.
LEMMA InvNext ==
    ASSUME FieldsSuffice, Inv, [Next]_vars
    PROVE  Inv'
  <1>1. ASSUME NEW w \in Writers, Writer(w) PROVE Inv'
    BY <1>1, InvWriter
  <1>2. ASSUME NEW r \in Readers, Reader(r) \/ StopEarly(r) PROVE Inv'
    BY <1>2, InvReader
  <1>3. CASE Abort \/ AbortSignal \/ Reset \/ UNCHANGED vars
    BY <1>3, InvOthers
  <1> QED  BY <1>1, <1>2, <1>3 DEF Next


\* Nobody but a thread itself, by parking, gets it from about to wait to counted.
LEMMA ParksItself ==
    ASSUME Types, NEW t \in Threads, pc[t] = "park", pc'[t] = "parked", [Next]_vars
    PROVE  /\ t \in Readers => Park(t, WithReader(state))
           /\ t \in Writers => Park(t, WithWriter(state))
  <1>1. ASSUME NEW u \in Threads, NEW from, NEW to, pc[u] = from, Goto(u, to), from # "park"
        PROVE  FALSE
    <2>1. u # t
      BY <1>1
    <2> QED  BY <1>1, <2>1 DEF Goto, Types
  <1>2. ASSUME NEW w \in Writers, Writer(w), ~Park(w, WithWriter(state)) PROVE FALSE
    <2>1. w \in Threads
      BY ThreadSets
    <2>2. \E from \in Places : \E to \in Places : pc[w] = from /\ Goto(w, to) /\ from # "park"
      BY <1>2 DEF Writer, EnqueueBegin, EnqueueTry, EnqueueCheck, Parked, EnqueueWait, EnqueueWake, Woken,
           Fill, Filled, SignalReaders, LastItem, WriterStops, Unless, Step, Places
    <2> QED  BY <1>1, <2>1, <2>2
  <1>3. ASSUME NEW r \in Readers, Reader(r) \/ StopEarly(r), ~Park(r, WithReader(state)) PROVE FALSE
    <2>1. r \in Threads
      BY ThreadSets
    <2>2. \E from \in Places : \E to \in Places : pc[r] = from /\ Goto(r, to) /\ from # "park"
      BY <1>3 DEF Reader, DequeueBegin, DequeueTry, DequeueCheck, DequeueLast, Parked, DequeueWait,
           DequeueWake, Woken, Take, Freed, SignalWriters, ReaderStops, StopEarly, Unless, Step, Places
    <2> QED  BY <1>1, <2>1, <2>2
  <1>4. ASSUME NEW u \in Threads, NEW s, Park(u, s), u # t PROVE FALSE
    BY <1>4 DEF Park, Goto, Types
  <1>5. ~Abort /\ ~AbortSignal /\ ~UNCHANGED vars
    BY DEF Abort, AbortSignal, vars
  <1>6. ~Reset
    BY DEF Reset
  <1>7. \/ \E w \in Writers : Writer(w)
        \/ \E r \in Readers : Reader(r) \/ StopEarly(r)
    BY <1>5, <1>6 DEF Next
  <1> QED  BY <1>2, <1>3, <1>4, <1>7, ThreadSets

-----------------------------------------------------------------------------
(* The theorems.                                                              *)

\* The invariant holds of every state: the word counts whoever waits, every position of
\* the queue has its slot and every item is accounted for.
THEOREM Invariance ==
    ASSUME FieldsSuffice
    PROVE  Spec => []Inv
  <1>1. Init => Inv
    BY InvInit
  <1>2. Inv /\ [Next]_vars => Inv'
    BY InvNext
  <1> QED  BY <1>1, <1>2, PTL DEF Spec

\* No wake-up of a waiting reader or writer is lost, and the counts of the word stay
\* inside their fields, whatever the readers, the writers and the sizes are.
THEOREM NoWakeUpLost ==
    ASSUME FieldsSuffice
    PROVE  Spec => []WaitersCovered
  <1>1. Inv => WaitersCovered
    <2> SUFFICES ASSUME Inv PROVE WaitersCovered
      OBVIOUS
    <2>1. Types /\ ReaderSide /\ WriterSide /\ Actives /\ received \subseteq Items
      BY DEF Inv, Base, Counts, Accounted
    <2>2. CountAt(Readers, Active) \in Nat /\ CountAt(Readers, Active) <= Cardinality(Readers)
      BY <2>1, CountTypes
    <2>3. CountAt(Writers, Active) \in Nat /\ CountAt(Writers, Active) <= Cardinality(Writers)
      BY <2>1, CountTypes
    <2>4. /\ activeReaders \in 0 .. Cardinality(Readers)
          /\ activeWriters \in 0 .. Cardinality(Writers)
      BY <2>1, <2>2, <2>3, ThreadSets DEF Actives
    <2>5. TypeOK
      BY <2>1, <2>4 DEF TypeOK, Types, Places, Slots, Cells, ItemOrNone
    <2>6. /\ Waiting(Readers) = {t \in Readers : pc[t] \in Sleepers}
          /\ Waiting(Writers) = {t \in Writers : pc[t] \in Sleepers}
      BY DEF Waiting, Sleepers
    <2>7. /\ Cardinality(Waiting(Readers)) = CountAt(Readers, Sleepers)
          /\ Cardinality(Waiting(Writers)) = CountAt(Writers, Sleepers)
      BY <2>6 DEF CountAt
    <2>8. Cardinality(Waiting(Readers)) <= state.readers + readTokens + Cardinality(WillSignalReader)
      BY <2>1, <2>7 DEF ReaderSide, Sided
    <2>9. Cardinality(Waiting(Writers)) <= state.writers + writeTokens + Cardinality(WillSignalWriter)
      BY <2>1, <2>7 DEF WriterSide, Sided
    <2> QED  BY <2>5, <2>8, <2>9 DEF WaitersCovered
  <1> QED  BY <1>1, Invariance, PTL

\* Every reader gets the item that was enqueued at the position it has claimed, although
\* slots are filled and emptied later, in any order, and their numbers wrap.
THEOREM ReadInOrder ==
    ASSUME FieldsSuffice
    PROVE  Spec => []DequeuesInOrder
  <1>1. Inv => DequeuesInOrder
    BY ReadsWhatIsDue DEF Inv, DequeuesInOrder
  <1> QED  BY <1>1, Invariance, PTL

\* A thread that has seen its slot ready is the only one to touch it until it has
\* updated the slot's number.
THEOREM SlotsAreExclusive ==
    ASSUME FieldsSuffice
    PROVE  Spec => []SlotsExclusive
  <1>1. Inv => SlotsExclusive
    <2> SUFFICES ASSUME Inv, NEW t \in Threads, NEW u \in Threads,
                        t # u, pc[t] = "store", pc[u] = "store", ClaimedSlot(t) = ClaimedSlot(u)
                 PROVE  FALSE
      BY DEF SlotsExclusive
    <2>1. PICK D, pos, num, fill, it : Placed(D, pos, num, fill, it)
      BY DEF Inv, Positions
    <2>2. pos \in [Threads -> Nat]
      BY <2>1 DEF Placed, Ghosts
    <2>3. ASSUME NEW v \in Threads, pc[v] = "store"
          PROVE  /\ ClaimedSlot(v) = SlotOf(pos[v]) /\ num[SlotOf(pos[v])] = pos[v]
                 /\ fill[SlotOf(pos[v])] = IF v \in Readers THEN 1 ELSE 0
      <3>1. pos[v] \in Int
        BY <2>2
      <3>2. SlotOf(Seq1(pos[v])) = SlotOf(pos[v])
        BY <3>1, Wraps
      <3>3. CASE v \in Readers
        <4>1. ReaderAt(v, D, pos, num, fill, it)
          BY <2>1, <2>3, <3>3 DEF Placed, ThreadsAt, Claiming
        <4> QED  BY <2>3, <3>2, <3>3, <4>1 DEF ReaderAt, ClaimedSlot
      <3>4. CASE v \in Writers
        <4>1. WriterAt(v, D, pos, num, fill, it) /\ v \notin Readers
          BY <2>1, <2>3, <3>4, ThreadSets DEF Placed, ThreadsAt, Claiming
        <4> QED  BY <2>3, <3>2, <3>4, <4>1 DEF WriterAt, ClaimedSlot
      <3> QED  BY <3>3, <3>4 DEF Threads
    <2>4. /\ ClaimedSlot(t) = SlotOf(pos[t]) /\ num[SlotOf(pos[t])] = pos[t]
          /\ fill[SlotOf(pos[t])] = IF t \in Readers THEN 1 ELSE 0
      BY <2>3
    <2>5. /\ ClaimedSlot(u) = SlotOf(pos[u]) /\ num[SlotOf(pos[u])] = pos[u]
          /\ fill[SlotOf(pos[u])] = IF u \in Readers THEN 1 ELSE 0
      BY <2>3
    <2>6. pos[t] = pos[u] /\ (t \in Readers <=> u \in Readers)
      <3>1. SlotOf(pos[t]) = SlotOf(pos[u])
        BY <2>4, <2>5
      <3>2. pos[t] = pos[u]
        BY <2>4, <2>5, <3>1
      <3>3. (IF t \in Readers THEN 1 ELSE 0) = (IF u \in Readers THEN 1 ELSE 0)
        BY <2>4, <2>5, <3>1
      <3>4. t \in Readers <=> u \in Readers
        BY <3>3
      <3> QED  BY <3>2, <3>4
    <2>7. \E S \in {Readers, Writers} : t \in S /\ u \in S
      BY <2>6 DEF Threads
    <2> QED  BY <2>1, <2>6, <2>7 DEF Placed, Apart, Claiming
  <1> QED  BY <1>1, Invariance, PTL

\* Adding a waiting thread to the word never carries into the next field, as long as
\* the fields can hold the threads of every use of the queue since it was made.
THEOREM CountsDoNotCarry ==
    ASSUME FieldsSuffice
    PROVE  Spec => NeverOverflows
  <1>1. Inv /\ [Next]_vars =>
          [/\ \A r \in Readers : pc[r] = "park" /\ pc'[r] = "parked" => state'.deq = state.deq
           /\ \A w \in Writers : pc[w] = "park" /\ pc'[w] = "parked" => state'.readers = state.readers]_vars
    <2> SUFFICES ASSUME Inv, [Next]_vars
                 PROVE  /\ \A r \in Readers : pc[r] = "park" /\ pc'[r] = "parked" => state'.deq = state.deq
                        /\ \A w \in Writers : pc[w] = "park" /\ pc'[w] = "parked"
                                                => state'.readers = state.readers
      OBVIOUS
    <2>1. Base /\ Types
      BY DEF Inv, Base
    <2>2. ASSUME NEW r \in Readers, pc[r] = "park", pc'[r] = "parked" PROVE state'.deq = state.deq
      <3>1. r \in Threads
        BY ThreadSets
      <3>2. /\ r \in Readers => Park(r, WithReader(state))
            /\ r \in Writers => Park(r, WithWriter(state))
        BY <2>1, <2>2, <3>1, ParksItself
      <3>3. Base' /\ Aside
        BY <2>1, <3>2, ReaderParks
      <3> QED  BY <3>3 DEF Aside
    <2>3. ASSUME NEW w \in Writers, pc[w] = "park", pc'[w] = "parked"
          PROVE  state'.readers = state.readers
      <3>1. w \in Threads
        BY ThreadSets
      <3>2. /\ w \in Readers => Park(w, WithReader(state))
            /\ w \in Writers => Park(w, WithWriter(state))
        BY <2>1, <2>3, <3>1, ParksItself
      <3>3. Base' /\ Aside /\ state'.readers = state.readers
        BY <2>1, <3>2, WriterParks
      <3> QED  BY <3>3
    <2> QED  BY <2>2, <2>3
  <1> QED  BY <1>1, Invariance, PTL DEF Spec, NeverOverflows

\* If nobody aborted or stopped early, every item of every writer has been received when
\* all threads have ended.
THEOREM EverythingReceived ==
    ASSUME FieldsSuffice
    PROVE  Spec => []AllReceived
  <1>1. Inv => AllReceived
    <2> SUFFICES ASSUME Inv, AllDone, ~aborted, ~early
                 PROVE  received = Writers \X (1 .. NumItems)
      BY DEF AllReceived
    <2>1. Base /\ Ending /\ Accounted /\ \A t \in Threads : pc[t] = "done"
      BY DEF Inv, AllDone
    <2>2. PICK r \in Readers : TRUE
      BY QueueAssumption
    <2>3. state.count = 0 /\ \A w \in Writers : next[w] > NumItems
      BY <2>1, <2>2, ThreadSets DEF Ending, Ended
    <2>4. \A w \in Writers : next[w] \in Nat /\ next[w] <= NumItems + 1
      BY <2>1 DEF Base, Types, Proper
    <2>5. NumItems \in Nat /\ 1 .. NumItems \subseteq Numbers
      BY Widths DEF NumItems, Numbers
    <2>6. \A w \in Writers : Made(w) = NumItems
      <3> SUFFICES ASSUME NEW w \in Writers PROVE Made(w) = NumItems
        OBVIOUS
      <3>1. Made(w) = next[w] - 1
        BY <2>1, ThreadSets DEF Made, Claiming
      <3> QED  BY <2>3, <2>4, <2>5, <3>1
    <2>7. \A i : ~InLine(i) /\ ~Promised(i)
      <3>1. Len(line) = 0
        BY <2>1, <2>3 DEF Base, Proper
      <3>2. \A i : ~InLine(i)
        BY <3>1 DEF InLine
      <3>3. \A i : ~Promised(i)
        BY <2>1, ThreadSets DEF Promised, Claiming
      <3> QED  BY <3>2, <3>3
    <2>8. \A i \in Items : i \in received <=> i[2] <= NumItems
      <3> SUFFICES ASSUME NEW i \in Items PROVE i \in received <=> i[2] <= NumItems
        OBVIOUS
      <3>1. Made(i[1]) = NumItems
        BY <2>6, ItemParts
      <3> QED  BY <2>1, <2>7, <3>1 DEF Accounted
    <2>9. ASSUME NEW i \in received PROVE i \in Writers \X (1 .. NumItems)
      <3>1. i \in Items
        BY <2>1 DEF Accounted
      <3>2. i[2] <= NumItems
        BY <2>8, <3>1
      <3>3. i[1] \in Writers /\ i[2] \in Nat /\ i[2] >= 1 /\ i = <<i[1], i[2]>>
        BY <3>1, ItemParts
      <3>4. i[2] \in 1 .. NumItems
        BY <2>5, <3>2, <3>3
      <3> QED  BY <3>3, <3>4
    <2>10. ASSUME NEW i \in Writers \X (1 .. NumItems) PROVE i \in received
      <3>1. i \in Items
        BY <2>5 DEF Items
      <3>2. i[2] <= NumItems
        BY <2>5
      <3> QED  BY <2>8, <3>1, <3>2
    <2> QED  BY <2>9, <2>10
  <1> QED  BY <1>1, Invariance, PTL
=============================================================================
