------------------------- MODULE TaskScheduler_proofs -------------------------
(* The task scheduler runs every task once and loses none, for any number of  *)
(* processors and of tasks, any size of stack and any width of its numbers.   *)
EXTENDS TaskScheduler, FiniteSetTheorems, TLAPS

-----------------------------------------------------------------------------
(* Numbers that wrap around.                                                  *)

\* The remainder lies below the modulus.
LEMMA ModRange ==
    ASSUME NEW N \in Nat \ {0}, NEW a \in Int
    PROVE  a % N \in 0 .. N - 1
  OBVIOUS

\* Every number is a multiple of the modulus and a remainder.
LEMMA ModSplit ==
    ASSUME NEW N \in Nat \ {0}, NEW a \in Int
    PROVE  \E q \in Int, r \in 0 .. N - 1 : a = N * q + r /\ a % N = r
  <1>1. ASSUME NEW x, x = a \div N, NEW y, y = a % N
        PROVE  x \in Int /\ y \in 0 .. N - 1 /\ a = N * x + y
    BY <1>1
  <1> DEFINE x == a \div N
             y == a % N
  <1>2. x \in Int /\ y \in 0 .. N - 1 /\ a = N * x + y
    BY <1>1
  <1>3. a % N = y
    OBVIOUS
  <1> HIDE DEF x, y
  <1> QED  BY <1>2, <1>3

\* The remainder is the only one.
LEMMA ModUnique ==
    ASSUME NEW N \in Nat \ {0}, NEW a \in Int, NEW q \in Int, NEW r \in 0 .. N - 1,
           a = N * q + r
    PROVE  a % N = r
  OBVIOUS

\* A number below the modulus is its own remainder.
LEMMA ModSmall ==
    ASSUME NEW N \in Nat \ {0}, NEW a \in 0 .. N - 1
    PROVE  a % N = a
  OBVIOUS

\* A multiple of the modulus does not change the remainder.
LEMMA ModMultiple ==
    ASSUME NEW N \in Nat \ {0}, NEW a \in Int, NEW b \in Int, NEW k \in Int, b = N * k + a
    PROVE  b % N = a % N
  <1>1. PICK q \in Int, r \in 0 .. N - 1 : a = N * q + r /\ a % N = r
    BY ModSplit
  <1>2. k + q \in Int /\ N * (k + q) = N * k + N * q
    OBVIOUS
  <1>3. b = N * (k + q) + r
    BY <1>1, <1>2
  <1>4. b % N = r
    BY <1>2, <1>3, ModUnique
  <1> QED  BY <1>1, <1>4

\* Equal remainders of numbers less than the modulus apart: they are equal.
LEMMA ModSame ==
    ASSUME NEW N \in Nat \ {0}, NEW a \in Int, NEW b \in Int,
           a % N = b % N, a <= b, b < a + N
    PROVE  a = b
  <1>1. PICK p \in Int, r \in 0 .. N - 1 : a = N * p + r /\ a % N = r
    BY ModSplit
  <1>2. PICK q \in Int, t \in 0 .. N - 1 : b = N * q + t /\ b % N = t
    BY ModSplit
  <1>3. r = t
    BY <1>1, <1>2
  <1> DEFINE d == q - p
  <1>4. d \in Int /\ q = p + d
    OBVIOUS
  <1> HIDE DEF d
  <1>5. N * q = N * p + N * d
    BY <1>4
  <1>6. b - a = N * d
    BY <1>1, <1>2, <1>3, <1>4, <1>5
  <1>7. d >= 1 => N * d >= N
    BY <1>4
  <1>8. d <= 0 - 1 => N * d <= 0 - N
    BY <1>4
  <1>9. d = 0
    BY <1>4, <1>6, <1>7, <1>8
  <1> QED  BY <1>4, <1>6, <1>9

\* Adding before or after the wrap around is the same.
LEMMA ModAdd ==
    ASSUME NEW N \in Nat \ {0}, NEW a \in Int, NEW b \in Int
    PROVE  ((a % N) + b) % N = (a + b) % N
  <1>1. PICK q \in Int, r \in 0 .. N - 1 : a = N * q + r /\ a % N = r
    BY ModSplit
  <1>2. a + b = N * q + (r + b) /\ r + b \in Int /\ a + b \in Int
    BY <1>1
  <1>3. (a + b) % N = (r + b) % N
    BY <1>2, ModMultiple
  <1> QED  BY <1>1, <1>3

\* A step back before or after the wrap around is the same.
LEMMA ModBack ==
    ASSUME NEW N \in Nat \ {0}, NEW a \in Int, NEW b \in Int
    PROVE  ((a % N) + N - b) % N = (a - b) % N
  <1>1. PICK q \in Int, r \in 0 .. N - 1 : a = N * q + r /\ a % N = r
    BY ModSplit
  <1> DEFINE x == a - b
             y == r + N - b
  <1>2. x \in Int /\ y \in Int /\ 1 - q \in Int /\ N * (1 - q) = N - N * q
    OBVIOUS
  <1>3. y = N * (1 - q) + x
    BY <1>1, <1>2
  <1> HIDE DEF x, y
  <1>4. y % N = x % N
    BY <1>2, <1>3, ModMultiple
  <1> QED  BY <1>1, <1>4 DEF x, y

\* The distance of two numbers less than the modulus apart.
LEMMA ModDistance ==
    ASSUME NEW N \in Nat \ {0}, NEW s \in Int, NEW e \in Int, s <= e, e < s + N
    PROVE  ((e % N) + N - (s % N)) % N = e - s
  <1>1. PICK q \in Int, r \in 0 .. N - 1 : s = N * q + r /\ s % N = r
    BY ModSplit
  <1> DEFINE d == e - s
             x == e - r
  <1>0. r \in Int
    OBVIOUS
  <1>2. ((e % N) + N - r) % N = (e - r) % N
    BY <1>0, ModBack
  <1>3. d \in 0 .. N - 1 /\ x \in Int /\ x = N * q + d
    BY <1>1
  <1> HIDE DEF d, x
  <1>4. x % N = d
    BY <1>3, ModUnique
  <1>5. (e - r) % N = e - s
    BY <1>4 DEF d, x
  <1>6. ((e % N) + N - r) % N = e - s
    BY <1>2, <1>5
  <1>7. s % N = r
    BY <1>1
  <1> QED  BY <1>6, <1>7

\* The remainder by a divisor of the modulus can be taken after the wrap around.
LEMMA ModDivisor ==
    ASSUME NEW N \in Nat \ {0}, NEW K \in Nat \ {0}, N % K = 0, NEW a \in Int
    PROVE  (a % N) % K = a % K
  <1>1. PICK q \in Int, m \in 0 .. N - 1 : a = N * q + m /\ a % N = m
    BY ModSplit
  <1>0. N \in Int
    OBVIOUS
  <1>2. PICK k \in Int, r \in 0 .. K - 1 : N = K * k + r /\ N % K = r
    BY <1>0, ModSplit
  <1>3. N = K * k
    BY <1>2
  <1> DEFINE j == k * q
  <1>4. j \in Int /\ N * q = K * j
    BY <1>3
  <1> HIDE DEF j
  <1>5. m \in Int /\ a = K * j + m
    BY <1>1, <1>4
  <1>6. a % K = m % K
    BY <1>4, <1>5, ModMultiple
  <1> QED  BY <1>1, <1>6

-----------------------------------------------------------------------------
(* Counting.                                                                  *)

\* Sets that agree but for one element differ by one in size, or not at all.
LEMMA CountChange ==
    ASSUME NEW S, IsFiniteSet(S), NEW A, NEW B, A \subseteq S, B \subseteq S,
           NEW x, \A y \in S : y # x => (y \in A <=> y \in B)
    PROVE  /\ Cardinality(A) \in Nat /\ Cardinality(B) \in Nat
           /\ Cardinality(B) = Cardinality(A) + (IF x \in B THEN 1 ELSE 0)
                                              - (IF x \in A THEN 1 ELSE 0)
  <1>1. IsFiniteSet(A) /\ IsFiniteSet(B)
    BY FS_Subset
  <1>2. Cardinality(A) \in Nat /\ Cardinality(B) \in Nat
    BY <1>1, FS_CardinalityType
  <1>3. CASE x \in A <=> x \in B
    <2>1. A = B
      BY <1>3
    <2> QED  BY <1>2, <1>3, <2>1
  <1>4. CASE x \in A /\ x \notin B
    <2>1. A = B \cup {x}
      BY <1>4
    <2>2. Cardinality(A) = Cardinality(B) + 1
      BY <1>1, <1>4, <2>1, FS_AddElement
    <2> QED  BY <1>2, <1>4, <2>2
  <1>5. CASE x \notin A /\ x \in B
    <2>1. B = A \cup {x}
      BY <1>5
    <2>2. Cardinality(B) = Cardinality(A) + 1
      BY <1>1, <1>5, <2>1, FS_AddElement
    <2> QED  BY <1>2, <1>5, <2>2
  <1> QED  BY <1>3, <1>4, <1>5

\* The size of a part of a finite set, and when it is zero.
LEMMA CountBounds ==
    ASSUME NEW S, IsFiniteSet(S), NEW A, A \subseteq S
    PROVE  /\ IsFiniteSet(A) /\ Cardinality(A) \in Nat /\ Cardinality(S) \in Nat
           /\ Cardinality(A) <= Cardinality(S)
           /\ Cardinality(A) = 0 <=> A = {}
  <1>1. A \in SUBSET S
    OBVIOUS
  <1>2. IsFiniteSet(A) /\ Cardinality(A) <= Cardinality(S)
    BY <1>1, FS_Subset
  <1>3. Cardinality(A) \in Nat /\ Cardinality(S) \in Nat
    BY <1>2, FS_CardinalityType
  <1>4. Cardinality(A) = 0 <=> A = {}
    BY <1>2, FS_EmptySet
  <1> QED  BY <1>2, <1>3, <1>4

-----------------------------------------------------------------------------
(* The numbers of a stack, counted from where they began.                     *)

Numbers == 0 .. SeqSpace - 1

Offset(x) == (x + SeqSpace - FirstSeq) % SeqSpace

\* The slot of the entry with offset n.
Position(n) == (FirstSeq + n) % StackSize

\* What the arithmetic needs of the constants.
LEMMA Widths ==
    /\ SeqSpace \in Nat \ {0} /\ StackSize \in Nat \ {0} /\ StackSize < SeqSpace
    /\ SeqSpace \in Int /\ StackSize \in Int
    /\ FirstSeq \in Nat /\ FirstSeq \in Int /\ FirstSeq < SeqSpace /\ SeqSpace % StackSize = 0
  BY SchedulerAssumption

\* An offset is a number itself, and x is the first number plus its offset.
LEMMA OffsetOf ==
    ASSUME NEW x \in Numbers
    PROVE  Offset(x) \in Numbers /\ x = (FirstSeq + Offset(x)) % SeqSpace
  <1> DEFINE y == x + SeqSpace - FirstSeq
  <1>1. y \in Int /\ FirstSeq \in Int
    BY Widths DEF Numbers
  <1>2. y % SeqSpace \in 0 .. SeqSpace - 1
    BY <1>1, Widths, ModRange
  <1>3. ((y % SeqSpace) + FirstSeq) % SeqSpace = (y + FirstSeq) % SeqSpace
    BY <1>1, Widths, ModAdd
  <1>4. y + FirstSeq = SeqSpace * 1 + x /\ 1 \in Int /\ x \in Int /\ y + FirstSeq \in Int
    BY Widths DEF Numbers
  <1>5. (y + FirstSeq) % SeqSpace = x % SeqSpace
    BY <1>4, Widths, ModMultiple
  <1>6. x % SeqSpace = x
    BY Widths, ModSmall DEF Numbers
  <1>7. Offset(x) \in Numbers /\ (Offset(x) + FirstSeq) % SeqSpace = x
    BY <1>2, <1>3, <1>5, <1>6 DEF Offset, Numbers
  <1>8. Offset(x) + FirstSeq = FirstSeq + Offset(x)
    BY <1>7, Widths DEF Numbers
  <1> QED  BY <1>7, <1>8

\* Equal offsets are of equal numbers.
LEMMA OffsetInjective ==
    ASSUME NEW x \in Numbers, NEW y \in Numbers, Offset(x) = Offset(y)
    PROVE  x = y
  BY OffsetOf

\* The number with a given offset.
LEMMA OffsetIs ==
    ASSUME NEW z \in Int, NEW n \in Numbers, NEW x \in Int, x = z % SeqSpace,
           NEW k \in Int, z = SeqSpace * k + (FirstSeq + n)
    PROVE  x \in Numbers /\ Offset(x) = n
  <1>1. x \in Numbers
    BY ModRange, Widths DEF Numbers
  <1>2. FirstSeq + n \in Int /\ n \in Int
    BY Widths DEF Numbers
  <1>3. x = (FirstSeq + n) % SeqSpace
    BY <1>2, ModMultiple, Widths
  <1> DEFINE c == FirstSeq + n
  <1> HIDE DEF c
  <1>a. c \in Int
    BY <1>2 DEF c
  <1>4. ((c % SeqSpace) + SeqSpace - FirstSeq) % SeqSpace = (c - FirstSeq) % SeqSpace
    BY <1>a, ModBack, Widths
  <1>5. c - FirstSeq = n
    BY <1>2, Widths DEF c
  <1>6. n % SeqSpace = n
    BY ModSmall, Widths DEF Numbers
  <1>7. x = c % SeqSpace
    BY <1>3 DEF c
  <1> QED  BY <1>1, <1>7, <1>4, <1>5, <1>6 DEF Offset

\* A step forward adds one, as long as the numbers have not come around.
LEMMA OffsetPlus ==
    ASSUME NEW x \in Numbers, Offset(x) + 1 < SeqSpace
    PROVE  Plus1(x) \in Numbers /\ Offset(Plus1(x)) = Offset(x) + 1
  <1>1. Offset(x) \in Numbers /\ x = (FirstSeq + Offset(x)) % SeqSpace
    BY OffsetOf
  <1> DEFINE o == Offset(x)
             z == FirstSeq + o + 1
             c == FirstSeq + o
  <1>2. o \in Int /\ o + 1 \in Numbers /\ FirstSeq + o \in Int
    BY <1>1, Widths DEF Numbers
  <1> HIDE DEF o, c
  <1>a. c \in Int /\ 1 \in Int
    BY <1>2 DEF c
  <1>3. ((c % SeqSpace) + 1) % SeqSpace = (c + 1) % SeqSpace
    BY <1>a, ModAdd, Widths
  <1>4. Plus1(x) = z % SeqSpace
    BY <1>1, <1>3 DEF Plus1, o, c
  <1>5. z \in Int /\ 0 \in Int /\ z = SeqSpace * 0 + (FirstSeq + (o + 1))
    BY <1>2, Widths
  <1>6. Plus1(x) \in Int
    BY <1>4, <1>5, ModRange, Widths
  <1>7. Plus1(x) \in Numbers /\ Offset(Plus1(x)) = o + 1
    BY <1>2, <1>4, <1>5, <1>6, OffsetIs
  <1> QED  BY <1>7 DEF o

\* A step back takes one away, unless it is before the beginning.
LEMMA OffsetMinus ==
    ASSUME NEW x \in Numbers, Offset(x) > 0
    PROVE  Minus1(x) \in Numbers /\ Offset(Minus1(x)) = Offset(x) - 1
  <1>1. Offset(x) \in Numbers /\ x = (FirstSeq + Offset(x)) % SeqSpace
    BY OffsetOf
  <1> DEFINE o == Offset(x)
             z == FirstSeq + o - 1
             c == FirstSeq + o
  <1>2. o \in Int /\ o - 1 \in Numbers /\ FirstSeq + o \in Int
    BY <1>1, Widths DEF Numbers
  <1> HIDE DEF o, c
  <1>a. c \in Int /\ 1 \in Int
    BY <1>2 DEF c
  <1>3. ((c % SeqSpace) + SeqSpace - 1) % SeqSpace = (c - 1) % SeqSpace
    BY <1>a, ModBack, Widths
  <1>4. Minus1(x) = z % SeqSpace
    <2>1. x = c % SeqSpace
      BY <1>1 DEF o, c
    <2>2. Minus1(x) = (c - 1) % SeqSpace
      BY <1>3, <2>1 DEF Minus1
    <2>3. c - 1 = z
      BY <1>2, Widths DEF c
    <2> QED  BY <2>2, <2>3
  <1>5. z \in Int /\ 0 \in Int /\ z = SeqSpace * 0 + (FirstSeq + (o - 1))
    BY <1>2, Widths
  <1>6. Minus1(x) \in Int
    BY <1>4, <1>5, ModRange, Widths
  <1>7. Minus1(x) \in Numbers /\ Offset(Minus1(x)) = o - 1
    BY <1>2, <1>4, <1>5, <1>6, OffsetIs
  <1> QED  BY <1>7 DEF o

\* The results of steps are numbers, wherever they are.
LEMMA StepNumbers ==
    ASSUME NEW x \in Numbers
    PROVE  Plus1(x) \in Numbers /\ Minus1(x) \in Numbers
  <1>1. x + 1 \in Int /\ x + SeqSpace - 1 \in Int
    BY Widths DEF Numbers
  <1> QED  BY <1>1, ModRange, Widths DEF Plus1, Minus1, Numbers

\* Numbers wrap around where slots do.
LEMMA IndexOffset ==
    ASSUME NEW x \in Numbers
    PROVE  Index(x) = Position(Offset(x))
  <1>1. x = (FirstSeq + Offset(x)) % SeqSpace /\ FirstSeq + Offset(x) \in Int
    BY OffsetOf, Widths DEF Numbers
  <1>2. ((FirstSeq + Offset(x)) % SeqSpace) % StackSize = (FirstSeq + Offset(x)) % StackSize
    BY <1>1, ModDivisor, Widths
  <1> QED  BY <1>1, <1>2 DEF Index, Position

\* A slot exists for every entry, and entries less than the size of the stack
\* apart have slots of their own.
LEMMA PositionsApart ==
    ASSUME NEW n \in Nat, NEW m \in Nat
    PROVE  /\ Position(n) \in 0 .. StackSize - 1
           /\ n < m /\ m < n + StackSize => Position(n) # Position(m)
  <1>1. FirstSeq + n \in Int /\ FirstSeq + m \in Int
    BY Widths
  <1>2. Position(n) \in 0 .. StackSize - 1
    BY <1>1, ModRange, Widths DEF Position
  <1>3. ASSUME n < m, m < n + StackSize, Position(n) = Position(m) PROVE FALSE
    <2>1. FirstSeq + n <= FirstSeq + m /\ FirstSeq + m < FirstSeq + n + StackSize
      BY <1>3, Widths
    <2>2. (FirstSeq + n) % StackSize = (FirstSeq + m) % StackSize
      BY <1>3 DEF Position
    <2>3. FirstSeq + n = FirstSeq + m
      BY <1>1, <2>1, <2>2, ModSame, Widths
    <2> QED  BY <1>3, <2>3, Widths
  <1> QED  BY <1>2, <1>3

\* The size of a stack is the distance of its offsets.
LEMMA SizeOffset ==
    ASSUME NEW x \in Numbers, NEW y \in Numbers, Offset(x) <= Offset(y)
    PROVE  (y + SeqSpace - x) % SeqSpace = Offset(y) - Offset(x)
  <1> DEFINE a == FirstSeq + Offset(x)
             b == FirstSeq + Offset(y)
  <1>1. a \in Int /\ b \in Int /\ a <= b /\ b < a + SeqSpace /\ b - a = Offset(y) - Offset(x)
    BY OffsetOf, Widths DEF Numbers
  <1>2. x = a % SeqSpace /\ y = b % SeqSpace
    BY OffsetOf
  <1> HIDE DEF a, b
  <1>3. ((b % SeqSpace) + SeqSpace - (a % SeqSpace)) % SeqSpace = b - a
    BY <1>1, ModDistance, Widths
  <1> QED  BY <1>1, <1>2, <1>3

-----------------------------------------------------------------------------
(* The inductive invariant.                                                   *)

\* Where a processor has a function under way, looks for a task on the global
\* queue, has looked there, and uses a stack.
Inside == {"func", "push", "note", "pred"}
Looking == {"check", "queue"}
Past == {"steal", "get", "cas", "nothing", "sleep"}
Touching == {"push", "get", "cas", "popcas"}
Searching == {"check", "queue", "steal", "get", "cas", "nothing", "sleep", "found"}
Holding == {"found", "run", "func", "push", "note", "pred", "ended"}
Places == {"check", "queue", "steal", "get", "cas", "nothing", "sleep", "found", "run", "func",
           "push", "note", "pred", "pop", "popcas", "ended", "crashed"}

Slots == [0 .. StackSize - 1 -> Tasks \cup {None}]
Stacks == [start : Numbers, end : Numbers, slot : Slots]

\* The types, but for the bounds of the two counters.
Types ==
    /\ mpc \in {"spawn", "signal", "wait", "returned"} /\ toSpawn \in Seq(Tasks)
    /\ pred \in Int /\ exception \in BOOLEAN /\ sem \in Nat
    /\ queue \in Seq(Tasks) /\ processorsWaiting \in Int /\ avail \in Nat
    /\ stack \in [Processors -> Stacks]
    /\ pc \in [Processors -> Places]
    /\ task \in [Processors -> Tasks \cup {Completion, None}]
    /\ kids \in [Processors -> Seq(Tasks)]
    /\ waiting \in [Processors -> BOOLEAN] /\ target \in [Processors -> Processors]
    /\ cur \in [Processors -> Pairs] /\ got \in [Processors -> Tasks \cup {None}]
    /\ aborting \in {"no", "stopping", "stopped"} /\ abort \in [Processors -> BOOLEAN]
    /\ spawned \subseteq Tasks /\ finished \subseteq Tasks /\ refused \in BOOLEAN
    /\ runs \in [Tasks -> Nat]

\* What a processor has, by where it is.
Modes(p) ==
    /\ task[p] \in Tasks => pc[p] \in Holding
    /\ pc[p] \in Inside => task[p] \in Tasks
    /\ pc[p] \in {"found", "run"} /\ aborting = "no" => task[p] # None
    /\ kids[p] # <<>> => pc[p] \in Inside \ {"pred"}
    /\ waiting[p] => pc[p] \in Searching
    /\ pc[p] \in {"sleep", "found"} => waiting[p]
    /\ aborting = "no" => ~abort[p]
    /\ aborting = "no" /\ stack[p].start # stack[p].end => pc[p] \in Busy

AllModes == \A p \in Processors : Modes(p)

First(p) == Offset(stack[p].start)
Last(p) == Offset(stack[p].end)

\* The entries of a stack end at Top: the one being pushed is among them.
Top(p) == IF pc[p] = "push" THEN Last(p) + 1 ELSE Last(p)
Entry(p, n) == stack[p].slot[Position(n)]

PushedTasks == spawned \ Among(Roots)

\* The numbers of a stack are in order and fit, and have not come around.
Bounded(p) ==
    /\ First(p) <= Last(p) /\ Top(p) <= First(p) + StackSize
    /\ Top(p) <= Cardinality(PushedTasks)

\* A thief whose pair is out of date will notice; if the start of the stack is still
\* the one it loaded, the task it has read is still there.
Thief(p) ==
    pc[p] \in {"get", "cas"} =>
        /\ Offset(cur[p].start) <= First(target[p])
        /\ cur[p].start = stack[target[p]].start =>
              /\ First(target[p]) < Last(target[p])
              /\ pc[p] = "cas" => got[p] = Entry(target[p], First(target[p]))

\* Only the owner of a stack moves its end: the task it has read is the last one.
Popper(p) ==
    pc[p] = "popcas" =>
        /\ cur[p].start # cur[p].end /\ cur[p].end = stack[p].end
        /\ got[p] = stack[p].slot[Index(Minus1(stack[p].end))]

StackInv == \A p \in Processors : Bounded(p) /\ Thief(p) /\ Popper(p)

\* Every task is at one place: not yet spawned, on the global queue, on a stack,
\* held by a processor, or done.
Sites ==
    [Tasks -> [kind : {"new", "queue", "stack", "held", "done"}, owner : Processors, num : Nat]]

Fates(at) ==
    \A t \in Tasks :
        (at[t].kind = "new" <=> t \notin spawned) /\ (at[t].kind = "done" <=> t \in finished)

Queued(at) ==
    /\ NoRepeat(queue)
    /\ \A i \in DOMAIN queue : at[queue[i]].kind = "queue"
    /\ \A t \in Tasks : at[t].kind = "queue" => \E i \in DOMAIN queue : queue[i] = t

OnStacks(at) ==
    /\ \A p \in Processors, n \in Nat :
         First(p) <= n /\ n < Top(p) =>
            /\ Entry(p, n) \in Tasks
            /\ at[Entry(p, n)] = [kind |-> "stack", owner |-> p, num |-> n]
    /\ \A t \in Tasks :
         at[t].kind = "stack" =>
            /\ First(at[t].owner) <= at[t].num /\ at[t].num < Top(at[t].owner)
            /\ Entry(at[t].owner, at[t].num) = t

Held(at) ==
    /\ \A p \in Processors :
         task[p] \in Tasks => at[task[p]].kind = "held" /\ at[task[p]].owner = p
    /\ \A t \in Tasks : at[t].kind = "held" => task[at[t].owner] = t

Started(at, t) == at[t].kind = "done" \/ (at[t].kind = "held" /\ pc[at[t].owner] \in Inside)

Ran(at) == \A t \in Tasks : runs[t] = IF Started(at, t) THEN 1 ELSE 0

Located(at) == Fates(at) /\ Queued(at) /\ OnStacks(at) /\ Held(at) /\ Ran(at)

Placed == \E at \in Sites : Located(at)

\* What has yet to be spawned: no task twice, none that was spawned already.
Pending == NoRepeat(toSpawn) /\ Among(toSpawn) \subseteq Among(Roots) \ spawned

Unborn(p) ==
    kids[p] # <<>> =>
        NoRepeat(kids[p]) /\ Among(kids[p]) \subseteq Among(Children[task[p]]) \ spawned

Family ==
    /\ Pending /\ \A p \in Processors : Unborn(p)
    /\ \A t \in Tasks : runs[t] = 0 => Among(Children[t]) \cap spawned = {}

\* The completion task has as many predecessors as there are tasks to complete, the
\* client that still spawns, and one more for ever once a task was refused.
One(b) == IF b THEN 1 ELSE 0

Predecessors ==
    /\ pred = One(mpc \in {"spawn", "signal"}) + Cardinality(spawned \ finished) + One(refused)
    /\ refused => exception
    /\ sem > 0 \/ mpc = "returned" \/ (\E p \in Processors : task[p] = Completion) => pred = 0

WaitersCounted == processorsWaiting = Cardinality({p \in Processors : waiting[p]})

\* Once a processor that is counted as waiting has looked at the global queue, every
\* task on it has a token, a signal under way, or another processor about to look.
Covered ==
    aborting = "no" /\ (\E p \in Processors : waiting[p] /\ pc[p] \in Past) =>
        Len(queue) <= avail + One(mpc = "signal")
                            + Cardinality({p \in Processors : pc[p] \in Looking})

Inv == Types /\ AllModes /\ StackInv /\ Placed /\ Family /\ Predecessors /\ WaitersCounted /\ Covered

-----------------------------------------------------------------------------
(* What a step leaves alone.                                                  *)

\* There is a processor, and the set of processors is finite.
LEMMA ProcessorsFinite ==
    /\ IsFiniteSet(Processors) /\ Cardinality(Processors) = NumProcessors
    /\ Processors \subseteq Nat /\ 0 \in Processors
  <1>1. 0 \in Int /\ NumProcessors - 1 \in Int
    BY SchedulerAssumption
  <1>2. IsFiniteSet(0 .. NumProcessors - 1)
        /\ Cardinality(0 .. NumProcessors - 1)
             = IF 0 > NumProcessors - 1 THEN 0 ELSE (NumProcessors - 1) - 0 + 1
    BY <1>1, FS_Interval
  <1> QED  BY <1>2, SchedulerAssumption DEF Processors

\* The processors that p does not disturb keep their modes.
LEMMA ModesKept ==
    ASSUME AllModes, NEW p \in Processors, Modes(p)', UNCHANGED <<aborting, abort>>,
           \A q \in Processors : q # p =>
              /\ pc'[q] = pc[q] /\ task'[q] = task[q] /\ kids'[q] = kids[q]
              /\ waiting'[q] = waiting[q]
              /\ stack'[q].start # stack'[q].end => stack[q].start # stack[q].end
    PROVE  AllModes'
  <1> SUFFICES ASSUME NEW q \in Processors PROVE Modes(q)'
    BY DEF AllModes
  <1>1. CASE q = p
    BY <1>1
  <1>2. CASE q # p
    BY <1>2 DEF AllModes, Modes
  <1> QED  BY <1>1, <1>2

\* More tasks have been pushed when more have been spawned.
LEMMA PushedGrows ==
    ASSUME NEW S, NEW T, S \subseteq T, T \subseteq Tasks
    PROVE  /\ Cardinality(S \ Among(Roots)) \in Nat
           /\ Cardinality(S \ Among(Roots)) <= Cardinality(T \ Among(Roots))
           /\ Cardinality(T \ Among(Roots)) \in Nat
           /\ Cardinality(T \ Among(Roots)) < SeqSpace
  <1> DEFINE A == S \ Among(Roots)
             B == T \ Among(Roots)
             C == Tasks \ Among(Roots)
  <1>1. A \subseteq B /\ B \subseteq C /\ C \subseteq Tasks
    OBVIOUS
  <1>2. IsFiniteSet(C) /\ Cardinality(C) \in Nat /\ Cardinality(C) < SeqSpace
    BY <1>1, CountBounds, TasksAssumption
  <1> HIDE DEF A, B, C
  <1>3. IsFiniteSet(B) /\ Cardinality(B) \in Nat /\ Cardinality(B) <= Cardinality(C)
    BY <1>1, <1>2, CountBounds
  <1>4. Cardinality(A) \in Nat /\ Cardinality(A) <= Cardinality(B)
    BY <1>1, <1>3, CountBounds
  <1>5. Cardinality(B) < SeqSpace
    BY <1>2, <1>3, Widths
  <1> QED  BY <1>3, <1>4, <1>5 DEF A, B

\* A step that does not touch the stacks.
LEMMA StacksKept ==
    ASSUME Types, StackInv, stack' = stack, spawned \subseteq spawned', spawned' \subseteq Tasks,
           \A q \in Processors :
              pc'[q] \in Touching =>
                 pc'[q] = pc[q] /\ cur'[q] = cur[q] /\ got'[q] = got[q] /\ target'[q] = target[q]
    PROVE  StackInv'
  <1> SUFFICES ASSUME NEW q \in Processors PROVE Bounded(q)' /\ Thief(q)' /\ Popper(q)'
    BY DEF StackInv
  <1>1. Bounded(q) /\ Thief(q) /\ Popper(q)
    BY DEF StackInv
  <1>2. First(q)' = First(q) /\ Last(q)' = Last(q)
    BY DEF First, Last
  <1>3. Last(q) \in Nat /\ First(q) \in Nat
    BY OffsetOf DEF Types, Stacks, First, Last, Numbers
  <1>4. Top(q)' \in Nat /\ Top(q) \in Nat /\ Top(q)' <= Top(q)
    BY <1>2, <1>3 DEF Top, Touching
  <1>5. /\ Cardinality(PushedTasks) \in Nat /\ Cardinality(PushedTasks)' \in Nat
        /\ Cardinality(PushedTasks) <= Cardinality(PushedTasks)'
    BY PushedGrows DEF PushedTasks
  <1>6. Bounded(q)'
    BY <1>1, <1>2, <1>3, <1>4, <1>5, Widths DEF Bounded
  <1>7. Thief(q)'
    BY <1>1 DEF Thief, Touching, First, Last, Entry
  <1>8. Popper(q)'
    BY <1>1 DEF Popper, Touching
  <1> QED  BY <1>6, <1>7, <1>8

\* A step that moves no task.
LEMMA PlacedKept ==
    ASSUME Types, Types', Placed, UNCHANGED <<spawned, finished, queue, stack, runs>>,
           \A q \in Processors : (pc'[q] = "push" <=> pc[q] = "push")
                              /\ (pc'[q] \in Inside <=> pc[q] \in Inside),
           \A q \in Processors : task'[q] = task[q] \/ (task[q] \notin Tasks /\ task'[q] \notin Tasks)
    PROVE  Placed'
  <1>1. PICK at \in Sites : Located(at)
    BY DEF Placed
  <1>2. \A q \in Processors : First(q)' = First(q) /\ Top(q)' = Top(q)
    BY DEF First, Last, Top
  <1>3. \A q \in Processors, n \in Nat : Entry(q, n)' = Entry(q, n)
    BY DEF Entry
  <1>4. \A t \in Tasks : at[t].owner \in Processors /\ at[t].num \in Nat
    BY DEF Sites
  <1>5. Fates(at)' /\ Queued(at)'
    BY <1>1 DEF Located, Fates, Queued
  <1>6. OnStacks(at)'
    BY <1>1, <1>2, <1>3, <1>4 DEF Located, OnStacks
  <1>7. Held(at)'
    BY <1>1, <1>4 DEF Located, Held
  <1>8. \A t \in Tasks : Started(at, t)' <=> Started(at, t)
    BY <1>4 DEF Started
  <1>9. Ran(at)'
    BY <1>1, <1>8 DEF Located, Ran
  <1> QED  BY <1>5, <1>6, <1>7, <1>9 DEF Placed, Located

\* A step that spawns no task and starts none.
LEMMA FamilyKept ==
    ASSUME Family, UNCHANGED <<toSpawn, spawned, runs>>,
           \A q \in Processors : kids'[q] # <<>> => kids'[q] = kids[q] /\ task'[q] = task[q]
    PROVE  Family'
  BY DEF Family, Pending, Unborn

\* A step that completes no task and ends no wait.
LEMMA PredecessorsKept ==
    ASSUME Predecessors, UNCHANGED <<pred, sem, mpc, spawned, finished, refused>>,
           exception => exception',
           \A q \in Processors : task'[q] = Completion => task[q] = Completion
    PROVE  Predecessors'
  BY DEF Predecessors, One

\* One processor moves: how many are about to look at the global queue.
LEMMA LookingChange ==
    ASSUME Types, Types', NEW p \in Processors, \A q \in Processors : q # p => pc'[q] = pc[q]
    PROVE  LET L == {q \in Processors : pc[q] \in Looking}
           IN  /\ Cardinality(L) \in Nat /\ Cardinality(L)' \in Nat
               /\ Cardinality(L)' = Cardinality(L) + One(pc'[p] \in Looking)
                                                   - One(pc[p] \in Looking)
  <1> DEFINE L == {q \in Processors : pc[q] \in Looking}
             M == {q \in Processors : pc'[q] \in Looking}
  <1>1. L \subseteq Processors /\ M \subseteq Processors /\ IsFiniteSet(Processors)
        /\ \A y \in Processors : y # p => (y \in L <=> y \in M)
    BY ProcessorsFinite
  <1>2. (p \in L <=> pc[p] \in Looking) /\ (p \in M <=> pc'[p] \in Looking)
    OBVIOUS
  <1> HIDE DEF L, M
  <1>3. /\ Cardinality(L) \in Nat /\ Cardinality(M) \in Nat
        /\ Cardinality(M) = Cardinality(L) + (IF p \in M THEN 1 ELSE 0) - (IF p \in L THEN 1 ELSE 0)
    BY <1>1, CountChange
  <1> QED  BY <1>2, <1>3 DEF L, M, One

\* A step of one processor that takes nothing from the global queue.
LEMMA CoveredKept ==
    ASSUME Types, Types', Covered, UNCHANGED <<aborting, queue, mpc>>, avail <= avail',
           NEW p \in Processors,
           \A q \in Processors : q # p => pc'[q] = pc[q] /\ waiting'[q] = waiting[q],
           pc[p] \notin Looking \/ pc'[p] \in Looking,
           waiting'[p] /\ pc'[p] \in Past => waiting[p] /\ pc[p] \in Past
    PROVE  Covered'
  <1> SUFFICES ASSUME aborting = "no", NEW q \in Processors, waiting'[q] /\ pc'[q] \in Past
               PROVE  Len(queue) <= avail' + One(mpc = "signal")
                                     + Cardinality({r \in Processors : pc[r] \in Looking})'
    BY DEF Covered
  <1>1. waiting[q] /\ pc[q] \in Past
    OBVIOUS
  <1> DEFINE n == Cardinality({r \in Processors : pc[r] \in Looking})
  <1>2. n \in Nat /\ n' \in Nat /\ n' = n + One(pc'[p] \in Looking) - One(pc[p] \in Looking)
    BY LookingChange
  <1>3. Len(queue) <= avail + One(mpc = "signal") + n
    BY <1>1 DEF Covered
  <1>4. Len(queue) \in Nat /\ avail \in Nat /\ avail' \in Nat
    BY DEF Types
  <1> HIDE DEF n
  <1>5. n <= n'
    BY <1>2 DEF One
  <1>6. Len(queue) <= avail' + One(mpc = "signal") + n'
    BY <1>2, <1>3, <1>4, <1>5 DEF One
  <1> QED  BY <1>6 DEF n

-----------------------------------------------------------------------------
(* The stacks.                                                                *)

\* The parts of a stack, and its offsets.
LEMMA StackTypes ==
    ASSUME Types, NEW p \in Processors
    PROVE  /\ stack[p] \in Stacks
           /\ stack[p].start \in Numbers /\ stack[p].end \in Numbers /\ stack[p].slot \in Slots
           /\ First(p) \in Nat /\ First(p) < SeqSpace /\ Last(p) \in Nat /\ Last(p) < SeqSpace
           /\ Top(p) \in Nat
           /\ Pair(stack[p]).start = stack[p].start /\ Pair(stack[p]).end = stack[p].end
           /\ cur[p].start \in Numbers /\ cur[p].end \in Numbers
           /\ Offset(cur[p].start) \in Nat
  <1>1. /\ stack[p] \in Stacks /\ stack[p].start \in Numbers /\ stack[p].end \in Numbers
        /\ stack[p].slot \in Slots /\ cur[p].start \in Numbers /\ cur[p].end \in Numbers
    BY DEF Types, Stacks, Pairs, Numbers
  <1>2. Offset(stack[p].start) \in Numbers /\ Offset(stack[p].end) \in Numbers
        /\ Offset(cur[p].start) \in Numbers
    BY <1>1, OffsetOf
  <1> QED  BY <1>1, <1>2, Widths DEF First, Last, Top, Pair, Numbers

\* Start and end differ exactly when there are entries.
LEMMA NotEmpty ==
    ASSUME Types, NEW p \in Processors, Bounded(p)
    PROVE  stack[p].start # stack[p].end <=> First(p) < Last(p)
  <1>1. /\ stack[p].start \in Numbers /\ stack[p].end \in Numbers
        /\ First(p) \in Nat /\ Last(p) \in Nat /\ First(p) <= Last(p)
    BY StackTypes DEF Bounded
  <1>2. stack[p].start = stack[p].end => First(p) = Last(p)
    BY DEF First, Last
  <1>3. First(p) = Last(p) => stack[p].start = stack[p].end
    BY <1>1, OffsetInjective DEF First, Last
  <1> QED  BY <1>1, <1>2, <1>3

\* stealTask() moves the start of the stack of o.
LEMMA StealEffect ==
    ASSUME Types, StackInv, NEW p \in Processors, NEW o \in Processors, o = target[p],
           pc[p] = "cas", Pair(stack[o]) = cur[p],
           stack' = [stack EXCEPT ![o] = WithPair(stack[o], Stolen(cur[p]))]
    PROVE  /\ stack' \in [Processors -> Stacks]
           /\ \A q \in Processors : q # o => stack'[q] = stack[q]
           /\ stack'[o].end = stack[o].end /\ stack'[o].slot = stack[o].slot
           /\ First(o) < Last(o) /\ First(o)' = First(o) + 1
           /\ got[p] = Entry(o, First(o))
  <1> DEFINE s == stack[o]
             c == cur[p]
             r == WithPair(s, Stolen(c))
  <1>1. /\ s \in Stacks /\ s.start \in Numbers /\ s.end \in Numbers /\ s.slot \in Slots
        /\ First(o) \in Nat /\ Last(o) \in Nat /\ Last(o) < SeqSpace
        /\ Pair(s).start = s.start /\ Pair(s).end = s.end
    BY StackTypes
  <1>2. c.start = s.start /\ c.end = s.end /\ c \in Pairs
    BY <1>1 DEF Types
  <1>3. First(o) < Last(o) /\ got[p] = Entry(o, First(o))
    BY <1>2 DEF StackInv, Thief
  <1>4. Plus1(s.start) \in Numbers /\ Offset(Plus1(s.start)) = First(o) + 1
    BY <1>1, <1>3, OffsetPlus, Widths DEF First
  <1>5. Stolen(c).start = Plus1(s.start) /\ Stolen(c).end = s.end
    BY <1>2 DEF Stolen, Pairs
  <1>6. r \in Stacks /\ r.start = Plus1(s.start) /\ r.end = s.end /\ r.slot = s.slot
    BY <1>1, <1>4, <1>5 DEF WithPair, Stacks
  <1> HIDE DEF r
  <1>7. stack' = [stack EXCEPT ![o] = r] /\ stack \in [Processors -> Stacks]
    BY DEF r, Types
  <1>8. stack' \in [Processors -> Stacks] /\ stack'[o] = r
        /\ \A q \in Processors : q # o => stack'[q] = stack[q]
    BY <1>6, <1>7
  <1> QED  BY <1>3, <1>4, <1>6, <1>8 DEF First

\* popNextTask() moves the end of its stack, or the start when the last task goes.
LEMMA PopEffect ==
    ASSUME Types, StackInv, NEW p \in Processors, pc[p] = "popcas", Pair(stack[p]) = cur[p],
           stack' = [stack EXCEPT ![p] = WithPair(stack[p], Popped(cur[p]))]
    PROVE  /\ stack' \in [Processors -> Stacks]
           /\ \A q \in Processors : q # p => stack'[q] = stack[q]
           /\ stack'[p].slot = stack[p].slot
           /\ First(p) < Last(p)
           /\ \/ First(p) + 1 = Last(p) /\ First(p)' = Last(p) /\ Last(p)' = Last(p)
              \/ First(p) + 1 < Last(p) /\ First(p)' = First(p) /\ Last(p)' = Last(p) - 1
           /\ got[p] = Entry(p, Last(p) - 1)
  <1> DEFINE s == stack[p]
             c == cur[p]
             r == WithPair(s, Popped(c))
  <1>1. /\ s \in Stacks /\ s.start \in Numbers /\ s.end \in Numbers /\ s.slot \in Slots
        /\ First(p) \in Nat /\ Last(p) \in Nat /\ Last(p) < SeqSpace
        /\ Pair(s).start = s.start /\ Pair(s).end = s.end
    BY StackTypes
  <1>2. c.start = s.start /\ c.end = s.end /\ c \in Pairs
    BY <1>1 DEF Types
  <1>3. s.start # s.end /\ got[p] = s.slot[Index(Minus1(s.end))]
    BY <1>2 DEF StackInv, Popper
  <1>4. First(p) < Last(p)
    BY <1>3, NotEmpty DEF StackInv
  <1>5. Minus1(s.end) \in Numbers /\ Offset(Minus1(s.end)) = Last(p) - 1
    BY <1>1, <1>4, OffsetMinus DEF Last
  <1>6. got[p] = Entry(p, Last(p) - 1)
    BY <1>3, <1>5, IndexOffset DEF Entry
  <1>7. s.start = Minus1(s.end) <=> First(p) = Last(p) - 1
    BY <1>1, <1>5, OffsetInjective DEF First
  <1>8. CASE s.start = Minus1(s.end)
    <2>1. Popped(c).start = s.end /\ Popped(c).end = s.end
      BY <1>2, <1>8 DEF Popped, Pairs
    <2>2. r \in Stacks /\ r.start = s.end /\ r.end = s.end /\ r.slot = s.slot
      BY <1>1, <2>1 DEF WithPair, Stacks
    <2> HIDE DEF r
    <2>3. stack' = [stack EXCEPT ![p] = r] /\ stack \in [Processors -> Stacks]
      BY DEF r, Types
    <2>4. stack' \in [Processors -> Stacks] /\ stack'[p] = r
          /\ \A q \in Processors : q # p => stack'[q] = stack[q]
      BY <2>2, <2>3
    <2>5. First(p)' = Last(p) /\ Last(p)' = Last(p)
      BY <2>2, <2>4 DEF First, Last
    <2>6. First(p) + 1 = Last(p)
      BY <1>1, <1>7, <1>8
    <2> QED  BY <1>4, <1>6, <2>2, <2>4, <2>5, <2>6
  <1>9. CASE s.start # Minus1(s.end)
    <2>1. Popped(c).start = s.start /\ Popped(c).end = Minus1(s.end)
      BY <1>2, <1>9 DEF Popped, Pairs
    <2>2. r \in Stacks /\ r.start = s.start /\ r.end = Minus1(s.end) /\ r.slot = s.slot
      BY <1>1, <1>5, <2>1 DEF WithPair, Stacks
    <2> HIDE DEF r
    <2>3. stack' = [stack EXCEPT ![p] = r] /\ stack \in [Processors -> Stacks]
      BY DEF r, Types
    <2>4. stack' \in [Processors -> Stacks] /\ stack'[p] = r
          /\ \A q \in Processors : q # p => stack'[q] = stack[q]
      BY <2>2, <2>3
    <2>5. First(p)' = First(p) /\ Last(p)' = Last(p) - 1
      BY <1>5, <2>2, <2>4 DEF First, Last
    <2>6. First(p) + 1 < Last(p)
      BY <1>1, <1>4, <1>7, <1>9
    <2> QED  BY <1>4, <1>6, <2>2, <2>4, <2>5, <2>6
  <1> QED  BY <1>8, <1>9

\* pushTask() writes the slot behind the last entry, which no entry uses.
LEMMA PushEffect ==
    ASSUME Types, StackInv, NEW p \in Processors, NEW t \in Tasks, ~Full(stack[p]),
           stack' = [stack EXCEPT ![p].slot[Index(stack[p].end)] = t]
    PROVE  /\ stack' \in [Processors -> Stacks]
           /\ \A q \in Processors : q # p => stack'[q] = stack[q]
           /\ stack'[p].start = stack[p].start /\ stack'[p].end = stack[p].end
           /\ Last(p) < First(p) + StackSize
           /\ Entry(p, Last(p))' = t
           /\ \A n \in Nat : First(p) <= n /\ n < Last(p) => Entry(p, n)' = Entry(p, n)
  <1> DEFINE s == stack[p]
             i == Index(s.end)
             r == [s EXCEPT !.slot = [s.slot EXCEPT ![i] = t]]
  <1>1. /\ s \in Stacks /\ s.start \in Numbers /\ s.end \in Numbers /\ s.slot \in Slots
        /\ First(p) \in Nat /\ Last(p) \in Nat /\ Last(p) < SeqSpace /\ First(p) <= Last(p)
    BY StackTypes DEF StackInv, Bounded
  <1>2. i = Position(Last(p)) /\ i \in 0 .. StackSize - 1
    BY <1>1, IndexOffset, PositionsApart DEF Last
  <1>3. Size(s) = Last(p) - First(p)
    BY <1>1, SizeOffset DEF Size, First, Last
  <1>4. Last(p) < First(p) + StackSize
    BY <1>1, <1>3, Widths DEF Full
  <1>5. r \in Stacks /\ r.start = s.start /\ r.end = s.end /\ r.slot = [s.slot EXCEPT ![i] = t]
    BY <1>1, <1>2 DEF Stacks, Slots
  <1>6. stack' = [stack EXCEPT ![p] = r] /\ stack \in [Processors -> Stacks]
    BY DEF Types
  <1> HIDE DEF r, i
  <1>7. stack' \in [Processors -> Stacks] /\ stack'[p] = r
        /\ \A q \in Processors : q # p => stack'[q] = stack[q]
    BY <1>5, <1>6
  <1>8. Entry(p, Last(p))' = t
    <2>1. Last(p)' = Last(p)
      BY <1>5, <1>7 DEF Last
    <2>2. r.slot[i] = t
      BY <1>1, <1>2, <1>5 DEF Slots
    <2> QED  BY <1>2, <1>7, <2>1, <2>2 DEF Entry
  <1>9. ASSUME NEW n \in Nat, First(p) <= n, n < Last(p)
        PROVE  Entry(p, n)' = Entry(p, n)
    <2>1. Last(p) < n + StackSize
      BY <1>1, <1>4, <1>9, Widths
    <2>2. Position(n) \in 0 .. StackSize - 1 /\ Position(n) # i
      BY <1>1, <1>2, <1>9, <2>1, PositionsApart
    <2>3. r.slot[Position(n)] = s.slot[Position(n)]
      BY <1>1, <1>5, <2>2 DEF Slots
    <2> QED  BY <1>7, <2>3 DEF Entry
  <1> QED  BY <1>4, <1>5, <1>7, <1>8, <1>9

\* The new task is on the stack once the end has moved.
LEMMA PushEndEffect ==
    ASSUME Types, StackInv, NEW p \in Processors, pc[p] = "push",
           stack' = [stack EXCEPT ![p].end = Plus1(stack[p].end)]
    PROVE  /\ stack' \in [Processors -> Stacks]
           /\ \A q \in Processors : q # p => stack'[q] = stack[q]
           /\ stack'[p].start = stack[p].start /\ stack'[p].slot = stack[p].slot
           /\ Last(p)' = Last(p) + 1
  <1> DEFINE s == stack[p]
             r == [s EXCEPT !.end = Plus1(s.end)]
  <1>1. /\ s \in Stacks /\ s.end \in Numbers /\ Last(p) \in Nat
    BY StackTypes
  <1>2. Cardinality(PushedTasks) \in Nat /\ Cardinality(PushedTasks) < SeqSpace
    BY PushedGrows DEF PushedTasks, Types
  <1>3. Last(p) + 1 <= Cardinality(PushedTasks)
    BY DEF StackInv, Bounded, Top
  <1>4. Plus1(s.end) \in Numbers /\ Offset(Plus1(s.end)) = Last(p) + 1
    BY <1>1, <1>2, <1>3, OffsetPlus, Widths DEF Last
  <1>5. r \in Stacks /\ r.start = s.start /\ r.end = Plus1(s.end) /\ r.slot = s.slot
    BY <1>1, <1>4 DEF Stacks
  <1>6. stack' = [stack EXCEPT ![p] = r] /\ stack \in [Processors -> Stacks]
    BY DEF Types
  <1> HIDE DEF r
  <1>7. stack' \in [Processors -> Stacks] /\ stack'[p] = r
        /\ \A q \in Processors : q # p => stack'[q] = stack[q]
    BY <1>5, <1>6
  <1> QED  BY <1>4, <1>5, <1>7 DEF Last

\* A processor that has loaded a pair that is not empty.
LEMMA LoadedStacks ==
    ASSUME Types, Types', StackInv, NEW p \in Processors, pc[p] \in {"steal", "cas"},
           Loaded(p, Pair(stack[target[p]])), stack' = stack, spawned' = spawned,
           \A q \in Processors : q # p => got'[q] = got[q]
    PROVE  StackInv'
  <1> DEFINE o == target[p]
  <1>1. o \in Processors /\ Bounded(o)
    BY DEF Types, StackInv
  <1>2. \A q \in Processors : q # p =>
          pc'[q] = pc[q] /\ cur'[q] = cur[q] /\ target'[q] = target[q]
    BY DEF Loaded, TryNext, Goto, Types
  <1>3. CASE stack[o].start = stack[o].end
    <2>1. pc'[p] \in {"nothing", "steal"}
      BY <1>1, <1>3, StackTypes DEF Loaded, TryNext, Goto, Types
    <2> QED  BY <1>2, <2>1, StacksKept DEF Touching, Types
  <1>4. CASE stack[o].start # stack[o].end
    <2>1. pc'[p] = "get" /\ cur'[p] = Pair(stack[o]) /\ target'[p] = o
      BY <1>1, <1>4, StackTypes DEF Loaded, Goto, Types
    <2>2. First(o) < Last(o) /\ First(o) \in Nat
      BY <1>1, <1>4, NotEmpty, StackTypes
    <2> SUFFICES ASSUME NEW q \in Processors PROVE Bounded(q)' /\ Thief(q)' /\ Popper(q)'
      BY DEF StackInv
    <2>3. Bounded(q) /\ Thief(q) /\ Popper(q)
      BY DEF StackInv
    <2>4. Bounded(q)' /\ Popper(q)'
      <3>1. pc'[q] = "push" <=> pc[q] = "push"
        BY <1>2, <2>1
      <3> QED  BY <1>2, <2>1, <2>3, <3>1 DEF Bounded, Popper, First, Last, Top, PushedTasks
    <2>5. Thief(q)'
      <3>1. CASE q = p
        <4>1. cur'[q].start = stack[o].start
          BY <2>1, <3>1, <1>1, StackTypes
        <4>2. Offset(cur'[q].start) <= First(o)
          BY <2>2, <4>1 DEF First
        <4> QED  BY <2>1, <2>2, <3>1, <4>2 DEF Thief, First, Last
      <3>2. CASE q # p
        BY <1>2, <2>3, <3>2 DEF Thief, First, Last, Entry
      <3> QED  BY <3>1, <3>2
    <2> QED  BY <2>4, <2>5
  <1> QED  BY <1>3, <1>4

\* A thief reads the first entry, if the start has not moved.
LEMMA StealGetStacks ==
    ASSUME Types, StackInv, NEW p \in Processors, StealGet(p)
    PROVE  StackInv'
  <1> DEFINE o == target[p]
  <1>1. /\ pc' = [pc EXCEPT ![p] = "cas"] /\ pc[p] = "get"
        /\ got' = [got EXCEPT ![p] = stack[o].slot[Index(cur[p].start)]]
        /\ stack' = stack /\ cur' = cur /\ target' = target /\ spawned' = spawned
    BY DEF StealGet, Goto, fixed, history, searching
  <1>2. o \in Processors
    BY DEF Types
  <1> SUFFICES ASSUME NEW q \in Processors PROVE Bounded(q)' /\ Thief(q)' /\ Popper(q)'
    BY DEF StackInv
  <1>3. Bounded(q) /\ Thief(q) /\ Popper(q)
    BY DEF StackInv
  <1>4. q # p => pc'[q] = pc[q] /\ got'[q] = got[q]
    BY <1>1 DEF Types
  <1>5. pc'[p] = "cas" /\ got'[p] = stack[o].slot[Index(cur[p].start)]
    BY <1>1 DEF Types
  <1>6. Bounded(q)' /\ Popper(q)'
    BY <1>1, <1>3, <1>4, <1>5 DEF Bounded, Popper, First, Last, Top, PushedTasks
  <1>7. Thief(q)'
    <2>1. CASE q = p
      <3>1. cur[p].start = stack[o].start => got'[p] = Entry(o, First(o))
        BY <1>2, <1>5, StackTypes, IndexOffset DEF Entry, First
      <3> QED  BY <1>1, <1>3, <1>5, <2>1, <3>1 DEF Thief, First, Last, Entry
    <2>2. CASE q # p
      BY <1>1, <1>3, <1>4, <2>2 DEF Thief, First, Last, Entry
    <2> QED  BY <2>1, <2>2
  <1> QED  BY <1>6, <1>7

\* Once the start of a stack has moved, every other thief's pair is out of date.
LEMMA StealCasStacks ==
    ASSUME Types, Types', StackInv, NEW p \in Processors, StealCas(p),
           Pair(stack[target[p]]) = cur[p]
    PROVE  StackInv'
  <1>2. PICK o \in Processors : o = target[p]
    BY DEF Types
  <1>1. /\ pc[p] = "cas" /\ spawned' = spawned
        /\ stack' = [stack EXCEPT ![o] = WithPair(stack[o], Stolen(cur[p]))]
        /\ Found(p, got[p])
        /\ got' = [got EXCEPT ![p] = None] /\ cur' = [cur EXCEPT ![p] = NoPair]
        /\ target' = [target EXCEPT ![p] = p]
    BY <1>2 DEF StealCas, fixed, history
  <1>3. /\ stack' \in [Processors -> Stacks]
        /\ \A q \in Processors : q # o => stack'[q] = stack[q]
        /\ stack'[o].end = stack[o].end /\ stack'[o].slot = stack[o].slot
        /\ First(o) < Last(o) /\ First(o)' = First(o) + 1
        /\ got[p] = Entry(o, First(o))
    BY <1>1, <1>2, StealEffect
  <1>4. /\ pc'[p] \in {"found", "run"}
        /\ \A q \in Processors : q # p =>
             pc'[q] = pc[q] /\ got'[q] = got[q] /\ cur'[q] = cur[q] /\ target'[q] = target[q]
    BY <1>1 DEF Found, Goto, Types
  <1> SUFFICES ASSUME NEW q \in Processors PROVE Bounded(q)' /\ Thief(q)' /\ Popper(q)'
    BY DEF StackInv
  <1>5. Bounded(q) /\ Thief(q) /\ Popper(q)
    BY DEF StackInv
  <1>6. /\ \A r \in Processors : First(r) \in Nat /\ Last(r) \in Nat /\ Offset(cur[r].start) \in Nat
        /\ \A r \in Processors : r # o => First(r)' = First(r)
        /\ \A r \in Processors : Last(r)' = Last(r)
    BY <1>3, StackTypes DEF First, Last
  <1>7. Top(q)' = Top(q) /\ Top(q) \in Nat /\ Cardinality(PushedTasks)' = Cardinality(PushedTasks)
    BY <1>1, <1>4, <1>6 DEF Top, PushedTasks
  <1>8. Bounded(q)'
    BY <1>2, <1>3, <1>5, <1>6, <1>7, Widths DEF Bounded
  <1>9. Popper(q)'
    BY <1>3, <1>4, <1>5 DEF Popper
  <1>10. Thief(q)'
    <2>1. CASE q = p
      BY <1>4, <2>1 DEF Thief
    <2>2. CASE q # p /\ target[q] = o
      <3>1. ASSUME pc[q] \in {"get", "cas"}
            PROVE  Offset(cur[q].start) <= First(o) /\ cur[q].start # stack'[o].start
        <4>1. Offset(cur[q].start) <= First(o)
          BY <1>5, <2>2, <3>1 DEF Thief
        <4>2. Offset(cur[q].start) # First(o)'
          BY <1>2, <1>3, <1>6, <4>1
        <4> QED  BY <4>1, <4>2 DEF First
      <3> QED  BY <1>2, <1>3, <1>4, <1>6, <2>2, <3>1 DEF Thief
    <2>3. CASE q # p /\ target[q] # o
      <3>1. target[q] \in Processors
        BY DEF Types
      <3> QED  BY <1>3, <1>4, <1>5, <1>6, <2>3, <3>1 DEF Thief, Entry
    <2> QED  BY <2>1, <2>2, <2>3
  <1> QED  BY <1>8, <1>9, <1>10

\* The entry being pushed is beside the others, and one more task has been pushed.
LEMMA PushStacks ==
    ASSUME Types, Types', StackInv, NEW p \in Processors, NEW t \in Tasks, ~Full(stack[p]),
           stack' = [stack EXCEPT ![p].slot[Index(stack[p].end)] = t],
           pc[p] = "func", pc' = [pc EXCEPT ![p] = "push"], UNCHANGED <<cur, got, target>>,
           spawned' = spawned \cup {t}, t \notin spawned, t \notin Among(Roots)
    PROVE  StackInv'
  <1>1. /\ stack' \in [Processors -> Stacks]
        /\ \A q \in Processors : q # p => stack'[q] = stack[q]
        /\ stack'[p].start = stack[p].start /\ stack'[p].end = stack[p].end
        /\ Last(p) < First(p) + StackSize
        /\ Entry(p, Last(p))' = t
        /\ \A n \in Nat : First(p) <= n /\ n < Last(p) => Entry(p, n)' = Entry(p, n)
    BY PushEffect
  <1>2. pc'[p] = "push" /\ \A q \in Processors : q # p => pc'[q] = pc[q]
    BY DEF Types
  <1>3. \A q \in Processors : /\ First(q) \in Nat /\ Last(q) \in Nat
                              /\ First(q)' = First(q) /\ Last(q)' = Last(q)
    BY <1>1, StackTypes DEF First, Last
  <1>4. /\ Cardinality(PushedTasks)' = Cardinality(PushedTasks) + 1
        /\ Cardinality(PushedTasks) \in Nat
    <2> DEFINE A == spawned \ Among(Roots)
               B == (spawned \cup {t}) \ Among(Roots)
    <2>1. A \subseteq Tasks /\ B \subseteq Tasks /\ t \notin A /\ t \in B
          /\ \A y \in Tasks : y # t => (y \in A <=> y \in B)
      BY DEF Types
    <2>2. PushedTasks = A /\ PushedTasks' = B
      BY DEF PushedTasks
    <2> HIDE DEF A, B
    <2>3. /\ Cardinality(A) \in Nat /\ Cardinality(B) \in Nat
          /\ Cardinality(B) = Cardinality(A) + (IF t \in B THEN 1 ELSE 0) - (IF t \in A THEN 1 ELSE 0)
      BY <2>1, CountChange, TasksAssumption
    <2> QED  BY <2>1, <2>2, <2>3
  <1> SUFFICES ASSUME NEW q \in Processors PROVE Bounded(q)' /\ Thief(q)' /\ Popper(q)'
    BY DEF StackInv
  <1>5. Bounded(q) /\ Thief(q) /\ Popper(q)
    BY DEF StackInv
  <1>6. Bounded(q)'
    <2>1. CASE q = p
      <3>1. Top(p) = Last(p) /\ Top(p)' = Last(p) + 1
        BY <1>2, <1>3 DEF Top
      <3> QED  BY <1>1, <1>3, <1>4, <1>5, <2>1, <3>1, Widths DEF Bounded
    <2>2. CASE q # p
      <3>1. Top(q)' = Top(q) /\ Top(q) \in Nat
        BY <1>2, <1>3, <2>2 DEF Top
      <3> QED  BY <1>3, <1>4, <1>5, <3>1 DEF Bounded
    <2> QED  BY <2>1, <2>2
  <1>7. Popper(q)'
    BY <1>1, <1>2, <1>5 DEF Popper
  <1>8. Thief(q)'
    <2>1. target[q] \in Processors /\ target'[q] = target[q] /\ cur'[q] = cur[q] /\ got'[q] = got[q]
      BY DEF Types
    <2>2. stack'[target[q]].start = stack[target[q]].start
      BY <1>1, <2>1
    <2>3. First(target[q]) < Last(target[q]) =>
            Entry(target[q], First(target[q]))' = Entry(target[q], First(target[q]))
      <3>1. CASE target[q] = p
        <4>1. First(p) < Last(p) => Entry(p, First(p))' = Entry(p, First(p))
          <5>1. \A n \in Nat : n = First(p) /\ First(p) < Last(p)
                   => stack'[p].slot[Position(n)] = stack[p].slot[Position(n)]
            BY <1>1, <1>3 DEF Entry
          <5> QED  BY <1>3, <5>1 DEF Entry
        <4> QED  BY <2>1, <3>1, <4>1 DEF Entry, First
      <3>2. CASE target[q] # p
        BY <1>1, <2>1, <3>2 DEF Entry, First
      <3> QED  BY <3>1, <3>2
    <2>4. Entry(target[q], First(target[q]))'
            = stack'[target[q]].slot[Position(First(target[q]))]
      BY <1>3, <2>1 DEF Entry
    <2>5. q = p => pc'[q] = "push"
      BY <1>2
    <2> QED  BY <1>2, <1>3, <1>5, <2>1, <2>2, <2>3, <2>4, <2>5 DEF Thief
  <1> QED  BY <1>6, <1>7, <1>8

\* The end moves over the entry that was being pushed.
LEMMA PushEndStacks ==
    ASSUME Types, Types', StackInv, NEW p \in Processors, PushEnd(p)
    PROVE  StackInv'
  <1>1. /\ pc[p] = "push" /\ stack' = [stack EXCEPT ![p].end = Plus1(stack[p].end)]
        /\ pc' = [pc EXCEPT ![p] = "note"] /\ cur' = cur /\ got' = got /\ target' = target
        /\ spawned' = spawned
    BY DEF PushEnd, Goto, fixed, history, searching
  <1>2. /\ stack' \in [Processors -> Stacks]
        /\ \A q \in Processors : q # p => stack'[q] = stack[q]
        /\ stack'[p].start = stack[p].start /\ stack'[p].slot = stack[p].slot
        /\ Last(p)' = Last(p) + 1
    BY <1>1, PushEndEffect
  <1>3. pc'[p] = "note" /\ \A q \in Processors : q # p => pc'[q] = pc[q]
    BY <1>1 DEF Types
  <1>4. \A q \in Processors : /\ First(q) \in Nat /\ Last(q) \in Nat
                              /\ First(q)' = First(q) /\ (q # p => Last(q)' = Last(q))
    BY <1>2, StackTypes DEF First, Last
  <1>5. \A q \in Processors : stack'[q].start = stack[q].start /\ stack'[q].slot = stack[q].slot
    BY <1>2
  <1> SUFFICES ASSUME NEW q \in Processors PROVE Bounded(q)' /\ Thief(q)' /\ Popper(q)'
    BY DEF StackInv
  <1>6. Bounded(q) /\ Thief(q) /\ Popper(q)
    BY DEF StackInv
  <1>7. Top(q)' = Top(q) /\ Cardinality(PushedTasks)' = Cardinality(PushedTasks)
    BY <1>1, <1>2, <1>3, <1>4 DEF Top, PushedTasks
  <1>8. Bounded(q)'
    BY <1>2, <1>4, <1>6, <1>7 DEF Bounded
  <1>9. Popper(q)'
    BY <1>1, <1>2, <1>3, <1>6 DEF Popper
  <1>10. Thief(q)'
    <2>1. target[q] \in Processors
      BY DEF Types
    <2>2. First(target[q]) < Last(target[q]) => First(target[q])' < Last(target[q])'
      <3>1. \A o \in Processors : First(o) < Last(o) => First(o)' < Last(o)'
        BY <1>2, <1>4
      <3>2. target'[q] = target[q]
        BY <1>1
      <3> QED  BY <2>1, <3>1, <3>2 DEF First, Last
    <2>3. q # p => pc'[q] = pc[q]
      BY <1>3
    <2>4. Entry(target[q], First(target[q]))' = Entry(target[q], First(target[q]))
      <3>1. \A o \in Processors : stack'[o].start = stack[o].start /\ stack'[o].slot = stack[o].slot
        BY <1>2
      <3>2. target'[q] = target[q]
        BY <1>1
      <3>3. /\ stack'[target[q]].start = stack[target[q]].start
            /\ stack'[target[q]].slot = stack[target[q]].slot
        BY <2>1, <3>1
      <3> QED  BY <3>2, <3>3 DEF Entry, First
    <2>5. First(target[q])' = First(target[q]) /\ stack'[target[q]].start = stack[target[q]].start
      BY <1>1, <1>4, <1>5, <2>1
    <2> QED  BY <1>1, <1>3, <1>6, <2>2, <2>3, <2>4, <2>5 DEF Thief
  <1> QED  BY <1>8, <1>9, <1>10

\* The owner has loaded a pair, and the last task of it or had it already.
LEMMA PopLoadedStacks ==
    ASSUME Types, Types', StackInv, NEW p \in Processors, NEW t,
           PopLoaded(p, Pair(stack[p]), t), t = stack[p].slot[Index(Minus1(stack[p].end))],
           pc[p] \in {"pop", "popcas"}, UNCHANGED <<stack, spawned, target>>
    PROVE  StackInv'
  <1>1. \A q \in Processors : q # p =>
          pc'[q] = pc[q] /\ cur'[q] = cur[q] /\ got'[q] = got[q]
    BY DEF PopLoaded, Goto, Types
  <1>2. \/ pc'[p] = "check"
        \/ /\ pc'[p] = "popcas" /\ cur'[p] = Pair(stack[p]) /\ got'[p] = t
           /\ stack[p].start # stack[p].end
    BY StackTypes DEF PopLoaded, Goto, Types
  <1> SUFFICES ASSUME NEW q \in Processors PROVE Bounded(q)' /\ Thief(q)' /\ Popper(q)'
    BY DEF StackInv
  <1>3. Bounded(q) /\ Thief(q) /\ Popper(q)
    BY DEF StackInv
  <1>4. pc'[q] = "push" <=> pc[q] = "push"
    BY <1>1, <1>2
  <1>5. Bounded(q)'
    BY <1>3, <1>4 DEF Bounded, First, Last, Top, PushedTasks
  <1>6. Thief(q)'
    BY <1>1, <1>2, <1>3 DEF Thief, First, Last, Entry
  <1>7. Popper(q)'
    <2>1. CASE q = p
      BY <1>2, <2>1, StackTypes DEF Popper
    <2>2. CASE q # p
      BY <1>1, <1>3, <2>2 DEF Popper
    <2> QED  BY <2>1, <2>2
  <1> QED  BY <1>5, <1>6, <1>7

\* The last entry goes, and the start moves if it was the only one: a thief that has
\* loaded the pair notices either.
LEMMA PopCasStacks ==
    ASSUME Types, Types', StackInv, NEW p \in Processors, PopCas(p), Pair(stack[p]) = cur[p]
    PROVE  StackInv'
  <1>1. /\ pc[p] = "popcas" /\ spawned' = spawned /\ target' = target
        /\ stack' = [stack EXCEPT ![p] = WithPair(stack[p], Popped(cur[p]))]
        /\ pc' = [pc EXCEPT ![p] = "run"]
        /\ got' = [got EXCEPT ![p] = None] /\ cur' = [cur EXCEPT ![p] = NoPair]
    BY DEF PopCas, Goto, fixed, history, searching
  <1>2. /\ stack' \in [Processors -> Stacks]
        /\ \A q \in Processors : q # p => stack'[q] = stack[q]
        /\ stack'[p].slot = stack[p].slot
        /\ First(p) < Last(p)
        /\ \/ First(p) + 1 = Last(p) /\ First(p)' = Last(p) /\ Last(p)' = Last(p)
           \/ First(p) + 1 < Last(p) /\ First(p)' = First(p) /\ Last(p)' = Last(p) - 1
        /\ got[p] = Entry(p, Last(p) - 1)
    BY <1>1, PopEffect
  <1>3. /\ pc'[p] = "run"
        /\ \A q \in Processors : q # p => pc'[q] = pc[q] /\ got'[q] = got[q] /\ cur'[q] = cur[q]
    BY <1>1 DEF Types
  <1>4. /\ \A q \in Processors : First(q) \in Nat /\ Last(q) \in Nat /\ Offset(cur[q].start) \in Nat
        /\ \A q \in Processors : q # p => First(q)' = First(q) /\ Last(q)' = Last(q)
    BY <1>2, StackTypes DEF First, Last
  <1> SUFFICES ASSUME NEW q \in Processors PROVE Bounded(q)' /\ Thief(q)' /\ Popper(q)'
    BY DEF StackInv
  <1>5. Bounded(q) /\ Thief(q) /\ Popper(q)
    BY DEF StackInv
  <1>6. Cardinality(PushedTasks) \in Nat /\ Cardinality(PushedTasks)' = Cardinality(PushedTasks)
    BY <1>1, PushedGrows DEF PushedTasks, Types
  <1>7. Bounded(q)'
    <2>1. CASE q = p
      <3>1. Top(p) = Last(p) /\ Top(p)' = Last(p)'
        BY <1>1, <1>3 DEF Top
      <3> QED  BY <1>2, <1>4, <1>5, <1>6, <2>1, <3>1, Widths DEF Bounded
    <2>2. CASE q # p
      <3>1. Top(q)' = Top(q)
        BY <1>3, <1>4, <2>2 DEF Top
      <3> QED  BY <1>4, <1>5, <1>6, <2>2, <3>1 DEF Bounded
    <2> QED  BY <2>1, <2>2
  <1>8. Popper(q)'
    BY <1>2, <1>3, <1>5 DEF Popper
  <1>9. Thief(q)'
    <2>1. CASE q = p
      BY <1>3, <2>1 DEF Thief
    <2>2. CASE q # p /\ target[q] = p
      <3>1. ASSUME pc[q] \in {"get", "cas"}
            PROVE  /\ Offset(cur[q].start) <= First(p)'
                   /\ cur[q].start = stack'[p].start => First(p)' = First(p) /\ First(p)' < Last(p)'
                                                        /\ cur[q].start = stack[p].start
        <4>1. Offset(cur[q].start) <= First(p)
          BY <1>5, <2>2, <3>1 DEF Thief
        <4>2. cur[q].start = stack'[p].start => Offset(cur[q].start) = First(p)'
          BY DEF First
        <4>3. cur[q].start = stack'[p].start => First(p)' = First(p) /\ First(p)' < Last(p)'
          BY <1>2, <1>4, <4>1, <4>2
        <4>4. First(p)' = First(p) => stack'[p].start = stack[p].start
          BY OffsetInjective, StackTypes, <1>2 DEF First, Stacks
        <4> QED  BY <1>2, <1>4, <4>1, <4>3, <4>4
      <3>2. cur'[q] = cur[q] /\ target'[q] = p /\ pc'[q] = pc[q] /\ got'[q] = got[q]
        BY <1>1, <1>3, <2>2
      <3>3. First(p)' = First(p) => Entry(p, First(p))' = Entry(p, First(p))
        BY <1>2 DEF Entry
      <3> QED  BY <1>5, <2>2, <3>1, <3>2, <3>3 DEF Thief
    <2>3. CASE q # p /\ target[q] # p
      <3>1. target[q] \in Processors
        BY DEF Types
      <3> QED  BY <1>1, <1>2, <1>3, <1>4, <1>5, <2>3, <3>1 DEF Thief, Entry
    <2> QED  BY <2>1, <2>2, <2>3
  <1> QED  BY <1>7, <1>8, <1>9

-----------------------------------------------------------------------------
(* Where the tasks are.                                                       *)

\* b is at, but for the task t, which is at the place given.
Moved(at, b, t, k, o, n) ==
    /\ \A u \in Tasks : u # t => b[u] = at[u]
    /\ b[t].kind = k /\ b[t].owner = o /\ b[t].num = n

\* A task can be moved.
LEMMA Relocate ==
    ASSUME NEW at \in Sites, NEW t \in Tasks, NEW o \in Processors, NEW n \in Nat,
           NEW k \in {"new", "queue", "stack", "held", "done"}
    PROVE  \E b \in Sites : Moved(at, b, t, k, o, n)
  <1> DEFINE b == [at EXCEPT ![t] = [kind |-> k, owner |-> o, num |-> n]]
  <1>1. b \in Sites /\ Moved(at, b, t, k, o, n)
    BY DEF Sites, Moved
  <1> HIDE DEF b
  <1> QED  BY <1>1

\* The parts of a site.
LEMMA SiteTypes ==
    ASSUME NEW at \in Sites, NEW t \in Tasks
    PROVE  /\ at[t].owner \in Processors /\ at[t].num \in Nat
           /\ at[t].kind \in {"new", "queue", "stack", "held", "done"}
  BY DEF Sites

\* The queue, when a task moves that is not on it.
LEMMA QueuedAside ==
    ASSUME Types, NEW at \in Sites, NEW b \in Sites, Queued(at), queue' = queue, NEW t \in Tasks,
           NEW k, NEW o, NEW n, Moved(at, b, t, k, o, n), at[t].kind # "queue", k # "queue"
    PROVE  Queued(b)'
  <1>1. \A i \in DOMAIN queue : queue[i] \in Tasks
    BY DEF Types
  <1> QED  BY <1>1 DEF Queued, Moved

\* The stacks, when a task moves that is on none.
LEMMA OnStacksAside ==
    ASSUME NEW at \in Sites, NEW b \in Sites, OnStacks(at), NEW t \in Tasks,
           \A q \in Processors : First(q)' = First(q) /\ Top(q)' = Top(q),
           \A q \in Processors, n \in Nat : Entry(q, n)' = Entry(q, n),
           NEW k, NEW o, NEW m, Moved(at, b, t, k, o, m), at[t].kind # "stack", k # "stack"
    PROVE  OnStacks(b)'
  <1>1. ASSUME NEW p \in Processors, NEW n \in Nat, First(p) <= n, n < Top(p)
        PROVE  /\ Entry(p, n) \in Tasks
               /\ b[Entry(p, n)] = [kind |-> "stack", owner |-> p, num |-> n]
    <2>1. /\ Entry(p, n) \in Tasks
          /\ at[Entry(p, n)] = [kind |-> "stack", owner |-> p, num |-> n]
      BY <1>1 DEF OnStacks
    <2>2. Entry(p, n) # t
      BY <2>1
    <2> QED  BY <2>1, <2>2 DEF Moved
  <1>2. ASSUME NEW u \in Tasks, b[u].kind = "stack"
        PROVE  /\ First(b[u].owner) <= b[u].num /\ b[u].num < Top(b[u].owner)
               /\ Entry(b[u].owner, b[u].num) = u
    <2>1. u # t /\ b[u] = at[u]
      BY <1>2 DEF Moved
    <2> QED  BY <1>2, <2>1 DEF OnStacks
  <1>3. \A u \in Tasks : b[u].owner \in Processors /\ b[u].num \in Nat
    BY SiteTypes
  <1> QED  BY <1>1, <1>2, <1>3 DEF OnStacks

\* A processor that had no task takes one from the queue or a stack.
LEMMA Taken ==
    ASSUME Types, Types', NEW at \in Sites, NEW b \in Sites, Located(at), NEW t \in Tasks,
           NEW p \in Processors, NEW m, Moved(at, b, t, "held", p, m),
           at[t].kind \in {"queue", "stack"},
           task[p] \notin Tasks, task' = [task EXCEPT ![p] = t],
           pc[p] \notin Inside, pc'[p] \notin Inside,
           \A q \in Processors : q # p => pc'[q] = pc[q],
           UNCHANGED <<spawned, finished, runs>>
    PROVE  Fates(b)' /\ Held(b)' /\ Ran(b)'
  <1>1. task'[p] = t /\ \A q \in Processors : q # p => task'[q] = task[q]
    BY DEF Types
  <1>2. \A u \in Tasks : at[u].owner \in Processors /\ b[u].owner \in Processors
    BY SiteTypes
  <1>3. Fates(b)'
    BY DEF Located, Fates, Moved
  <1>4. Held(b)'
    <2>1. ASSUME NEW q \in Processors, task'[q] \in Tasks
          PROVE  b[task'[q]].kind = "held" /\ b[task'[q]].owner = q
      <3>1. CASE q = p
        BY <1>1, <3>1 DEF Moved
      <3>2. CASE q # p
        <4>1. task[q] \in Tasks /\ at[task[q]].kind = "held" /\ at[task[q]].owner = q
          BY <1>1, <2>1, <3>2 DEF Located, Held
        <4>2. task[q] # t
          BY <4>1
        <4> QED  BY <1>1, <3>2, <4>1, <4>2 DEF Moved
      <3> QED  BY <3>1, <3>2
    <2>2. ASSUME NEW u \in Tasks, b[u].kind = "held" PROVE task'[b[u].owner] = u
      <3>1. CASE u = t
        BY <1>1, <3>1 DEF Moved
      <3>2. CASE u # t
        <4>1. b[u] = at[u] /\ at[u].kind = "held" /\ task[at[u].owner] = u
          BY <2>2, <3>2 DEF Moved, Located, Held
        <4>2. at[u].owner # p
          BY <4>1
        <4> QED  BY <1>1, <1>2, <4>1, <4>2
      <3> QED  BY <3>1, <3>2
    <2> QED  BY <2>1, <2>2 DEF Held
  <1>5. ASSUME NEW u \in Tasks PROVE Started(b, u)' <=> Started(at, u)
    <2>1. CASE u = t
      BY <2>1 DEF Started, Moved
    <2>2. CASE u # t
      <3>1. b[u] = at[u]
        BY <2>2 DEF Moved
      <3>2. at[u].kind = "held" => at[u].owner # p
        BY DEF Located, Held
      <3> QED  BY <1>2, <3>1, <3>2 DEF Started
    <2> QED  BY <2>1, <2>2
  <1>6. Ran(b)'
    BY <1>5 DEF Located, Ran
  <1> QED  BY <1>3, <1>4, <1>6

\* spawn() by the client puts a new task on the queue.
LEMMA SpawnPlaces ==
    ASSUME Types, Types', Placed, NEW t \in Tasks, t \notin spawned,
           queue' = Append(queue, t), spawned' = spawned \cup {t},
           UNCHANGED <<finished, stack, runs, pc, task>>
    PROVE  Placed'
  <1>1. PICK at \in Sites : Located(at)
    BY DEF Placed
  <1>2. PICK b \in Sites : Moved(at, b, t, "queue", 0, 0)
    BY ProcessorsFinite, Relocate
  <1>3. at[t].kind = "new"
    BY <1>1 DEF Located, Fates
  <1>4. Fates(b)'
    BY <1>1, <1>2, <1>3 DEF Located, Fates, Moved
  <1>5. Queued(b)'
    <2>1. /\ Len(queue) \in Nat /\ DOMAIN queue = 1 .. Len(queue)
          /\ DOMAIN queue' = 1 .. Len(queue) + 1
          /\ \A i \in 1 .. Len(queue) : queue'[i] = queue[i] /\ queue[i] \in Tasks
          /\ queue'[Len(queue) + 1] = t
      BY DEF Types
    <2>2. \A i \in 1 .. Len(queue) : at[queue[i]].kind = "queue" /\ queue[i] # t
      BY <1>1, <1>3, <2>1 DEF Located, Queued
    <2>3. \A i, j \in 1 .. Len(queue) : queue[i] = queue[j] => i = j
      BY <1>1, <2>1 DEF Located, Queued, NoRepeat
    <2>4. NoRepeat(queue')
      BY <2>1, <2>2, <2>3 DEF NoRepeat
    <2>5. \A i \in DOMAIN queue' : b[queue'[i]].kind = "queue"
      BY <1>2, <2>1, <2>2 DEF Moved
    <2>6. ASSUME NEW u \in Tasks, b[u].kind = "queue" PROVE \E i \in DOMAIN queue' : queue'[i] = u
      <3>1. CASE u = t
        BY <2>1, <3>1
      <3>2. CASE u # t
        <4>1. at[u].kind = "queue"
          BY <1>2, <2>6, <3>2 DEF Moved
        <4>2. PICK i \in 1 .. Len(queue) : queue[i] = u
          BY <1>1, <2>1, <4>1 DEF Located, Queued
        <4> QED  BY <2>1, <4>2
      <3> QED  BY <3>1, <3>2
    <2> QED  BY <2>4, <2>5, <2>6 DEF Queued
  <1>6. /\ \A q \in Processors : First(q)' = First(q) /\ Top(q)' = Top(q)
        /\ \A q \in Processors, n \in Nat : Entry(q, n)' = Entry(q, n)
    BY DEF First, Last, Top, Entry
  <1>7. OnStacks(b)'
    BY <1>1, <1>2, <1>3, <1>6, OnStacksAside DEF Located
  <1>8. Held(b)'
    BY <1>1, <1>2, <1>3 DEF Located, Held, Moved
  <1>9. Ran(b)'
    BY <1>1, <1>2, <1>3 DEF Located, Ran, Started, Moved
  <1> QED  BY <1>4, <1>5, <1>7, <1>8, <1>9 DEF Placed, Located

\* A processor takes the first task of the queue.
LEMMA DequeuePlaces ==
    ASSUME Types, Types', Placed, NEW p \in Processors, queue # <<>>, queue' = Tail(queue),
           NEW t, t = Head(queue), task[p] \notin Tasks, task' = [task EXCEPT ![p] = t],
           pc[p] = "queue", pc'[p] \in {"found", "run"},
           \A q \in Processors : q # p => pc'[q] = pc[q],
           UNCHANGED <<spawned, finished, stack, runs>>
    PROVE  Placed'
  <1>1. PICK at \in Sites : Located(at)
    BY DEF Placed
  <1>2. /\ Len(queue) \in Nat /\ Len(queue) >= 1 /\ DOMAIN queue = 1 .. Len(queue)
        /\ DOMAIN queue' = 1 .. Len(queue) - 1
        /\ \A i \in 1 .. Len(queue) : queue[i] \in Tasks
        /\ \A i \in 1 .. Len(queue) - 1 : queue'[i] = queue[i + 1]
        /\ t = queue[1] /\ t \in Tasks
    BY DEF Types
  <1>3. PICK b \in Sites : Moved(at, b, t, "held", p, 0)
    BY <1>2, Relocate
  <1>4. at[t].kind = "queue"
    BY <1>1, <1>2 DEF Located, Queued
  <1>5. Fates(b)' /\ Held(b)' /\ Ran(b)'
    <2>1. pc[p] \notin Inside /\ pc'[p] \notin Inside
      BY DEF Inside
    <2> QED  BY <1>1, <1>2, <1>3, <1>4, <2>1, Taken
  <1>6. Queued(b)'
    <2>1. \A i, j \in 1 .. Len(queue) : queue[i] = queue[j] => i = j
      BY <1>1, <1>2 DEF Located, Queued, NoRepeat
    <2>2. NoRepeat(queue')
      BY <1>2, <2>1 DEF NoRepeat
    <2>3. \A i \in DOMAIN queue' : b[queue'[i]].kind = "queue"
      <3> SUFFICES ASSUME NEW i \in 1 .. Len(queue) - 1 PROVE b[queue'[i]].kind = "queue"
        BY <1>2
      <3>1. i + 1 \in 1 .. Len(queue) /\ 1 \in 1 .. Len(queue) /\ i + 1 # 1
        BY <1>2
      <3>2. queue'[i] = queue[i + 1] /\ queue[i + 1] \in Tasks /\ queue[i + 1] # t
        BY <1>2, <2>1, <3>1
      <3>3. at[queue[i + 1]].kind = "queue"
        BY <1>1, <1>2, <3>1 DEF Located, Queued
      <3> QED  BY <1>3, <3>2, <3>3 DEF Moved
    <2>4. ASSUME NEW u \in Tasks, b[u].kind = "queue" PROVE \E i \in DOMAIN queue' : queue'[i] = u
      <3>1. u # t /\ at[u].kind = "queue"
        BY <1>3, <2>4 DEF Moved
      <3>2. PICK i \in 1 .. Len(queue) : queue[i] = u
        BY <1>1, <1>2, <3>1 DEF Located, Queued
      <3>3. i # 1 /\ i - 1 \in 1 .. Len(queue) - 1 /\ (i - 1) + 1 = i
        BY <1>2, <3>1, <3>2
      <3>4. queue'[i - 1] = u
        BY <1>2, <3>2, <3>3
      <3> QED  BY <1>2, <3>3, <3>4
    <2> QED  BY <2>2, <2>3, <2>4 DEF Queued
  <1>7. /\ \A q \in Processors : First(q)' = First(q) /\ Top(q)' = Top(q)
        /\ \A q \in Processors, n \in Nat : Entry(q, n)' = Entry(q, n)
    BY DEF First, Last, Top, Entry
  <1>8. OnStacks(b)'
    BY <1>1, <1>2, <1>3, <1>4, <1>7, OnStacksAside DEF Located
  <1> QED  BY <1>5, <1>6, <1>8 DEF Placed, Located

\* One entry leaves the stack of o, the first or the last, and p takes it.
LEMMA EntryTaken ==
    ASSUME Types, Types', Placed, NEW p \in Processors, NEW o \in Processors, NEW m \in Nat,
           NEW t, t = Entry(o, m), First(o) <= m, m < Top(o),
           task[p] \notin Tasks, task' = [task EXCEPT ![p] = t],
           pc[p] \notin Inside, pc'[p] \notin Inside,
           \A q \in Processors : q # p => pc'[q] = pc[q],
           UNCHANGED <<spawned, finished, queue, runs>>,
           \A q \in Processors : q # o => First(q)' = First(q) /\ Top(q)' = Top(q),
           \A q \in Processors : First(q) \in Nat /\ Top(q) \in Nat,
           \A n \in Nat : First(o)' <= n /\ n < Top(o)'
                            <=> First(o) <= n /\ n < Top(o) /\ n # m,
           \A q \in Processors, n \in Nat : Entry(q, n)' = Entry(q, n)
    PROVE  Placed'
  <1>1. PICK at \in Sites : Located(at)
    BY DEF Placed
  <1>2. /\ t \in Tasks /\ at[t].kind = "stack" /\ at[t].owner = o /\ at[t].num = m
    <2>1. Entry(o, m) \in Tasks /\ at[Entry(o, m)] = [kind |-> "stack", owner |-> o, num |-> m]
      BY <1>1 DEF Located, OnStacks
    <2> QED  BY <2>1
  <1>3. PICK b \in Sites : Moved(at, b, t, "held", p, 0)
    BY <1>2, Relocate
  <1>4. Fates(b)' /\ Held(b)' /\ Ran(b)'
    BY <1>1, <1>2, <1>3, Taken
  <1>5. Queued(b)'
    BY <1>1, <1>2, <1>3, QueuedAside DEF Located
  <1>6. OnStacks(b)'
    <2>1. ASSUME NEW q \in Processors, NEW n \in Nat, First(q)' <= n, n < Top(q)'
          PROVE  /\ Entry(q, n)' \in Tasks
                 /\ b[Entry(q, n)'] = [kind |-> "stack", owner |-> q, num |-> n]
      <3>1. First(q) <= n /\ n < Top(q) /\ ~(q = o /\ n = m)
        BY <2>1
      <3>2. /\ Entry(q, n) \in Tasks
            /\ at[Entry(q, n)] = [kind |-> "stack", owner |-> q, num |-> n]
        BY <1>1, <3>1 DEF Located, OnStacks
      <3>3. Entry(q, n) # t
        BY <1>2, <3>1, <3>2
      <3> QED  BY <1>3, <3>2, <3>3 DEF Moved
    <2>2. ASSUME NEW u \in Tasks, b[u].kind = "stack"
          PROVE  /\ First(b[u].owner)' <= b[u].num /\ b[u].num < Top(b[u].owner)'
                 /\ Entry(b[u].owner, b[u].num)' = u
      <3>1. u # t /\ b[u] = at[u]
        BY <1>3, <2>2 DEF Moved
      <3>2. PICK q \in Processors, n \in Nat : q = at[u].owner /\ n = at[u].num
        BY SiteTypes
      <3>3. First(q) <= n /\ n < Top(q) /\ Entry(q, n) = u
        BY <1>1, <2>2, <3>1, <3>2 DEF Located, OnStacks
      <3>4. ~(q = o /\ n = m)
        BY <3>1, <3>3
      <3>5. First(q)' <= n /\ n < Top(q)' /\ Entry(q, n)' = u
        BY <3>3, <3>4
      <3> QED  BY <3>1, <3>2, <3>5
    <2> QED  BY <2>1, <2>2 DEF OnStacks
  <1> QED  BY <1>4, <1>5, <1>6 DEF Placed, Located

\* A child goes behind the last entry of the stack of p.
LEMMA PushPlaces ==
    ASSUME Types, Types', StackInv, Placed, NEW p \in Processors, NEW t \in Tasks,
           ~Full(stack[p]), stack' = [stack EXCEPT ![p].slot[Index(stack[p].end)] = t],
           pc[p] = "func", pc' = [pc EXCEPT ![p] = "push"],
           spawned' = spawned \cup {t}, t \notin spawned,
           UNCHANGED <<finished, queue, runs, task>>
    PROVE  Placed'
  <1>1. /\ stack' \in [Processors -> Stacks]
        /\ \A q \in Processors : q # p => stack'[q] = stack[q]
        /\ stack'[p].start = stack[p].start /\ stack'[p].end = stack[p].end
        /\ Last(p) < First(p) + StackSize
        /\ Entry(p, Last(p))' = t
        /\ \A n \in Nat : First(p) <= n /\ n < Last(p) => Entry(p, n)' = Entry(p, n)
    BY PushEffect
  <1>2. pc'[p] = "push" /\ \A q \in Processors : q # p => pc'[q] = pc[q]
    BY DEF Types
  <1>3. PICK m \in Nat : m = Last(p)
    BY StackTypes
  <1>4. /\ First(p) \in Nat /\ First(p) <= m /\ First(p)' = First(p)
        /\ Top(p) = m /\ Top(p)' = m + 1 /\ Entry(p, m)' = t
    BY <1>1, <1>2, <1>3, StackTypes DEF First, Last, Top, Entry, StackInv, Bounded
  <1>5. \A q \in Processors : q # p =>
          /\ First(q)' = First(q) /\ Top(q)' = Top(q)
          /\ \A n \in Nat : Entry(q, n)' = Entry(q, n)
    BY <1>1, <1>2 DEF First, Last, Top, Entry
  <1>6. PICK at \in Sites : Located(at)
    BY DEF Placed
  <1>7. PICK b \in Sites : Moved(at, b, t, "stack", p, m)
    BY Relocate
  <1>8. at[t].kind = "new" /\ b[t] = [kind |-> "stack", owner |-> p, num |-> m]
    BY <1>6, <1>7 DEF Located, Fates, Moved, Sites
  <1>9. Fates(b)' /\ Held(b)'
    BY <1>6, <1>7, <1>8 DEF Located, Fates, Held, Moved
  <1>10. Queued(b)'
    BY <1>6, <1>7, <1>8, QueuedAside DEF Located
  <1>11. Ran(b)'
    <2>1. ASSUME NEW u \in Tasks PROVE Started(b, u)' <=> Started(at, u)
      <3>1. CASE u = t
        BY <1>7, <1>8, <3>1 DEF Started, Moved
      <3>2. CASE u # t
        <4>1. b[u] = at[u] /\ at[u].owner \in Processors
          BY <1>7, <3>2, SiteTypes DEF Moved
        <4> QED  BY <1>2, <4>1 DEF Started, Inside
      <3> QED  BY <3>1, <3>2
    <2> QED  BY <1>6, <2>1 DEF Located, Ran
  <1>12. OnStacks(b)'
    <2>1. ASSUME NEW q \in Processors, NEW n \in Nat, First(q)' <= n, n < Top(q)'
          PROVE  /\ Entry(q, n)' \in Tasks
                 /\ b[Entry(q, n)'] = [kind |-> "stack", owner |-> q, num |-> n]
      <3>1. CASE q = p /\ n = m
        BY <1>4, <1>8, <3>1
      <3>2. CASE ~(q = p /\ n = m)
        <4>1. First(q) <= n /\ n < Top(q) /\ Entry(q, n)' = Entry(q, n)
          BY <1>1, <1>3, <1>4, <1>5, <2>1, <3>2
        <4>2. /\ Entry(q, n) \in Tasks
              /\ at[Entry(q, n)] = [kind |-> "stack", owner |-> q, num |-> n]
          BY <1>6, <4>1 DEF Located, OnStacks
        <4>3. Entry(q, n) # t
          BY <1>8, <4>2
        <4> QED  BY <1>7, <4>1, <4>2, <4>3 DEF Moved
      <3> QED  BY <3>1, <3>2
    <2>2. ASSUME NEW u \in Tasks, b[u].kind = "stack"
          PROVE  /\ First(b[u].owner)' <= b[u].num /\ b[u].num < Top(b[u].owner)'
                 /\ Entry(b[u].owner, b[u].num)' = u
      <3>1. CASE u = t
        BY <1>4, <1>8, <3>1
      <3>2. CASE u # t
        <4>1. b[u] = at[u]
          BY <1>7, <3>2 DEF Moved
        <4>2. PICK q \in Processors, n \in Nat : q = at[u].owner /\ n = at[u].num
          BY SiteTypes
        <4>3. First(q) <= n /\ n < Top(q) /\ Entry(q, n) = u
          BY <1>6, <2>2, <4>1, <4>2 DEF Located, OnStacks
        <4>4. First(q)' <= n /\ n < Top(q)' /\ Entry(q, n)' = u
          BY <1>1, <1>3, <1>4, <1>5, <4>3
        <4> QED  BY <4>1, <4>2, <4>4
      <3> QED  BY <3>1, <3>2
    <2> QED  BY <2>1, <2>2 DEF OnStacks
  <1> QED  BY <1>9, <1>10, <1>11, <1>12 DEF Placed, Located

\* The end of the stack moves: the entries are the same.
LEMMA PushEndPlaces ==
    ASSUME Types, Types', StackInv, Placed, NEW p \in Processors, PushEnd(p)
    PROVE  Placed'
  <1>1. /\ pc[p] = "push" /\ stack' = [stack EXCEPT ![p].end = Plus1(stack[p].end)]
        /\ pc' = [pc EXCEPT ![p] = "note"] /\ queue' = queue /\ task' = task
        /\ spawned' = spawned /\ finished' = finished /\ runs' = runs
    BY DEF PushEnd, Goto, fixed, history, shared
  <1>2. /\ stack' \in [Processors -> Stacks]
        /\ \A q \in Processors : q # p => stack'[q] = stack[q]
        /\ stack'[p].start = stack[p].start /\ stack'[p].slot = stack[p].slot
        /\ Last(p)' = Last(p) + 1
    BY <1>1, PushEndEffect
  <1>3. pc'[p] = "note" /\ \A q \in Processors : q # p => pc'[q] = pc[q]
    BY <1>1 DEF Types
  <1>4. \A q \in Processors : First(q)' = First(q) /\ Top(q)' = Top(q)
    BY <1>1, <1>2, <1>3 DEF First, Last, Top
  <1>5. \A q \in Processors, n \in Nat : Entry(q, n)' = Entry(q, n)
    BY <1>2 DEF Entry
  <1>6. PICK at \in Sites : Located(at)
    BY DEF Placed
  <1>7. \A u \in Tasks : at[u].owner \in Processors /\ at[u].num \in Nat
    BY SiteTypes
  <1>8. Fates(at)' /\ Queued(at)' /\ Held(at)'
    BY <1>1, <1>6 DEF Located, Fates, Queued, Held
  <1>9. OnStacks(at)'
    BY <1>4, <1>5, <1>6, <1>7 DEF Located, OnStacks
  <1>10. \A u \in Tasks : Started(at, u)' <=> Started(at, u)
    BY <1>1, <1>3, <1>7 DEF Started, Inside
  <1>11. Ran(at)'
    BY <1>1, <1>6, <1>10 DEF Located, Ran
  <1> QED  BY <1>8, <1>9, <1>11 DEF Placed, Located

\* The task that a processor has starts: for the first time.
LEMMA RunPlaces ==
    ASSUME Types, Types', Placed, NEW p \in Processors, NEW t \in Tasks, t = task[p],
           pc[p] = "run", pc' = [pc EXCEPT ![p] = "func"],
           runs' = [runs EXCEPT ![t] = runs[t] + 1],
           UNCHANGED <<spawned, finished, stack, queue, task>>
    PROVE  Placed' /\ runs[t] = 0 /\ t \in spawned
  <1>1. PICK at \in Sites : Located(at)
    BY DEF Placed
  <1>2. at[t].kind = "held" /\ at[t].owner = p
    BY <1>1 DEF Located, Held
  <1>3. runs[t] = 0 /\ t \in spawned
    BY <1>1, <1>2 DEF Located, Ran, Started, Fates, Inside
  <1>4. pc'[p] = "func" /\ \A q \in Processors : q # p => pc'[q] = pc[q]
    BY DEF Types
  <1>5. /\ \A q \in Processors : First(q)' = First(q) /\ Top(q)' = Top(q)
        /\ \A q \in Processors, n \in Nat : Entry(q, n)' = Entry(q, n)
    BY <1>4 DEF First, Last, Top, Entry
  <1>6. \A u \in Tasks : at[u].owner \in Processors /\ at[u].num \in Nat
    BY SiteTypes
  <1>7. Fates(at)' /\ Queued(at)' /\ Held(at)'
    BY <1>1 DEF Located, Fates, Queued, Held
  <1>8. OnStacks(at)'
    BY <1>1, <1>5, <1>6 DEF Located, OnStacks
  <1>9. Ran(at)'
    <2>1. ASSUME NEW u \in Tasks PROVE runs'[u] = IF Started(at, u)' THEN 1 ELSE 0
      <3>1. CASE u = t
        BY <1>2, <1>3, <1>4, <3>1 DEF Started, Inside, Types
      <3>2. CASE u # t
        <4>1. at[u].kind = "held" => at[u].owner # p
          BY <1>1, <3>2 DEF Located, Held
        <4>2. Started(at, u)' <=> Started(at, u)
          BY <1>4, <1>6, <4>1 DEF Started
        <4>3. runs'[u] = runs[u]
          BY <3>2 DEF Types
        <4> QED  BY <1>1, <4>2, <4>3 DEF Located, Ran
      <3> QED  BY <3>1, <3>2
    <2> QED  BY <2>1 DEF Ran
  <1> QED  BY <1>3, <1>7, <1>8, <1>9 DEF Placed, Located

\* A task that completes has been spawned, was not completed before, and is done.
LEMMA DonePlaces ==
    ASSUME Types, Types', Placed, NEW p \in Processors, NEW t \in Tasks, t = task[p],
           pc[p] = "pred", pc'[p] \notin Inside, \A q \in Processors : q # p => pc'[q] = pc[q],
           finished' = finished \cup {t}, task'[p] \notin Tasks,
           \A q \in Processors : q # p => task'[q] = task[q],
           UNCHANGED <<spawned, stack, queue, runs>>
    PROVE  Placed' /\ t \in spawned \ finished
  <1>1. PICK at \in Sites : Located(at)
    BY DEF Placed
  <1>2. at[t].kind = "held" /\ at[t].owner = p
    BY <1>1 DEF Located, Held
  <1>3. PICK b \in Sites : Moved(at, b, t, "done", p, 0)
    BY Relocate
  <1>4. t \in spawned \ finished
    BY <1>1, <1>2 DEF Located, Fates
  <1>5. Fates(b)'
    BY <1>1, <1>2, <1>3 DEF Located, Fates, Moved
  <1>6. Queued(b)'
    BY <1>1, <1>2, <1>3, QueuedAside DEF Located
  <1>7. /\ \A q \in Processors : First(q)' = First(q) /\ Top(q)' = Top(q)
        /\ \A q \in Processors, n \in Nat : Entry(q, n)' = Entry(q, n)
    BY DEF First, Last, Top, Entry, Inside
  <1>8. OnStacks(b)'
    BY <1>1, <1>2, <1>3, <1>7, OnStacksAside DEF Located
  <1>9. \A u \in Tasks : at[u].owner \in Processors
    BY SiteTypes
  <1>10. ASSUME NEW u \in Tasks, u # t PROVE b[u] = at[u] /\ (at[u].kind = "held" => at[u].owner # p)
    BY <1>1, <1>3, <1>10 DEF Moved, Located, Held
  <1>11. Held(b)'
    <2>1. ASSUME NEW q \in Processors, task'[q] \in Tasks
          PROVE  b[task'[q]].kind = "held" /\ b[task'[q]].owner = q
      <3>1. q # p /\ task'[q] = task[q]
        BY <2>1
      <3>2. at[task[q]].kind = "held" /\ at[task[q]].owner = q
        BY <1>1, <2>1, <3>1 DEF Located, Held
      <3>3. task[q] # t
        BY <1>2, <3>1, <3>2
      <3> QED  BY <1>10, <2>1, <3>1, <3>2, <3>3
    <2>2. ASSUME NEW u \in Tasks, b[u].kind = "held" PROVE task'[b[u].owner] = u
      <3>1. u # t
        BY <1>3, <2>2 DEF Moved
      <3>2. b[u] = at[u] /\ at[u].owner # p /\ at[u].kind = "held"
        BY <1>10, <2>2, <3>1
      <3> QED  BY <1>1, <1>9, <3>2 DEF Located, Held
    <2> QED  BY <2>1, <2>2 DEF Held
  <1>12. Ran(b)'
    <2>1. ASSUME NEW u \in Tasks PROVE Started(b, u)' <=> Started(at, u)
      <3>1. CASE u = t
        BY <1>2, <1>3, <3>1 DEF Started, Moved, Inside
      <3>2. CASE u # t
        BY <1>9, <1>10, <3>2 DEF Started
      <3> QED  BY <3>1, <3>2
    <2> QED  BY <1>1, <2>1 DEF Located, Ran
  <1> QED  BY <1>4, <1>5, <1>6, <1>8, <1>11, <1>12 DEF Placed, Located

-----------------------------------------------------------------------------
(* What has yet to be spawned, and the counts.                                *)

\* The first of a sequence without repetitions is not among the others.
LEMMA HeadTail ==
    ASSUME NEW s \in Seq(Tasks), s # <<>>, NoRepeat(s)
    PROVE  /\ Head(s) \in Tasks /\ Head(s) \in Among(s) /\ Tail(s) \in Seq(Tasks)
           /\ NoRepeat(Tail(s)) /\ Among(Tail(s)) \subseteq Among(s) \ {Head(s)}
  <1>1. /\ Len(s) \in Nat /\ Len(s) >= 1 /\ DOMAIN s = 1 .. Len(s)
        /\ DOMAIN Tail(s) = 1 .. Len(s) - 1
        /\ \A i \in 1 .. Len(s) : s[i] \in Tasks
        /\ \A i \in 1 .. Len(s) - 1 : Tail(s)[i] = s[i + 1]
        /\ Head(s) = s[1] /\ Tail(s) \in Seq(Tasks)
    OBVIOUS
  <1>2. \A i, j \in 1 .. Len(s) : s[i] = s[j] => i = j
    BY <1>1 DEF NoRepeat
  <1>3. NoRepeat(Tail(s))
    BY <1>1, <1>2 DEF NoRepeat
  <1>4. ASSUME NEW x \in Among(Tail(s)) PROVE x \in Among(s) /\ x # Head(s)
    <2>1. PICK i \in 1 .. Len(s) - 1 : x = s[i + 1]
      BY <1>1 DEF Among
    <2>2. i + 1 \in 1 .. Len(s) /\ 1 \in 1 .. Len(s) /\ i + 1 # 1
      BY <1>1
    <2> QED  BY <1>1, <1>2, <2>1, <2>2 DEF Among
  <1>5. Head(s) \in Among(s) /\ Head(s) \in Tasks
    BY <1>1 DEF Among
  <1> QED  BY <1>1, <1>3, <1>4, <1>5

\* Tasks have one parent, the client or a task.
LEMMA OneParent ==
    /\ Among(Roots) \subseteq Tasks
    /\ \A t \in Tasks : Among(Children[t]) \subseteq Tasks /\ NoRepeat(Children[t])
                     /\ Children[t] \in Seq(Tasks)
                     /\ \A x \in Among(Children[t]) : x \notin Among(Roots)
    /\ \A t, u \in Tasks : \A x \in Among(Children[t]) : x \in Among(Children[u]) => t = u
  <1>1. Among(Roots) \subseteq Tasks
    BY SchedulerAssumption DEF Among
  <1>2. ASSUME NEW t \in Tasks
        PROVE  /\ Among(Children[t]) \subseteq Tasks /\ NoRepeat(Children[t])
               /\ Children[t] \in Seq(Tasks)
               /\ \A x \in Among(Children[t]) : x \notin Among(Roots)
    <2>1. Children[t] \in Seq(Tasks)
      BY SchedulerAssumption
    <2>2. Among(Children[t]) \subseteq Tasks
      BY <2>1 DEF Among
    <2>3. NoRepeat(Children[t]) /\ Among(Roots) \cap Among(Children[t]) = {}
      BY TasksAssumption
    <2> QED  BY <2>1, <2>2, <2>3
  <1>3. ASSUME NEW t \in Tasks, NEW u \in Tasks, NEW x \in Among(Children[t]),
               x \in Among(Children[u])
        PROVE  t = u
    <2>1. t # u => Among(Children[t]) \cap Among(Children[u]) = {}
      BY TasksAssumption
    <2> QED  BY <1>3, <2>1
  <1> QED  BY <1>1, <1>2, <1>3

\* A processor with children to spawn has the task whose children they are.
LEMMA ParentHeld ==
    ASSUME Types, AllModes, Placed, NEW p \in Processors, kids[p] # <<>>
    PROVE  /\ task[p] \in Tasks /\ runs[task[p]] = 1
           /\ task[p] \in spawned \ finished
           /\ \A q \in Processors : q # p => task[q] # task[p]
  <1>1. pc[p] \in Inside /\ task[p] \in Tasks
    BY DEF AllModes, Modes
  <1>2. PICK at \in Sites : Located(at)
    BY DEF Placed
  <1>3. at[task[p]].kind = "held" /\ at[task[p]].owner = p
    BY <1>1, <1>2 DEF Located, Held
  <1>4. \A q \in Processors : q # p => task[q] # task[p]
    BY <1>1, <1>2, <1>3 DEF Located, Held
  <1>5. runs[task[p]] = 1
    BY <1>1, <1>2, <1>3 DEF Located, Ran, Started
  <1> QED  BY <1>1, <1>2, <1>3, <1>4, <1>5 DEF Located, Fates

\* The client spawns a root.
LEMMA SpawnFamily ==
    ASSUME Types, AllModes, Placed, Family, toSpawn # <<>>, toSpawn' = Tail(toSpawn),
           spawned' = spawned \cup {Head(toSpawn)}, UNCHANGED <<kids, task, runs>>
    PROVE  Family' /\ Head(toSpawn) \in Tasks \ spawned
  <1>1. PICK t \in Tasks : t = Head(toSpawn) /\ t \in Among(Roots) /\ t \notin spawned
    BY HeadTail DEF Types, Family, Pending
  <1>2. Pending'
    BY <1>1, HeadTail DEF Types, Family, Pending
  <1>3. ASSUME NEW q \in Processors PROVE Unborn(q)'
    <2>1. kids[q] # <<>> => t \notin Among(Children[task[q]])
      BY <1>1, ParentHeld, OneParent
    <2> QED  BY <1>1, <2>1 DEF Family, Unborn
  <1>4. ASSUME NEW u \in Tasks, runs'[u] = 0 PROVE Among(Children[u]) \cap spawned' = {}
    <2>1. t \notin Among(Children[u])
      BY <1>1, OneParent
    <2> QED  BY <1>1, <1>4, <2>1 DEF Family
  <1> QED  BY <1>1, <1>2, <1>3, <1>4 DEF Family

\* A function spawns a child.
LEMMA ChildFamily ==
    ASSUME Types, AllModes, Placed, Family, NEW p \in Processors, kids[p] # <<>>,
           kids' = [kids EXCEPT ![p] = Tail(kids[p])],
           spawned' = spawned \cup {Head(kids[p])}, UNCHANGED <<toSpawn, task, runs>>
    PROVE  Family' /\ Head(kids[p]) \in Tasks \ spawned /\ Head(kids[p]) \notin Among(Roots)
  <1>1. /\ task[p] \in Tasks /\ runs[task[p]] = 1
        /\ \A q \in Processors : q # p => task[q] # task[p]
    BY ParentHeld
  <1>2. kids[p] \in Seq(Tasks) /\ NoRepeat(kids[p])
        /\ Among(kids[p]) \subseteq Among(Children[task[p]]) \ spawned
    BY DEF Types, Family, Unborn
  <1>3. PICK t \in Tasks : t = Head(kids[p]) /\ t \in Among(Children[task[p]]) /\ t \notin spawned
    BY <1>2, HeadTail
  <1>4. t \notin Among(Roots)
    BY <1>1, <1>3, OneParent
  <1>5. Pending'
    BY <1>3, <1>4 DEF Family, Pending
  <1>6. ASSUME NEW q \in Processors PROVE Unborn(q)'
    <2>1. CASE q = p
      <3>1. kids'[p] = Tail(kids[p])
        BY DEF Types
      <3>2. NoRepeat(Tail(kids[p])) /\ Among(Tail(kids[p])) \subseteq Among(kids[p]) \ {t}
        BY <1>2, <1>3, HeadTail
      <3> QED  BY <1>2, <1>3, <2>1, <3>1, <3>2 DEF Unborn
    <2>2. CASE q # p
      <3>1. kids'[q] = kids[q]
        BY <2>2 DEF Types
      <3>2. kids[q] # <<>> => t \notin Among(Children[task[q]])
        BY <1>1, <1>3, <2>2, ParentHeld, OneParent
      <3> QED  BY <1>3, <3>1, <3>2 DEF Family, Unborn
    <2> QED  BY <2>1, <2>2
  <1>7. ASSUME NEW u \in Tasks, runs'[u] = 0 PROVE Among(Children[u]) \cap spawned' = {}
    <2>1. u # task[p] /\ t \notin Among(Children[u])
      <3>1. u # task[p]
        BY <1>1, <1>7
      <3>2. t \in Among(Children[u]) => u = task[p]
        BY <1>1, <1>3, OneParent
      <3> QED  BY <3>1, <3>2
    <2> QED  BY <1>3, <1>7, <2>1 DEF Family
  <1> QED  BY <1>3, <1>4, <1>5, <1>6, <1>7 DEF Family

\* A task starts: its children are its own, and none has been spawned.
LEMMA RunFamily ==
    ASSUME Types, Family, NEW p \in Processors, NEW t \in Tasks, t = task[p], runs[t] = 0,
           NEW s \in {<<>>, Children[t]}, kids' = [kids EXCEPT ![p] = s],
           runs' = [runs EXCEPT ![t] = runs[t] + 1], UNCHANGED <<toSpawn, task, spawned>>
    PROVE  Family'
  <1>1. Pending'
    BY DEF Family, Pending
  <1>2. ASSUME NEW q \in Processors PROVE Unborn(q)'
    <2>1. CASE q = p
      <3>1. kids'[p] = s
        BY DEF Types
      <3>2. s # <<>> => NoRepeat(s) /\ Among(s) \subseteq Among(Children[t]) \ spawned
        BY OneParent DEF Family
      <3> QED  BY <2>1, <3>1, <3>2 DEF Unborn
    <2>2. CASE q # p
      <3>1. kids'[q] = kids[q]
        BY <2>2 DEF Types
      <3> QED  BY <3>1 DEF Family, Unborn
    <2> QED  BY <2>1, <2>2
  <1>3. ASSUME NEW u \in Tasks, runs'[u] = 0 PROVE runs[u] = 0
    BY <1>3 DEF Types
  <1> QED  BY <1>1, <1>2, <1>3 DEF Family

\* The tasks to complete, when one is spawned or completed.
LEMMA ToCompleteChange ==
    ASSUME Types, Types', NEW t \in Tasks, \A u \in Tasks : u # t =>
              (u \in spawned \ finished <=> u \in (spawned \ finished)')
    PROVE  /\ Cardinality(spawned \ finished) \in Nat /\ Cardinality(spawned \ finished)' \in Nat
           /\ Cardinality(spawned \ finished)' = Cardinality(spawned \ finished)
                  + One(t \in (spawned \ finished)') - One(t \in spawned \ finished)
  <1> DEFINE A == spawned \ finished
             B == spawned' \ finished'
  <1>1. A \subseteq Tasks /\ B \subseteq Tasks /\ \A u \in Tasks : u # t => (u \in A <=> u \in B)
    BY DEF Types
  <1>2. A = spawned \ finished /\ B = (spawned \ finished)'
    OBVIOUS
  <1> HIDE DEF A, B
  <1>3. /\ Cardinality(A) \in Nat /\ Cardinality(B) \in Nat
        /\ Cardinality(B) = Cardinality(A) + (IF t \in B THEN 1 ELSE 0) - (IF t \in A THEN 1 ELSE 0)
    BY <1>1, CountChange, TasksAssumption
  <1> QED  BY <1>2, <1>3 DEF One

\* There are tasks to complete, or none.
LEMMA ToComplete ==
    ASSUME Types
    PROVE  /\ Cardinality(spawned \ finished) \in Nat
           /\ Cardinality(spawned \ finished) = 0 <=> spawned \ finished = {}
  <1> DEFINE A == spawned \ finished
  <1>1. A \subseteq Tasks
    BY DEF Types
  <1> HIDE DEF A
  <1>2. Cardinality(A) \in Nat /\ (Cardinality(A) = 0 <=> A = {})
    BY <1>1, CountBounds, TasksAssumption
  <1> QED  BY <1>2 DEF A

-----------------------------------------------------------------------------
(* The client keeps the invariant.                                            *)

\* Nothing of the processors changes.
LEMMA ClientModes ==
    ASSUME Inv, UNCHANGED <<pc, task, kids, waiting, stack, aborting, abort>>
    PROVE  AllModes'
  BY DEF Inv, AllModes, Modes

\* What the client does keeps the global queue covered, if it adds no more than it
\* signals, or nobody waits.
LEMMA ClientCovered ==
    ASSUME Inv, Types', UNCHANGED <<pc, waiting, aborting>>,
           Len(queue') + avail + One(mpc = "signal") <= Len(queue) + avail' + One(mpc' = "signal")
           \/ \A p \in Processors : ~waiting[p]
    PROVE  Covered'
  <1> SUFFICES ASSUME aborting = "no", NEW q \in Processors, waiting[q] /\ pc[q] \in Past
               PROVE  Len(queue') <= avail' + One(mpc' = "signal")
                                     + Cardinality({p \in Processors : pc[p] \in Looking})
    BY DEF Covered
  <1> DEFINE n == Cardinality({p \in Processors : pc[p] \in Looking})
  <1>1. n \in Nat
    <2>1. {p \in Processors : pc[p] \in Looking} \subseteq Processors
      OBVIOUS
    <2> QED  BY <2>1, CountBounds, ProcessorsFinite
  <1>2. Len(queue) <= avail + One(mpc = "signal") + n
    BY DEF Inv, Covered
  <1>3. Len(queue) \in Nat /\ Len(queue') \in Nat /\ avail \in Nat /\ avail' \in Nat
    BY DEF Inv, Types
  <1> HIDE DEF n
  <1>4. Len(queue') <= avail' + One(mpc' = "signal") + n
    BY <1>1, <1>2, <1>3 DEF One
  <1> QED  BY <1>4 DEF n

\* spawn() by the client: the task is on the queue before anybody is signalled.
LEMMA SpawnInv ==
    ASSUME Inv, Spawn
    PROVE  Inv'
  <1>1. /\ mpc = "spawn" /\ toSpawn # <<>> /\ toSpawn' = Tail(toSpawn)
        /\ UNCHANGED <<exception, sem, processorsWaiting, avail, stack, pc, task, kids, waiting,
                       target, cur, got, aborting, abort, finished, refused, runs>>
    BY DEF Spawn, searching, stopping
  <1>2. Types /\ AllModes /\ StackInv /\ Placed /\ Family /\ Predecessors
    BY DEF Inv
  <1>3. toSpawn \in Seq(Tasks) /\ NoRepeat(toSpawn) /\ Tail(toSpawn) \in Seq(Tasks)
        /\ NoRepeat(Tail(toSpawn)) /\ Among(Tail(toSpawn)) \subseteq Among(toSpawn)
    BY <1>1, <1>2, HeadTail DEF Types, Family, Pending
  <1>4. AllModes' /\ WaitersCounted'
    BY <1>1, ClientModes DEF Inv, WaitersCounted
  <1>5. CASE exception
    <2>1. UNCHANGED <<mpc, pred, queue, spawned>>
      BY <1>5 DEF Spawn
    <2>2. Types'
      BY <1>1, <1>2, <1>3, <2>1 DEF Types
    <2>3. StackInv'
      BY <1>1, <1>2, <2>1, StacksKept DEF Types
    <2>4. Placed'
      BY <1>1, <1>2, <2>1, <2>2, PlacedKept
    <2>5. Family'
      BY <1>1, <1>2, <1>3, <2>1 DEF Family, Pending, Unborn
    <2>6. Predecessors'
      BY <1>1, <1>2, <2>1, PredecessorsKept
    <2>7. Covered'
      BY <1>1, <2>1 DEF Inv, Covered
    <2> QED  BY <1>4, <2>2, <2>3, <2>4, <2>5, <2>6, <2>7 DEF Inv
  <1>6. CASE ~exception
    <2>1. /\ pred' = pred + 1 /\ queue' = Append(queue, Head(toSpawn))
          /\ spawned' = spawned \cup {Head(toSpawn)} /\ mpc' = "signal"
      BY <1>6 DEF Spawn
    <2>2. Family' /\ Head(toSpawn) \in Tasks \ spawned
      BY <1>1, <1>2, <2>1, SpawnFamily
    <2>3. PICK t \in Tasks : t = Head(toSpawn) /\ t \notin spawned
      BY <2>2
    <2>4. Types'
      BY <1>1, <1>2, <1>3, <2>1, <2>3 DEF Types
    <2>5. StackInv'
      BY <1>1, <1>2, <2>1, <2>4, StacksKept DEF Types
    <2>6. Placed'
      BY <1>1, <1>2, <2>1, <2>3, <2>4, SpawnPlaces
    <2>7. Predecessors'
      <3> DEFINE n == Cardinality(spawned \ finished)
      <3>1. n \in Nat /\ n' \in Nat
            /\ n' = n + One(t \in (spawned \ finished)') - One(t \in spawned \ finished)
        BY <1>1, <1>2, <2>1, <2>3, <2>4, ToCompleteChange
      <3>2. t \in (spawned \ finished)' /\ t \notin spawned \ finished
        <4>1. t \notin finished
          BY <1>2, <2>3 DEF Placed, Located, Fates
        <4> QED  BY <1>1, <2>1, <2>3, <4>1
      <3>3. pred = 1 + n + One(refused) /\ (refused => exception)
            /\ (sem > 0 \/ (\E p \in Processors : task[p] = Completion) => pred = 0)
        BY <1>1, <1>2 DEF Predecessors, One
      <3> HIDE DEF n
      <3>4. n' = n + 1 /\ pred # 0 /\ pred' = 1 + n' + One(refused)
        BY <2>1, <3>1, <3>2, <3>3 DEF One
      <3>5. pred' = One(mpc' \in {"spawn", "signal"}) + n' + One(refused')
        BY <1>1, <2>1, <3>1, <3>4 DEF One
      <3> QED  BY <1>1, <2>1, <3>3, <3>4, <3>5 DEF Predecessors, n
    <2>8. Covered'
      <3>1. Len(queue') = Len(queue) + 1 /\ Len(queue) \in Nat /\ avail \in Nat /\ avail' = avail
        BY <1>1, <1>2, <2>1, <2>3 DEF Types
      <3>2. Len(queue') + avail + One(mpc = "signal") <= Len(queue) + avail' + One(mpc' = "signal")
        BY <1>1, <2>1, <3>1 DEF One
      <3> QED  BY <1>1, <2>4, <3>2, ClientCovered
    <2> QED  BY <1>4, <2>2, <2>4, <2>5, <2>6, <2>7, <2>8 DEF Inv
  <1> QED  BY <1>5, <1>6

\* A counted processor is seen waiting.
LEMMA SeenWaiting ==
    ASSUME Inv
    PROVE  /\ processorsWaiting \in 0 .. NumProcessors
           /\ processorsWaiting = 0 <=> \A p \in Processors : ~waiting[p]
  <1> DEFINE W == {p \in Processors : waiting[p]}
  <1>1. W \subseteq Processors /\ (W = {} <=> \A p \in Processors : ~waiting[p])
    OBVIOUS
  <1>2. processorsWaiting = Cardinality(W)
    BY DEF Inv, WaitersCounted
  <1> HIDE DEF W
  <1>3. Cardinality(W) \in Nat /\ Cardinality(W) <= NumProcessors /\ (Cardinality(W) = 0 <=> W = {})
    BY <1>1, CountBounds, ProcessorsFinite
  <1> QED  BY <1>1, <1>2, <1>3, SchedulerAssumption

\* The signal after it: who waits now gets a token for the task.
LEMMA SpawnSignalInv ==
    ASSUME Inv, SpawnSignal
    PROVE  Inv'
  <1>1. /\ mpc = "signal" /\ mpc' = "spawn"
        /\ avail' = (IF processorsWaiting > 0 THEN avail + 1 ELSE avail)
        /\ UNCHANGED <<toSpawn, pred, exception, sem, queue, processorsWaiting, stack, pc, task,
                       kids, waiting, target, cur, got, aborting, abort, spawned, finished,
                       refused, runs>>
    BY DEF SpawnSignal, SignalIfWaiting, completion, searching, stopping, history
  <1>2. Types /\ AllModes /\ StackInv /\ Placed /\ Family /\ Predecessors
    BY DEF Inv
  <1>3. Types'
    BY <1>1, <1>2 DEF Types
  <1>4. AllModes' /\ WaitersCounted'
    BY <1>1, ClientModes DEF Inv, WaitersCounted
  <1>5. StackInv'
    BY <1>1, <1>2, StacksKept DEF Types
  <1>6. Placed'
    BY <1>1, <1>2, <1>3, PlacedKept
  <1>7. Family'
    BY <1>1, <1>2, FamilyKept
  <1>8. Predecessors'
    BY <1>1, <1>2 DEF Predecessors
  <1>9. Covered'
    <2>1. processorsWaiting \in Nat
      BY SeenWaiting
    <2>2. Len(queue) \in Nat /\ avail \in Nat
      BY <1>2 DEF Types
    <2>3. processorsWaiting > 0 =>
            Len(queue') + avail + One(mpc = "signal") <= Len(queue) + avail' + One(mpc' = "signal")
      BY <1>1, <2>2 DEF One
    <2>4. processorsWaiting > 0 \/ \A p \in Processors : ~waiting[p]
      BY <2>1, SeenWaiting
    <2> QED  BY <1>1, <1>3, <2>3, <2>4, ClientCovered
  <1> QED  BY <1>3, <1>4, <1>5, <1>6, <1>7, <1>8, <1>9 DEF Inv

\* decAndWait(): the client gives up its own predecessor.
LEMMA DecAndWaitInv ==
    ASSUME Inv, DecAndWait
    PROVE  Inv'
  <1>1. /\ mpc = "spawn" /\ mpc' = (IF pred = 1 THEN "returned" ELSE "wait") /\ pred' = pred - 1
        /\ UNCHANGED <<toSpawn, exception, sem, queue, processorsWaiting, avail, stack, pc, task,
                       kids, waiting, target, cur, got, aborting, abort, spawned, finished,
                       refused, runs>>
    BY DEF DecAndWait, shared, searching, stopping, history
  <1>2. Types /\ AllModes /\ StackInv /\ Placed /\ Family /\ Predecessors
    BY DEF Inv
  <1>3. Types'
    BY <1>1, <1>2 DEF Types
  <1>4. AllModes' /\ WaitersCounted'
    BY <1>1, ClientModes DEF Inv, WaitersCounted
  <1>5. StackInv'
    BY <1>1, <1>2, StacksKept DEF Types
  <1>6. Placed'
    BY <1>1, <1>2, <1>3, PlacedKept
  <1>7. Family'
    BY <1>1, <1>2, FamilyKept
  <1>8. Predecessors'
    <2>1. Cardinality(spawned \ finished) \in Nat
      BY <1>2, ToComplete
    <2>2. /\ pred = 1 + Cardinality(spawned \ finished) + One(refused) /\ pred # 0
          /\ (refused => exception)
          /\ (sem > 0 \/ (\E p \in Processors : task[p] = Completion) => pred = 0)
      BY <1>1, <1>2, <2>1 DEF Predecessors, One
    <2>3. pred' = 0 + Cardinality(spawned \ finished) + One(refused)
      BY <1>1, <2>1, <2>2 DEF One
    <2> QED  BY <1>1, <2>1, <2>2, <2>3 DEF Predecessors, One
  <1>9. Covered'
    BY <1>1, <1>3, ClientCovered DEF One, Inv, Covered
  <1> QED  BY <1>3, <1>4, <1>5, <1>6, <1>7, <1>8, <1>9 DEF Inv

\* The wait ends with a token, which only the completion task makes.
LEMMA WaitEndsInv ==
    ASSUME Inv, WaitEnds
    PROVE  Inv'
  <1>1. /\ mpc = "wait" /\ sem > 0 /\ sem' = sem - 1 /\ mpc' = "returned"
        /\ UNCHANGED <<toSpawn, pred, exception, queue, processorsWaiting, avail, stack, pc, task,
                       kids, waiting, target, cur, got, aborting, abort, spawned, finished,
                       refused, runs>>
    BY DEF WaitEnds, shared, searching, stopping, history
  <1>2. Types /\ AllModes /\ StackInv /\ Placed /\ Family /\ Predecessors
    BY DEF Inv
  <1>3. Types'
    BY <1>1, <1>2 DEF Types
  <1>4. AllModes' /\ WaitersCounted'
    BY <1>1, ClientModes DEF Inv, WaitersCounted
  <1>5. StackInv'
    BY <1>1, <1>2, StacksKept DEF Types
  <1>6. Placed'
    BY <1>1, <1>2, <1>3, PlacedKept
  <1>7. Family'
    BY <1>1, <1>2, FamilyKept
  <1>8. Predecessors'
    BY <1>1, <1>2 DEF Predecessors, One, Types
  <1>9. Covered'
    BY <1>1 DEF One, Inv, Covered
  <1> QED  BY <1>3, <1>4, <1>5, <1>6, <1>7, <1>8, <1>9 DEF Inv

-----------------------------------------------------------------------------
(* The processors keep the invariant.                                         *)

\* Only p goes on.
Alone(p) ==
    \A q \in Processors : q # p =>
        /\ pc'[q] = pc[q] /\ task'[q] = task[q] /\ kids'[q] = kids[q] /\ waiting'[q] = waiting[q]
        /\ target'[q] = target[q] /\ cur'[q] = cur[q] /\ got'[q] = got[q]

\* A step of a processor that moves no task and changes no stack.
LEMMA QuietStep ==
    ASSUME Inv, Types', NEW p \in Processors, Alone(p), Modes(p)', WaitersCounted', Covered',
           StackInv',
           UNCHANGED <<mpc, toSpawn, pred, sem, queue, stack, aborting, abort, spawned, finished,
                       refused, runs>>,
           exception => exception',
           pc[p] # "push", pc'[p] # "push", pc'[p] \in Inside <=> pc[p] \in Inside,
           task'[p] = task[p] \/ (task[p] \notin Tasks /\ task'[p] \notin Tasks),
           task'[p] = Completion => task[p] = Completion,
           kids'[p] # <<>> => kids'[p] = kids[p] /\ task'[p] = task[p]
    PROVE  Inv'
  <1>1. Types /\ AllModes /\ StackInv /\ Placed /\ Family /\ Predecessors
    BY DEF Inv
  <1>2. AllModes'
    BY <1>1, ModesKept DEF Alone
  <1>3. Placed'
    <2>1. \A q \in Processors : (pc'[q] = "push" <=> pc[q] = "push")
                             /\ (pc'[q] \in Inside <=> pc[q] \in Inside)
      BY DEF Alone
    <2>2. \A q \in Processors : task'[q] = task[q] \/ (task[q] \notin Tasks /\ task'[q] \notin Tasks)
      BY DEF Alone
    <2> QED  BY <1>1, <2>1, <2>2, PlacedKept
  <1>4. Family'
    <2>1. \A q \in Processors : kids'[q] # <<>> => kids'[q] = kids[q] /\ task'[q] = task[q]
      BY DEF Alone
    <2> QED  BY <1>1, <2>1, FamilyKept
  <1>5. Predecessors'
    <2>1. \A q \in Processors : task'[q] = Completion => task[q] = Completion
      BY DEF Alone
    <2> QED  BY <1>1, <2>1, PredecessorsKept
  <1> QED  BY <1>2, <1>3, <1>4, <1>5 DEF Inv

\* A step of a processor that does not use a stack either.
LEMMA PlainStep ==
    ASSUME Inv, Types', NEW p \in Processors, Alone(p), Modes(p)', WaitersCounted', Covered',
           UNCHANGED <<mpc, toSpawn, pred, sem, queue, stack, aborting, abort, spawned, finished,
                       refused, runs>>,
           exception => exception',
           pc[p] # "push", pc'[p] \notin Touching, pc'[p] \in Inside <=> pc[p] \in Inside,
           task'[p] = task[p] \/ (task[p] \notin Tasks /\ task'[p] \notin Tasks),
           task'[p] = Completion => task[p] = Completion,
           kids'[p] # <<>> => kids'[p] = kids[p] /\ task'[p] = task[p]
    PROVE  Inv'
  <1>1. \A q \in Processors :
          pc'[q] \in Touching =>
             pc'[q] = pc[q] /\ cur'[q] = cur[q] /\ got'[q] = got[q] /\ target'[q] = target[q]
    BY DEF Alone
  <1>2. Types /\ StackInv
    BY DEF Inv
  <1>3. StackInv'
    BY <1>1, <1>2, StacksKept DEF Types
  <1>4. pc'[p] # "push"
    BY DEF Touching
  <1> QED  BY <1>3, <1>4, QuietStep

\* The modes of one processor.
LEMMA ModesOf ==
    ASSUME Inv, NEW p \in Processors
    PROVE  Modes(p)
  BY DEF Inv, AllModes

\* A search begins, or ends because the scheduler is being destroyed.
LEMMA CheckAbortingInv ==
    ASSUME Inv, NEW p \in Processors, CheckAborting(p)
    PROVE  Inv'
  <1>1. /\ pc[p] = "check"
        /\ UNCHANGED <<mpc, toSpawn, pred, exception, sem, aborting, abort, spawned, finished,
                       refused, runs, queue, processorsWaiting, avail, stack, kids, waiting,
                       target, cur, got>>
    BY DEF CheckAborting, fixed, client, completion, stopping, history, shared, searching
  <1>2. Types /\ WaitersCounted /\ Covered /\ Modes(p)
    BY ModesOf DEF Inv
  <1>3. task[p] \notin Tasks
    BY <1>1, <1>2 DEF Modes, Holding
  <1>4. WaitersCounted'
    BY <1>1, <1>2 DEF WaitersCounted
  <1>5. CASE aborting # "no"
    <2>1. /\ task' = [task EXCEPT ![p] = None]
          /\ pc' = [pc EXCEPT ![p] = IF waiting[p] THEN "found" ELSE "run"]
      BY <1>5 DEF CheckAborting, Found, Goto
    <2>2. pc'[p] = (IF waiting[p] THEN "found" ELSE "run") /\ task'[p] = None
      BY <1>2, <2>1 DEF Types
    <2>3. Types'
      BY <1>1, <1>2, <2>1 DEF Types, Places
    <2>4. Alone(p)
      BY <1>1, <1>2, <2>1 DEF Alone, Types
    <2>5. Modes(p)'
      BY <1>1, <1>2, <1>5, <2>2, SchedulerAssumption DEF Modes, Inside, Searching, Holding, Types
    <2>6. Covered'
      BY <1>1, <1>5 DEF Covered
    <2>7. None \notin Tasks /\ None # Completion
      BY SchedulerAssumption
    <2> QED  BY <1>1, <1>3, <1>4, <2>2, <2>3, <2>4, <2>5, <2>6, <2>7, <1>2, PlainStep
             DEF Touching, Inside, Modes
  <1>6. CASE aborting = "no"
    <2>1. pc' = [pc EXCEPT ![p] = "queue"] /\ task' = task
      BY <1>6 DEF CheckAborting, Goto
    <2>2. pc'[p] = "queue"
      BY <1>2, <2>1 DEF Types
    <2>3. Types'
      BY <1>1, <1>2, <2>1 DEF Types, Places
    <2>4. Alone(p)
      BY <1>1, <1>2, <2>1 DEF Alone, Types
    <2>5. Modes(p)'
      BY <1>1, <1>2, <1>6, <2>1, <2>2 DEF Modes, Inside, Searching, Holding, Busy
    <2>6. Covered'
      <3>1. /\ UNCHANGED <<aborting, queue, mpc>> /\ avail <= avail' /\ pc'[p] \in Looking
            /\ \A q \in Processors : q # p => pc'[q] = pc[q] /\ waiting'[q] = waiting[q]
            /\ pc'[p] \notin Past
        BY <1>1, <1>2, <2>2, <2>4 DEF Alone, Types, Looking, Past
      <3> QED  BY <1>2, <2>3, <3>1, CoveredKept
    <2> QED  BY <1>1, <1>4, <2>1, <2>2, <2>3, <2>4, <2>5, <2>6, PlainStep DEF Touching, Inside
  <1> QED  BY <1>5, <1>6

\* A processor that was looking for tasks has taken t.
LEMMA FoundModes ==
    ASSUME Inv, Types', NEW p \in Processors, NEW t \in Tasks, task'[p] = t,
           pc[p] \in Searching, pc[p] # "found", pc'[p] = (IF waiting[p] THEN "found" ELSE "run"),
           waiting'[p] = waiting[p], kids'[p] = kids[p], UNCHANGED <<aborting, abort>>,
           stack'[p].start # stack'[p].end => stack[p].start # stack[p].end
    PROVE  Modes(p)' /\ task[p] \notin Tasks
  <1>1. Modes(p) /\ waiting[p] \in BOOLEAN
    BY ModesOf DEF Inv, Types
  <1>2. pc[p] \notin Holding /\ pc[p] \notin Busy /\ pc[p] \notin Inside
    BY DEF Searching, Holding, Busy, Inside
  <1>3. t # None
    BY SchedulerAssumption
  <1>4. kids[p] = <<>> /\ (aborting = "no" => stack[p].start = stack[p].end) /\ task[p] \notin Tasks
    BY <1>1, <1>2 DEF Modes
  <1> QED  BY <1>1, <1>3, <1>4 DEF Modes, Holding, Inside, Searching, Busy

\* A processor that takes a task, or gives one up, does not complete the tasks.
LEMMA TakenPredecessors ==
    ASSUME Predecessors, UNCHANGED <<pred, exception, sem, mpc, spawned, finished, refused>>,
           NEW p \in Processors, Alone(p), task'[p] # Completion
    PROVE  Predecessors'
  <1>1. \A q \in Processors : task'[q] = Completion => task[q] = Completion
    BY DEF Alone
  <1> QED  BY <1>1, PredecessorsKept

\* A task is taken from the global queue, or the queue is empty.
LEMMA DequeueInv ==
    ASSUME Inv, NEW p \in Processors, Dequeue(p)
    PROVE  Inv'
  <1>1. /\ pc[p] = "queue"
        /\ UNCHANGED <<mpc, toSpawn, pred, exception, sem, aborting, abort, spawned, finished,
                       refused, runs, processorsWaiting, avail, stack, kids, waiting, cur, got>>
    BY DEF Dequeue, fixed, client, completion, stopping, history
  <1>2. Types /\ AllModes /\ StackInv /\ Placed /\ Family /\ Predecessors /\ WaitersCounted
        /\ Covered /\ Modes(p)
    BY ModesOf DEF Inv
  <1>3. task[p] \notin Tasks /\ kids[p] = <<>>
    BY <1>1, <1>2 DEF Modes, Holding, Inside
  <1>4. WaitersCounted'
    BY <1>1, <1>2 DEF WaitersCounted
  <1>5. CASE queue # <<>>
    <2>1. /\ queue' = Tail(queue) /\ target' = target
          /\ task' = [task EXCEPT ![p] = Head(queue)]
          /\ pc' = [pc EXCEPT ![p] = IF waiting[p] THEN "found" ELSE "run"]
      BY <1>5 DEF Dequeue, Found, Goto
    <2>2. PICK t \in Tasks : t = Head(queue)
      BY <1>2, <1>5 DEF Types
    <2>3. Types'
      BY <1>1, <1>2, <1>5, <2>1, <2>2 DEF Types, Places
    <2>4. Alone(p) /\ pc'[p] = (IF waiting[p] THEN "found" ELSE "run") /\ task'[p] = t
      BY <1>1, <1>2, <2>1, <2>2 DEF Alone, Types
    <2>5. Modes(p)'
      BY <1>1, <2>2, <2>3, <2>4, FoundModes DEF Searching
    <2>6. AllModes'
      BY <1>1, <1>2, <2>4, <2>5, ModesKept DEF Alone
    <2>7. StackInv'
      <3>1. \A q \in Processors : pc'[q] \in Touching =>
              pc'[q] = pc[q] /\ cur'[q] = cur[q] /\ got'[q] = got[q] /\ target'[q] = target[q]
        BY <2>4 DEF Alone, Touching
      <3> QED  BY <1>1, <1>2, <3>1, StacksKept DEF Types
    <2>8. Placed'
      <3>1. pc'[p] \in {"found", "run"} /\ \A q \in Processors : q # p => pc'[q] = pc[q]
        BY <2>4 DEF Alone
      <3> QED  BY <1>1, <1>2, <1>3, <1>5, <2>1, <2>2, <2>3, <3>1, DequeuePlaces
    <2>9. Family'
      <3>1. \A q \in Processors : kids'[q] # <<>> => kids'[q] = kids[q] /\ task'[q] = task[q]
        BY <1>1, <1>3, <2>4 DEF Alone
      <3> QED  BY <1>1, <1>2, <3>1, FamilyKept
    <2>10. Predecessors'
      <3>1. t # Completion
        BY SchedulerAssumption
      <3> QED  BY <1>1, <1>2, <2>4, <3>1, TakenPredecessors
    <2>11. Covered'
      <3> SUFFICES ASSUME aborting = "no", NEW q \in Processors, waiting'[q] /\ pc'[q] \in Past
                   PROVE  Len(queue') <= avail' + One(mpc' = "signal")
                                     + Cardinality({r \in Processors : pc[r] \in Looking})'
        BY <1>1 DEF Covered
      <3>1. q # p /\ waiting[q] /\ pc[q] \in Past
        BY <1>1, <2>4 DEF Alone, Past
      <3> DEFINE n == Cardinality({r \in Processors : pc[r] \in Looking})
      <3>2. n \in Nat /\ n' \in Nat /\ n' = n + One(pc'[p] \in Looking) - One(pc[p] \in Looking)
        BY <1>2, <2>3, <2>4, LookingChange DEF Alone
      <3>3. Len(queue) <= avail + One(mpc = "signal") + n
        BY <1>2, <3>1 DEF Covered
      <3>4. Len(queue') = Len(queue) - 1 /\ Len(queue) \in Nat /\ avail \in Nat
        BY <1>2, <1>5, <2>1 DEF Types
      <3> HIDE DEF n
      <3>5. n' = n - 1
        BY <1>1, <2>4, <3>2 DEF One, Looking
      <3>6. Len(queue') <= avail' + One(mpc' = "signal") + n'
        BY <1>1, <3>2, <3>3, <3>4, <3>5 DEF One
      <3> QED  BY <3>6 DEF n
    <2> QED  BY <1>4, <2>3, <2>6, <2>7, <2>8, <2>9, <2>10, <2>11 DEF Inv
  <1>6. CASE queue = <<>>
    <2>1. /\ queue' = queue /\ task' = task /\ TryNext(p, p)
      BY <1>6 DEF Dequeue
    <2>2. Types' /\ Alone(p) /\ pc'[p] \in {"nothing", "steal"}
      <3>1. NextTarget(p) \in Processors
        BY SchedulerAssumption DEF NextTarget, Processors
      <3>2. target' = [target EXCEPT ![p] = IF NextTarget(p) = p THEN p ELSE NextTarget(p)]
            /\ pc' = [pc EXCEPT ![p] = IF NextTarget(p) = p THEN "nothing" ELSE "steal"]
        BY <2>1 DEF TryNext, Goto
      <3> QED  BY <1>1, <1>2, <2>1, <3>1, <3>2 DEF Types, Places, Alone
    <2>3. Modes(p)'
      BY <1>1, <1>2, <2>1, <2>2 DEF Modes, Inside, Searching, Holding, Busy
    <2>4. Covered'
      <3>1. Len(queue') = 0 /\ avail' \in Nat
        BY <1>6, <2>1, <2>2 DEF Types
      <3>2. Cardinality({r \in Processors : pc[r] \in Looking})' \in Nat
        BY <1>2, <2>2, LookingChange DEF Alone
      <3> QED  BY <3>1, <3>2 DEF Covered, One
    <2> QED  BY <1>1, <1>4, <2>1, <2>2, <2>3, <2>4, PlainStep DEF Touching, Inside
  <1> QED  BY <1>5, <1>6

\* A thief that has loaded a pair goes on with it, or with the next stack.
LEMMA LoadedInv ==
    ASSUME Inv, NEW p \in Processors, pc[p] \in {"steal", "cas"},
           Loaded(p, Pair(stack[target[p]])),
           got' = got \/ got' = [got EXCEPT ![p] = None],
           UNCHANGED <<fixed, shared, stack, task, kids, waiting>>
    PROVE  Inv'
  <1>1. UNCHANGED <<mpc, toSpawn, pred, exception, sem, aborting, abort, spawned, finished,
                    refused, runs, queue, processorsWaiting, avail, stack, task, kids, waiting>>
    BY DEF fixed, client, completion, stopping, history, shared
  <1>2. Types /\ StackInv /\ WaitersCounted /\ Covered /\ Modes(p)
    BY ModesOf DEF Inv
  <1>3. Types' /\ Alone(p) /\ pc'[p] \in {"nothing", "steal", "get"}
    <2>1. target[p] \in Processors /\ NextTarget(target[p]) \in Processors
      <3>1. target[p] \in Processors
        BY <1>2 DEF Types
      <3>2. \A q \in Processors : NextTarget(q) \in Processors
        BY SchedulerAssumption DEF NextTarget, Processors
      <3> QED  BY <3>1, <3>2
    <2>2. Pair(stack[target[p]]) \in Pairs /\ NoPair \in Pairs
      BY <1>2, <2>1, StackTypes, Widths DEF Pair, Pairs, NoPair, Numbers
    <2>3. got' \in [Processors -> Tasks \cup {None}]
          /\ \A q \in Processors : q # p => got'[q] = got[q]
      BY <1>2 DEF Types
    <2>4. PICK l \in {"nothing", "steal", "get"}, g \in Processors, c \in Pairs :
            /\ pc' = [pc EXCEPT ![p] = l] /\ target' = [target EXCEPT ![p] = g]
            /\ cur' = [cur EXCEPT ![p] = c]
      <3>1. CASE Pair(stack[target[p]]).start = Pair(stack[target[p]]).end
        <4>1. /\ target' = [target EXCEPT ![p] = IF NextTarget(target[p]) = p THEN p
                                                  ELSE NextTarget(target[p])]
              /\ pc' = [pc EXCEPT ![p] = IF NextTarget(target[p]) = p THEN "nothing" ELSE "steal"]
              /\ cur' = [cur EXCEPT ![p] = NoPair]
          BY <3>1 DEF Loaded, TryNext, Goto
        <4>2. CASE NextTarget(target[p]) = p
          BY <2>2, <4>1, <4>2
        <4>3. CASE NextTarget(target[p]) # p
          BY <2>1, <2>2, <4>1, <4>3
        <4> QED  BY <4>2, <4>3
      <3>2. CASE Pair(stack[target[p]]).start # Pair(stack[target[p]]).end
        <4>1. /\ pc' = [pc EXCEPT ![p] = "get"] /\ cur' = [cur EXCEPT ![p] = Pair(stack[target[p]])]
              /\ target' = target
          BY <3>2 DEF Loaded, Goto
        <4>2. target' = [target EXCEPT ![p] = target[p]]
          BY <1>2, <4>1 DEF Types
        <4> QED  BY <2>1, <2>2, <4>1, <4>2
      <3> QED  BY <3>1, <3>2
    <2> QED  BY <1>1, <1>2, <2>3, <2>4 DEF Types, Places, Alone
  <1>4. Modes(p)'
    BY <1>1, <1>2, <1>3 DEF Modes, Inside, Searching, Holding, Busy
  <1>5. WaitersCounted'
    BY <1>1, <1>2 DEF WaitersCounted
  <1>6. Covered'
    <2>1. /\ UNCHANGED <<aborting, queue, mpc>> /\ avail <= avail' /\ pc[p] \notin Looking
          /\ \A q \in Processors : q # p => pc'[q] = pc[q] /\ waiting'[q] = waiting[q]
          /\ waiting'[p] /\ pc'[p] \in Past => waiting[p] /\ pc[p] \in Past
      BY <1>1, <1>2, <1>3 DEF Alone, Types, Looking, Past
    <2> QED  BY <1>2, <1>3, <2>1, CoveredKept
  <1>7. StackInv'
    BY <1>1, <1>2, <1>3, LoadedStacks DEF Alone
  <1> QED  BY <1>1, <1>3, <1>4, <1>5, <1>6, <1>7, QuietStep DEF Inside

\* A thief loads the pair of its victim.
LEMMA StealLoadInv ==
    ASSUME Inv, NEW p \in Processors, StealLoad(p)
    PROVE  Inv'
  BY LoadedInv DEF StealLoad

\* It reads the task that the pair says is first.
LEMMA StealGetInv ==
    ASSUME Inv, NEW p \in Processors, StealGet(p)
    PROVE  Inv'
  <1>1. /\ pc[p] = "get" /\ pc' = [pc EXCEPT ![p] = "cas"]
        /\ got' = [got EXCEPT ![p] = stack[target[p]].slot[Index(cur[p].start)]]
        /\ UNCHANGED <<mpc, toSpawn, pred, exception, sem, aborting, abort, spawned, finished,
                       refused, runs, queue, processorsWaiting, avail, stack, task, kids, waiting,
                       target, cur>>
    BY DEF StealGet, Goto, fixed, client, completion, stopping, history, shared, searching
  <1>2. Types /\ StackInv /\ WaitersCounted /\ Covered /\ Modes(p)
    BY ModesOf DEF Inv
  <1>3. stack[target[p]].slot[Index(cur[p].start)] \in Tasks \cup {None}
    <2>1. target[p] \in Processors /\ cur[p].start \in Numbers
      BY <1>2, StackTypes DEF Types
    <2>2. Index(cur[p].start) \in 0 .. StackSize - 1
      BY <2>1, IndexOffset, OffsetOf, PositionsApart DEF Numbers
    <2>3. stack[target[p]].slot \in Slots
      BY <1>2, <2>1, StackTypes
    <2> QED  BY <2>2, <2>3 DEF Slots
  <1>4. Types' /\ Alone(p) /\ pc'[p] = "cas"
    BY <1>1, <1>2, <1>3 DEF Types, Places, Alone
  <1>5. Modes(p)'
    BY <1>1, <1>2, <1>4 DEF Modes, Inside, Searching, Holding, Busy
  <1>6. WaitersCounted'
    BY <1>1, <1>2 DEF WaitersCounted
  <1>7. Covered'
    <2>1. /\ UNCHANGED <<aborting, queue, mpc>> /\ avail <= avail' /\ pc[p] \notin Looking
          /\ \A q \in Processors : q # p => pc'[q] = pc[q] /\ waiting'[q] = waiting[q]
          /\ waiting'[p] /\ pc'[p] \in Past => waiting[p] /\ pc[p] \in Past
      BY <1>1, <1>2, <1>4 DEF Alone, Types, Looking, Past
    <2> QED  BY <1>2, <1>4, <2>1, CoveredKept
  <1>8. StackInv'
    BY <1>2, StealGetStacks
  <1> QED  BY <1>1, <1>4, <1>5, <1>6, <1>7, <1>8, QuietStep DEF Inside

\* Its exchange moves the task to it, or loads the pair again.
LEMMA StealCasInv ==
    ASSUME Inv, NEW p \in Processors, StealCas(p)
    PROVE  Inv'
  <1>1. CASE Pair(stack[target[p]]) # cur[p]
    BY <1>1, LoadedInv DEF StealCas
  <1>2. CASE Pair(stack[target[p]]) = cur[p]
    <2>1. PICK o \in Processors : o = target[p]
      BY DEF Inv, Types
    <2>2. /\ pc[p] = "cas"
          /\ stack' = [stack EXCEPT ![o] = WithPair(stack[o], Stolen(cur[p]))]
          /\ task' = [task EXCEPT ![p] = got[p]]
          /\ pc' = [pc EXCEPT ![p] = IF waiting[p] THEN "found" ELSE "run"]
          /\ got' = [got EXCEPT ![p] = None] /\ cur' = [cur EXCEPT ![p] = NoPair]
          /\ target' = [target EXCEPT ![p] = p]
          /\ UNCHANGED <<mpc, toSpawn, pred, exception, sem, aborting, abort, spawned, finished,
                         refused, runs, queue, processorsWaiting, avail, kids, waiting>>
      BY <1>2, <2>1 DEF StealCas, Found, Goto, fixed, client, completion, stopping, history, shared
    <2>3. Types /\ AllModes /\ StackInv /\ Placed /\ Family /\ Predecessors /\ WaitersCounted
          /\ Covered /\ Modes(p)
      BY ModesOf DEF Inv
    <2>4. /\ stack' \in [Processors -> Stacks]
          /\ \A q \in Processors : q # o => stack'[q] = stack[q]
          /\ stack'[o].end = stack[o].end /\ stack'[o].slot = stack[o].slot
          /\ First(o) < Last(o) /\ First(o)' = First(o) + 1
          /\ got[p] = Entry(o, First(o))
      BY <1>2, <2>1, <2>2, <2>3, StealEffect
    <2>5. PICK m \in Nat : m = First(o) /\ First(o) <= m /\ m < Top(o) /\ Last(o) \in Nat
      BY <2>3, <2>4, StackTypes DEF Top
    <2>6. PICK t \in Tasks : t = Entry(o, m) /\ t = got[p]
      <3>1. Entry(o, m) \in Tasks
        BY <2>3, <2>5 DEF Placed, Located, OnStacks
      <3> QED  BY <2>4, <2>5, <3>1
    <2>7. Types'
      <3>1. NoPair \in Pairs
        BY Widths DEF NoPair, Pairs
      <3> QED  BY <2>2, <2>3, <2>4, <2>6, <3>1 DEF Types, Places
    <2>8. Alone(p) /\ pc'[p] = (IF waiting[p] THEN "found" ELSE "run") /\ task'[p] = t
      BY <2>2, <2>3, <2>6 DEF Alone, Types
    <2>9. \A q \in Processors : stack'[q].start # stack'[q].end => stack[q].start # stack[q].end
      <3>1. stack[o].start # stack[o].end
        BY <2>3, <2>4, NotEmpty DEF StackInv
      <3> QED  BY <2>4, <3>1
    <2>10. Modes(p)' /\ task[p] \notin Tasks
      BY <2>2, <2>6, <2>7, <2>8, <2>9, FoundModes DEF Searching
    <2>11. AllModes'
      BY <2>2, <2>3, <2>8, <2>9, <2>10, ModesKept DEF Alone
    <2>12. StackInv'
      BY <1>2, <2>3, <2>7, StealCasStacks
    <2>13. Placed'
      <3>1. pc[p] \notin Inside /\ pc'[p] \notin Inside
            /\ \A q \in Processors : q # p => pc'[q] = pc[q]
        BY <2>2, <2>8 DEF Inside, Alone
      <3>2. \A q \in Processors : First(q) \in Nat /\ Top(q) \in Nat
        BY <2>3, StackTypes
      <3>3. \A q \in Processors : Top(q)' = Top(q) /\ (q # o => First(q)' = First(q))
        <4>1. \A q \in Processors : pc'[q] = "push" <=> pc[q] = "push"
          BY <2>2, <2>8 DEF Alone
        <4>2. \A q \in Processors : stack'[q].end = stack[q].end
          BY <2>4
        <4> QED  BY <2>4, <4>1, <4>2 DEF Top, First, Last
      <3>4. \A n \in Nat : First(o)' <= n /\ n < Top(o)'
                             <=> First(o) <= n /\ n < Top(o) /\ n # m
        BY <2>4, <2>5, <3>2, <3>3
      <3>5. \A q \in Processors, n \in Nat : Entry(q, n)' = Entry(q, n)
        BY <2>4 DEF Entry
      <3>6. task' = [task EXCEPT ![p] = t]
        BY <2>2, <2>6
      <3>7. \A q \in Processors : q # o => First(q)' = First(q) /\ Top(q)' = Top(q)
        BY <3>3
      <3>8. UNCHANGED <<spawned, finished, queue, runs>>
        BY <2>2
      <3> QED  BY <2>3, <2>5, <2>6, <2>7, <2>10, <3>1, <3>2, <3>4, <3>5, <3>6, <3>7, <3>8, EntryTaken
    <2>14. Family'
      <3>1. kids[p] = <<>>
        BY <2>2, <2>3 DEF Modes, Inside
      <3>2. \A q \in Processors : kids'[q] # <<>> => kids'[q] = kids[q] /\ task'[q] = task[q]
        BY <2>2, <2>8, <3>1 DEF Alone
      <3> QED  BY <2>2, <2>3, <3>2, FamilyKept
    <2>15. Predecessors'
      <3>1. t # Completion
        BY SchedulerAssumption
      <3> QED  BY <2>2, <2>3, <2>8, <3>1, TakenPredecessors
    <2>16. WaitersCounted'
      BY <2>2, <2>3 DEF WaitersCounted
    <2>17. Covered'
      <3>1. /\ UNCHANGED <<aborting, queue, mpc>> /\ avail <= avail' /\ pc[p] \notin Looking
            /\ \A q \in Processors : q # p => pc'[q] = pc[q] /\ waiting'[q] = waiting[q]
            /\ pc'[p] \notin Past
        BY <2>2, <2>3, <2>8 DEF Alone, Types, Looking, Past
      <3> QED  BY <2>3, <2>7, <3>1, CoveredKept
    <2> QED  BY <2>7, <2>11, <2>12, <2>13, <2>14, <2>15, <2>16, <2>17 DEF Inv
  <1> QED  BY <1>1, <1>2

\* The processors that wait, when one begins or ends to.
LEMMA WaitersChange ==
    ASSUME Inv, NEW p \in Processors, \A q \in Processors : q # p => waiting'[q] = waiting[q],
           processorsWaiting' = processorsWaiting + One(waiting'[p]) - One(waiting[p])
    PROVE  WaitersCounted'
  <1> DEFINE A == {q \in Processors : waiting[q]}
             B == {q \in Processors : waiting'[q]}
  <1>2. A \subseteq Processors /\ B \subseteq Processors /\ IsFiniteSet(Processors)
        /\ \A q \in Processors : q # p => (q \in A <=> q \in B)
    BY ProcessorsFinite
  <1>3. (p \in A <=> waiting[p]) /\ (p \in B <=> waiting'[p])
    OBVIOUS
  <1>4. processorsWaiting = Cardinality(A)
    BY DEF Inv, WaitersCounted
  <1> HIDE DEF A, B
  <1>5. /\ Cardinality(A) \in Nat /\ Cardinality(B) \in Nat
        /\ Cardinality(B) = Cardinality(A) + (IF p \in B THEN 1 ELSE 0) - (IF p \in A THEN 1 ELSE 0)
    BY <1>2, CountChange
  <1>6. processorsWaiting' = Cardinality(B)
    BY <1>3, <1>4, <1>5 DEF One
  <1> QED  BY <1>6 DEF WaitersCounted, B

\* A processor that found nothing is counted and looks again, or goes to sleep.
LEMMA FoundNothingInv ==
    ASSUME Inv, NEW p \in Processors, FoundNothing(p)
    PROVE  Inv'
  <1>1. /\ pc[p] = "nothing" /\ waiting' = [waiting EXCEPT ![p] = TRUE]
        /\ processorsWaiting' = (IF waiting[p] THEN processorsWaiting ELSE processorsWaiting + 1)
        /\ pc' = [pc EXCEPT ![p] = IF waiting[p] THEN "sleep" ELSE "check"]
        /\ UNCHANGED <<mpc, toSpawn, pred, exception, sem, aborting, abort, spawned, finished,
                       refused, runs, queue, avail, stack, task, kids, target, cur, got>>
    BY DEF FoundNothing, CountWaiting, SleepOrRepeat, Goto, fixed, client, completion, stopping,
           history
  <1>2. Types /\ WaitersCounted /\ Covered /\ Modes(p)
    BY ModesOf DEF Inv
  <1>3. Types' /\ Alone(p) /\ pc'[p] = (IF waiting[p] THEN "sleep" ELSE "check") /\ waiting'[p]
    BY <1>1, <1>2 DEF Types, Places, Alone
  <1>4. Modes(p)'
    BY <1>1, <1>2, <1>3 DEF Modes, Inside, Searching, Holding, Busy
  <1>5. WaitersCounted'
    <2>1. processorsWaiting' = processorsWaiting + One(waiting'[p]) - One(waiting[p])
      BY <1>1, <1>2, <1>3 DEF One, Types
    <2> QED  BY <1>3, <2>1, WaitersChange DEF Alone
  <1>6. Covered'
    <2>1. /\ UNCHANGED <<aborting, queue, mpc>> /\ avail <= avail' /\ pc[p] \notin Looking
          /\ \A q \in Processors : q # p => pc'[q] = pc[q] /\ waiting'[q] = waiting[q]
          /\ waiting'[p] /\ pc'[p] \in Past => waiting[p] /\ pc[p] \in Past
      BY <1>1, <1>2, <1>3 DEF Alone, Types, Looking, Past
    <2> QED  BY <1>2, <1>3, <2>1, CoveredKept
  <1> QED  BY <1>1, <1>3, <1>4, <1>5, <1>6, PlainStep DEF Touching, Inside

\* A sleeper takes a token: it looks at the queue in return.
LEMMA WakeInv ==
    ASSUME Inv, NEW p \in Processors, Wake(p)
    PROVE  Inv'
  <1>1. /\ pc[p] = "sleep" /\ avail > 0 /\ avail' = avail - 1
        /\ pc' = [pc EXCEPT ![p] = "check"]
        /\ UNCHANGED <<mpc, toSpawn, pred, exception, sem, aborting, abort, spawned, finished,
                       refused, runs, queue, processorsWaiting, stack, task, kids, waiting, target,
                       cur, got>>
    BY DEF Wake, Goto, fixed, client, completion, stopping, history, searching
  <1>2. Types /\ WaitersCounted /\ Covered /\ Modes(p)
    BY ModesOf DEF Inv
  <1>3. Types' /\ Alone(p) /\ pc'[p] = "check"
    BY <1>1, <1>2 DEF Types, Places, Alone
  <1>4. Modes(p)'
    BY <1>1, <1>2, <1>3 DEF Modes, Inside, Searching, Holding, Busy
  <1>5. WaitersCounted'
    BY <1>1, <1>2 DEF WaitersCounted
  <1>6. Covered'
    <2> SUFFICES ASSUME aborting = "no"
                 PROVE  Len(queue') <= avail' + One(mpc' = "signal")
                                     + Cardinality({r \in Processors : pc[r] \in Looking})'
      BY <1>1 DEF Covered
    <2>1. waiting[p] /\ pc[p] \in Past
      BY <1>1, <1>2 DEF Modes, Past
    <2> DEFINE n == Cardinality({r \in Processors : pc[r] \in Looking})
    <2>2. n \in Nat /\ n' \in Nat /\ n' = n + One(pc'[p] \in Looking) - One(pc[p] \in Looking)
      BY <1>2, <1>3, LookingChange DEF Alone
    <2>3. Len(queue) <= avail + One(mpc = "signal") + n
      BY <1>2, <2>1 DEF Covered
    <2>4. Len(queue) \in Nat /\ avail \in Nat
      BY <1>2 DEF Types
    <2> HIDE DEF n
    <2>5. n' = n + 1
      BY <1>1, <1>3, <2>2 DEF One, Looking
    <2>6. Len(queue') <= avail' + One(mpc' = "signal") + n'
      BY <1>1, <2>2, <2>3, <2>4, <2>5 DEF One
    <2> QED  BY <2>6 DEF n
  <1> QED  BY <1>1, <1>3, <1>4, <1>5, <1>6, PlainStep DEF Touching, Inside

\* A processor that has found a task is no longer counted.
LEMMA NoLongerWaitingInv ==
    ASSUME Inv, NEW p \in Processors, NoLongerWaiting(p)
    PROVE  Inv'
  <1>1. /\ pc[p] = "found" /\ waiting' = [waiting EXCEPT ![p] = FALSE]
        /\ processorsWaiting' = processorsWaiting - 1
        /\ pc' = [pc EXCEPT ![p] = "run"]
        /\ UNCHANGED <<mpc, toSpawn, pred, exception, sem, aborting, abort, spawned, finished,
                       refused, runs, queue, avail, stack, task, kids, target, cur, got>>
    BY DEF NoLongerWaiting, Goto, fixed, client, completion, stopping, history
  <1>2. Types /\ WaitersCounted /\ Covered /\ Modes(p)
    BY ModesOf DEF Inv
  <1>3. Types' /\ Alone(p) /\ pc'[p] = "run" /\ ~waiting'[p]
    BY <1>1, <1>2 DEF Types, Places, Alone
  <1>4. Modes(p)'
    BY <1>1, <1>2, <1>3 DEF Modes, Inside, Searching, Holding, Busy
  <1>5. WaitersCounted'
    <2>1. waiting[p] /\ processorsWaiting \in Int
      BY <1>1, <1>2 DEF Modes, Types
    <2>2. processorsWaiting' = processorsWaiting + One(waiting'[p]) - One(waiting[p])
      BY <1>1, <1>3, <2>1 DEF One
    <2> QED  BY <1>3, <2>2, WaitersChange DEF Alone
  <1>6. Covered'
    <2>1. /\ UNCHANGED <<aborting, queue, mpc>> /\ avail <= avail' /\ pc[p] \notin Looking
          /\ \A q \in Processors : q # p => pc'[q] = pc[q] /\ waiting'[q] = waiting[q]
          /\ pc'[p] \notin Past
      BY <1>1, <1>2, <1>3 DEF Alone, Types, Looking, Past
    <2> QED  BY <1>2, <1>3, <2>1, CoveredKept
  <1> QED  BY <1>1, <1>3, <1>4, <1>5, <1>6, PlainStep DEF Touching, Inside

\* A processor that is not looking for tasks, and does not begin to.
LEMMA BusyCovered ==
    ASSUME Inv, Types', NEW p \in Processors, Alone(p), pc[p] \notin Looking, pc'[p] \notin Past,
           UNCHANGED <<aborting, queue, mpc>>, avail <= avail'
    PROVE  Covered'
  <1>1. \A q \in Processors : q # p => pc'[q] = pc[q] /\ waiting'[q] = waiting[q]
    BY DEF Alone
  <1>2. Types /\ Covered
    BY DEF Inv
  <1> QED  BY <1>1, <1>2, CoveredKept

\* execute() begins.
LEMMA RunInv ==
    ASSUME Inv, NEW p \in Processors, Run(p)
    PROVE  Inv'
  <1>1. /\ pc[p] = "run"
        /\ UNCHANGED <<mpc, toSpawn, pred, exception, queue, processorsWaiting, avail, stack, task,
                       waiting, target, cur, got, aborting, abort, spawned, finished, refused>>
    BY DEF Run, client, shared, searching, stopping
  <1>2. Types /\ AllModes /\ StackInv /\ Placed /\ Family /\ Predecessors /\ WaitersCounted
        /\ Covered /\ Modes(p)
    BY ModesOf DEF Inv
  <1>3. WaitersCounted'
    BY <1>1, <1>2 DEF WaitersCounted
  <1>4. ~waiting[p] /\ kids[p] = <<>>
    BY <1>1, <1>2 DEF Modes, Searching, Inside
  <1>5. CASE abort[p]
    <2>1. pc' = [pc EXCEPT ![p] = "ended"] /\ UNCHANGED <<sem, kids, runs>>
      BY <1>5 DEF Run, Goto
    <2>2. Types' /\ Alone(p) /\ pc'[p] = "ended"
      BY <1>1, <1>2, <2>1 DEF Types, Places, Alone
    <2>3. Modes(p)'
      BY <1>1, <1>2, <1>4, <1>5, <2>1, <2>2 DEF Modes, Inside, Searching, Holding, Busy
    <2>4. Covered'
      <3>1. pc[p] \notin Looking /\ pc'[p] \notin Past /\ avail <= avail'
        BY <1>1, <1>2, <2>2 DEF Looking, Past, Types
      <3> QED  BY <1>1, <2>2, <3>1, BusyCovered
    <2> QED  BY <1>1, <1>3, <2>1, <2>2, <2>3, <2>4, PlainStep DEF Touching, Inside
  <1>6. CASE ~abort[p] /\ task[p] = None
    <2>1. pc' = [pc EXCEPT ![p] = "crashed"] /\ UNCHANGED <<sem, kids, runs>>
      BY <1>6, SchedulerAssumption DEF Run, Goto
    <2>2. Types' /\ Alone(p) /\ pc'[p] = "crashed"
      BY <1>1, <1>2, <2>1 DEF Types, Places, Alone
    <2>3. Modes(p)'
      <3>1. aborting # "no" /\ task[p] \notin Tasks
        BY <1>1, <1>2, <1>6, SchedulerAssumption DEF Modes
      <3> QED  BY <1>1, <1>4, <2>1, <2>2, <3>1 DEF Modes, Inside
    <2>4. Covered'
      <3>1. pc[p] \notin Looking /\ pc'[p] \notin Past /\ avail <= avail'
        BY <1>1, <1>2, <2>2 DEF Looking, Past, Types
      <3> QED  BY <1>1, <2>2, <3>1, BusyCovered
    <2> QED  BY <1>1, <1>3, <2>1, <2>2, <2>3, <2>4, PlainStep DEF Touching, Inside
  <1>7. CASE ~abort[p] /\ task[p] = Completion
    <2>1. pc' = [pc EXCEPT ![p] = "pop"] /\ sem' = sem + 1 /\ UNCHANGED <<kids, runs>>
      BY <1>7, SchedulerAssumption DEF Run, Goto
    <2>2. Types' /\ Alone(p) /\ pc'[p] = "pop"
      BY <1>1, <1>2, <2>1 DEF Types, Places, Alone
    <2>3. Modes(p)'
      BY <1>1, <1>2, <1>4, <1>7, <2>1, <2>2, SchedulerAssumption
      DEF Modes, Inside, Searching, Holding, Busy
    <2>4. Covered'
      <3>1. pc[p] \notin Looking /\ pc'[p] \notin Past /\ avail <= avail'
        BY <1>1, <1>2, <2>2 DEF Looking, Past, Types
      <3> QED  BY <1>1, <2>2, <3>1, BusyCovered
    <2>5. AllModes'
      BY <1>1, <1>2, <2>2, <2>3, ModesKept DEF Alone
    <2>6. StackInv'
      <3>1. \A q \in Processors : pc'[q] \in Touching =>
              pc'[q] = pc[q] /\ cur'[q] = cur[q] /\ got'[q] = got[q] /\ target'[q] = target[q]
        BY <2>2 DEF Alone, Touching
      <3> QED  BY <1>1, <1>2, <3>1, StacksKept DEF Types
    <2>7. Placed'
      <3>1. \A q \in Processors : (pc'[q] = "push" <=> pc[q] = "push")
                               /\ (pc'[q] \in Inside <=> pc[q] \in Inside)
        BY <1>1, <2>2 DEF Alone, Inside
      <3> QED  BY <1>1, <1>2, <2>1, <2>2, <3>1, PlacedKept
    <2>8. Family'
      BY <1>1, <1>2, <2>1, FamilyKept
    <2>9. Predecessors'
      BY <1>1, <1>2, <1>7, <2>1 DEF Predecessors
    <2> QED  BY <1>3, <2>2, <2>4, <2>5, <2>6, <2>7, <2>8, <2>9 DEF Inv
  <1>8. CASE ~abort[p] /\ task[p] \in Tasks
    <2>1. PICK t \in Tasks : t = task[p]
      BY <1>8
    <2>2. PICK s \in {<<>>, Children[t]} :
            /\ kids' = [kids EXCEPT ![p] = s] /\ runs' = [runs EXCEPT ![t] = runs[t] + 1]
            /\ pc' = [pc EXCEPT ![p] = "func"] /\ sem' = sem
      <3>1. /\ kids' = [kids EXCEPT ![p] = IF exception THEN <<>> ELSE Children[t]]
            /\ runs' = [runs EXCEPT ![t] = runs[t] + 1]
            /\ pc' = [pc EXCEPT ![p] = "func"] /\ sem' = sem
        BY <1>8, <2>1, SchedulerAssumption DEF Run, Goto
      <3>2. CASE exception
        BY <3>1, <3>2
      <3>3. CASE ~exception
        BY <3>1, <3>3
      <3> QED  BY <3>2, <3>3
    <2>3. s \in Seq(Tasks)
      <3>1. Children[t] \in Seq(Tasks) /\ <<>> \in Seq(Tasks)
        BY OneParent
      <3> QED  BY <3>1
    <2>4. Types' /\ Alone(p) /\ pc'[p] = "func"
      BY <1>1, <1>2, <2>2, <2>3 DEF Types, Places, Alone
    <2>5. Placed' /\ runs[t] = 0 /\ t \in spawned
      BY <1>1, <1>2, <2>1, <2>2, <2>4, RunPlaces
    <2>6. Family'
      BY <1>1, <1>2, <2>1, <2>2, <2>5, RunFamily
    <2>7. Modes(p)'
      BY <1>1, <1>2, <1>4, <1>8, <2>4 DEF Modes, Inside, Searching, Holding, Busy
    <2>8. Covered'
      <3>1. pc[p] \notin Looking /\ pc'[p] \notin Past /\ avail <= avail'
        BY <1>1, <1>2, <2>4 DEF Looking, Past, Types
      <3> QED  BY <1>1, <2>4, <3>1, BusyCovered
    <2>9. AllModes'
      BY <1>1, <1>2, <2>4, <2>7, ModesKept DEF Alone
    <2>10. StackInv'
      <3>1. \A q \in Processors : pc'[q] \in Touching =>
              pc'[q] = pc[q] /\ cur'[q] = cur[q] /\ got'[q] = got[q] /\ target'[q] = target[q]
        BY <2>4 DEF Alone, Touching
      <3> QED  BY <1>1, <1>2, <3>1, StacksKept DEF Types
    <2>11. Predecessors'
      BY <1>1, <1>2, <2>2 DEF Predecessors
    <2> QED  BY <1>3, <2>4, <2>5, <2>6, <2>8, <2>9, <2>10, <2>11 DEF Inv
  <1> QED  BY <1>2, <1>5, <1>6, <1>7, <1>8 DEF Types

\* spawn() by a function: the stack takes the task, or is full.
LEMMA SpawnChildInv ==
    ASSUME Inv, NEW p \in Processors, SpawnChild(p)
    PROVE  Inv'
  <1>1. /\ pc[p] = "func" /\ kids[p] # <<>>
        /\ UNCHANGED <<mpc, toSpawn, sem, queue, processorsWaiting, avail, task, waiting, target,
                       cur, got, aborting, abort, finished, runs>>
    BY DEF SpawnChild, client, shared, searching, stopping
  <1>2. Types /\ AllModes /\ StackInv /\ Placed /\ Family /\ Predecessors /\ WaitersCounted
        /\ Covered /\ Modes(p)
    BY ModesOf DEF Inv
  <1>3. WaitersCounted'
    BY <1>1, <1>2 DEF WaitersCounted
  <1>4. /\ task[p] \in Tasks /\ task[p] \in spawned \ finished
    BY <1>1, <1>2, ParentHeld
  <1>5. kids[p] \in Seq(Tasks) /\ NoRepeat(kids[p])
    BY <1>1, <1>2 DEF Types, Family, Unborn
  <1>6. /\ Tail(kids[p]) \in Seq(Tasks) /\ NoRepeat(Tail(kids[p])) /\ Head(kids[p]) \in Tasks
        /\ Among(Tail(kids[p])) \subseteq Among(kids[p])
    BY <1>1, <1>5, HeadTail
  <1>7. /\ Cardinality(spawned \ finished) \in Nat /\ Cardinality(spawned \ finished) # 0
        /\ pred # 0 /\ mpc # "returned" /\ sem = 0
        /\ \A q \in Processors : task[q] # Completion
    <2>1. Cardinality(spawned \ finished) \in Nat /\ Cardinality(spawned \ finished) # 0
      BY <1>2, <1>4, ToComplete
    <2>2. pred # 0
      BY <1>2, <2>1 DEF Predecessors, One
    <2>3. mpc # "returned" /\ ~(sem > 0) /\ \A q \in Processors : task[q] # Completion
      BY <1>2, <2>2 DEF Predecessors
    <2>4. sem = 0
      BY <1>2, <2>3 DEF Types
    <2> QED  BY <2>1, <2>2, <2>3, <2>4
  <1>8. CASE exception
    <2>1. /\ kids' = [kids EXCEPT ![p] = Tail(kids[p])]
          /\ UNCHANGED <<pred, exception, stack, pc, spawned, refused>>
      BY <1>8 DEF SpawnChild
    <2>2. Types' /\ Alone(p) /\ kids'[p] = Tail(kids[p])
      BY <1>1, <1>2, <1>6, <2>1 DEF Types, Alone
    <2>3. Modes(p)'
      BY <1>1, <1>2, <2>1 DEF Modes, Inside
    <2>4. AllModes'
      BY <1>1, <1>2, <2>1, <2>2, <2>3, ModesKept DEF Alone
    <2>5. StackInv'
      BY <1>1, <1>2, <2>1, StacksKept DEF Types
    <2>6. Placed'
      BY <1>1, <1>2, <2>1, <2>2, PlacedKept
    <2>7. Family'
      <3>1. ASSUME NEW q \in Processors PROVE Unborn(q)'
        <4>1. CASE q = p
          BY <1>1, <1>2, <1>6, <2>1, <2>2, <4>1 DEF Family, Unborn
        <4>2. CASE q # p
          BY <1>1, <1>2, <2>1, <2>2, <4>2 DEF Family, Unborn, Alone
        <4> QED  BY <4>1, <4>2
      <3> QED  BY <1>1, <1>2, <2>1, <3>1 DEF Family, Pending
    <2>8. Predecessors'
      BY <1>1, <1>2, <2>1, PredecessorsKept
    <2>9. Covered'
      BY <1>1, <1>2, <2>1 DEF Covered
    <2> QED  BY <1>3, <2>2, <2>4, <2>5, <2>6, <2>7, <2>8, <2>9 DEF Inv
  <1>9. CASE ~exception /\ Full(stack[p])
    <2>1. /\ pred' = pred + 1 /\ exception' = TRUE /\ refused' = TRUE
          /\ kids' = [kids EXCEPT ![p] = <<>>] /\ UNCHANGED <<stack, pc, spawned>>
      BY <1>9 DEF SpawnChild
    <2>2. Types' /\ Alone(p) /\ kids'[p] = <<>>
      <3>1. <<>> \in Seq(Tasks)
        OBVIOUS
      <3> QED  BY <1>1, <1>2, <2>1, <3>1 DEF Types, Alone
    <2>3. Modes(p)'
      BY <1>1, <1>2, <2>1, <2>2 DEF Modes, Inside
    <2>4. AllModes'
      BY <1>1, <1>2, <2>1, <2>2, <2>3, ModesKept DEF Alone
    <2>5. StackInv'
      BY <1>1, <1>2, <2>1, StacksKept DEF Types
    <2>6. Placed'
      BY <1>1, <1>2, <2>1, <2>2, PlacedKept
    <2>7. Family'
      <3>1. \A q \in Processors : kids'[q] # <<>> => kids'[q] = kids[q] /\ task'[q] = task[q]
        BY <1>1, <2>2 DEF Alone
      <3> QED  BY <1>1, <1>2, <2>1, <3>1, FamilyKept
    <2>8. Predecessors'
      <3>1. ~refused
        BY <1>2, <1>9 DEF Predecessors
      <3>2. pred' = One(mpc' \in {"spawn", "signal"}) + Cardinality((spawned \ finished)') + One(refused')
        <4>1. pred = One(mpc \in {"spawn", "signal"}) + Cardinality(spawned \ finished) + 0
          BY <1>2, <3>1 DEF Predecessors, One
        <4>2. (spawned \ finished)' = spawned \ finished
          BY <1>1, <2>1
        <4> QED  BY <1>1, <1>7, <2>1, <4>1, <4>2 DEF One
      <3>3. refused' => exception'
        BY <2>1
      <3>4. ~(sem' > 0 \/ mpc' = "returned" \/ (\E q \in Processors : task'[q] = Completion))
        BY <1>1, <1>7
      <3> QED  BY <3>2, <3>3, <3>4 DEF Predecessors
    <2>9. Covered'
      BY <1>1, <1>2, <2>1 DEF Covered
    <2> QED  BY <1>3, <2>2, <2>4, <2>5, <2>6, <2>7, <2>8, <2>9 DEF Inv
  <1>10. CASE ~exception /\ ~Full(stack[p])
    <2>1. /\ pred' = pred + 1 /\ UNCHANGED <<exception, refused>>
          /\ stack' = [stack EXCEPT ![p].slot[Index(stack[p].end)] = Head(kids[p])]
          /\ spawned' = spawned \cup {Head(kids[p])}
          /\ kids' = [kids EXCEPT ![p] = Tail(kids[p])]
          /\ pc' = [pc EXCEPT ![p] = "push"]
      BY <1>10 DEF SpawnChild, Goto
    <2>2. Family' /\ Head(kids[p]) \in Tasks \ spawned /\ Head(kids[p]) \notin Among(Roots)
      BY <1>1, <1>2, <2>1, ChildFamily
    <2>3. PICK t \in Tasks : t = Head(kids[p]) /\ t \notin spawned /\ t \notin Among(Roots)
      BY <2>2
    <2>4. /\ stack' \in [Processors -> Stacks]
          /\ \A q \in Processors : q # p => stack'[q] = stack[q]
          /\ stack'[p].start = stack[p].start /\ stack'[p].end = stack[p].end
          /\ Last(p) < First(p) + StackSize
          /\ Entry(p, Last(p))' = t
          /\ \A n \in Nat : First(p) <= n /\ n < Last(p) => Entry(p, n)' = Entry(p, n)
      BY <1>2, <1>10, <2>1, <2>3, PushEffect
    <2>5. Types' /\ Alone(p) /\ pc'[p] = "push" /\ kids'[p] = Tail(kids[p])
      BY <1>1, <1>2, <1>6, <2>1, <2>3, <2>4 DEF Types, Places, Alone
    <2>6. Modes(p)'
      BY <1>1, <1>2, <1>4, <2>4, <2>5 DEF Modes, Inside, Searching, Holding, Busy
    <2>7. AllModes'
      BY <1>1, <1>2, <2>4, <2>5, <2>6, ModesKept DEF Alone
    <2>8. StackInv'
      BY <1>1, <1>2, <1>10, <2>1, <2>3, <2>5, PushStacks
    <2>9. Placed'
      BY <1>1, <1>2, <1>10, <2>1, <2>3, <2>5, PushPlaces
    <2>10. Predecessors'
      <3> DEFINE n == Cardinality(spawned \ finished)
      <3>1. n \in Nat /\ n' \in Nat
            /\ n' = n + One(t \in (spawned \ finished)') - One(t \in spawned \ finished)
        BY <1>1, <1>2, <2>1, <2>3, <2>5, ToCompleteChange
      <3>2. t \in (spawned \ finished)' /\ t \notin spawned \ finished
        <4>1. t \notin finished
          BY <1>2, <2>3 DEF Placed, Located, Fates
        <4> QED  BY <1>1, <2>1, <2>3, <4>1
      <3>3. pred = One(mpc \in {"spawn", "signal"}) + n + One(refused) /\ (refused => exception)
        BY <1>2 DEF Predecessors
      <3> HIDE DEF n
      <3>4. n' = n + 1
        BY <3>1, <3>2 DEF One
      <3>5. pred' = One(mpc' \in {"spawn", "signal"}) + n' + One(refused')
        BY <1>1, <2>1, <3>1, <3>3, <3>4 DEF One
      <3>6. ~(sem' > 0 \/ mpc' = "returned" \/ (\E q \in Processors : task'[q] = Completion))
        BY <1>1, <1>7
      <3> QED  BY <2>1, <3>3, <3>5, <3>6 DEF Predecessors, n
    <2>11. Covered'
      <3>1. pc[p] \notin Looking /\ pc'[p] \notin Past /\ avail <= avail'
        BY <1>1, <1>2, <2>5 DEF Looking, Past, Types
      <3> QED  BY <1>1, <2>5, <3>1, BusyCovered
    <2> QED  BY <1>3, <2>2, <2>5, <2>7, <2>8, <2>9, <2>10, <2>11 DEF Inv
  <1> QED  BY <1>8, <1>9, <1>10

\* The end of the stack moves: others can see the task.
LEMMA PushEndInv ==
    ASSUME Inv, NEW p \in Processors, PushEnd(p)
    PROVE  Inv'
  <1>1. /\ pc[p] = "push" /\ stack' = [stack EXCEPT ![p].end = Plus1(stack[p].end)]
        /\ pc' = [pc EXCEPT ![p] = "note"]
        /\ UNCHANGED <<mpc, toSpawn, pred, exception, sem, aborting, abort, spawned, finished,
                       refused, runs, queue, processorsWaiting, avail, task, kids, waiting, target,
                       cur, got>>
    BY DEF PushEnd, Goto, fixed, client, completion, stopping, history, shared, searching
  <1>2. Types /\ AllModes /\ StackInv /\ Placed /\ Family /\ Predecessors /\ WaitersCounted
        /\ Covered /\ Modes(p)
    BY ModesOf DEF Inv
  <1>3. /\ stack' \in [Processors -> Stacks]
        /\ \A q \in Processors : q # p => stack'[q] = stack[q]
        /\ stack'[p].start = stack[p].start /\ stack'[p].slot = stack[p].slot
        /\ Last(p)' = Last(p) + 1
    BY <1>1, <1>2, PushEndEffect
  <1>4. Types' /\ Alone(p) /\ pc'[p] = "note"
    BY <1>1, <1>2, <1>3 DEF Types, Places, Alone
  <1>5. Modes(p)'
    BY <1>1, <1>2, <1>4 DEF Modes, Inside, Searching, Holding, Busy
  <1>6. AllModes'
    BY <1>1, <1>2, <1>3, <1>4, <1>5, ModesKept DEF Alone
  <1>7. StackInv' /\ Placed'
    BY <1>2, <1>4, PushEndStacks, PushEndPlaces
  <1>8. Family'
    BY <1>1, <1>2, FamilyKept
  <1>9. Predecessors'
    BY <1>1, <1>2, PredecessorsKept
  <1>10. WaitersCounted'
    BY <1>1, <1>2 DEF WaitersCounted
  <1>11. Covered'
    <2>1. pc[p] \notin Looking /\ pc'[p] \notin Past /\ avail <= avail'
      BY <1>1, <1>2, <1>4 DEF Looking, Past, Types
    <2> QED  BY <1>1, <1>4, <2>1, BusyCovered
  <1> QED  BY <1>4, <1>6, <1>7, <1>8, <1>9, <1>10, <1>11 DEF Inv

\* The signal for a task pushed.
LEMMA NoteChildQueuedInv ==
    ASSUME Inv, NEW p \in Processors, NoteChildQueued(p)
    PROVE  Inv'
  <1>1. /\ pc[p] = "note" /\ pc' = [pc EXCEPT ![p] = "func"]
        /\ avail' = (IF processorsWaiting > 0 THEN avail + 1 ELSE avail)
        /\ UNCHANGED <<mpc, toSpawn, pred, exception, sem, aborting, abort, spawned, finished,
                       refused, runs, queue, processorsWaiting, stack, task, kids, waiting, target,
                       cur, got>>
    BY DEF NoteChildQueued, SignalIfWaiting, Goto, fixed, client, completion, stopping, history,
           searching
  <1>2. Types /\ WaitersCounted /\ Covered /\ Modes(p)
    BY ModesOf DEF Inv
  <1>3. Types' /\ Alone(p) /\ pc'[p] = "func"
    BY <1>1, <1>2 DEF Types, Places, Alone
  <1>4. Modes(p)'
    BY <1>1, <1>2, <1>3 DEF Modes, Inside, Searching, Holding, Busy
  <1>5. WaitersCounted'
    BY <1>1, <1>2 DEF WaitersCounted
  <1>6. Covered'
    <2>1. pc[p] \notin Looking /\ pc'[p] \notin Past /\ avail <= avail'
      BY <1>1, <1>2, <1>3 DEF Looking, Past, Types
    <2> QED  BY <1>1, <1>3, <2>1, BusyCovered
  <1> QED  BY <1>1, <1>3, <1>4, <1>5, <1>6, PlainStep DEF Touching, Inside

\* A function ends or throws.
LEMMA FunctionEndsInv ==
    ASSUME Inv, NEW p \in Processors, NEW throw \in BOOLEAN, FunctionEnds(p, throw)
    PROVE  Inv'
  <1>1. /\ pc[p] = "func" /\ pc' = [pc EXCEPT ![p] = "pred"] /\ exception' = (exception \/ throw)
        /\ kids' = [kids EXCEPT ![p] = <<>>]
        /\ UNCHANGED <<mpc, toSpawn, pred, sem, aborting, abort, spawned, finished, refused, runs,
                       queue, processorsWaiting, avail, stack, task, waiting, target, cur, got>>
    BY DEF FunctionEnds, Goto, client, shared, searching, stopping, history
  <1>2. Types /\ WaitersCounted /\ Covered /\ Modes(p)
    BY ModesOf DEF Inv
  <1>3. Types' /\ Alone(p) /\ pc'[p] = "pred" /\ kids'[p] = <<>>
    <2>1. <<>> \in Seq(Tasks) /\ exception' \in BOOLEAN
      BY <1>1, <1>2 DEF Types
    <2> QED  BY <1>1, <1>2, <2>1 DEF Types, Places, Alone
  <1>4. Modes(p)'
    BY <1>1, <1>2, <1>3 DEF Modes, Inside, Searching, Holding, Busy
  <1>5. WaitersCounted'
    BY <1>1, <1>2 DEF WaitersCounted
  <1>6. Covered'
    <2>1. pc[p] \notin Looking /\ pc'[p] \notin Past /\ avail <= avail'
      BY <1>1, <1>2, <1>3 DEF Looking, Past, Types
    <2> QED  BY <1>1, <1>3, <2>1, BusyCovered
  <1> QED  BY <1>1, <1>3, <1>4, <1>5, <1>6, PlainStep DEF Touching, Inside


\* A predecessor is done: the last one goes on with the completion task.
LEMMA PredDoneInv ==
    ASSUME Inv, NEW p \in Processors, PredDone(p)
    PROVE  Inv'
  <1>1. /\ pc[p] = "pred" /\ pred' = pred - 1 /\ finished' = finished \cup {task[p]}
        /\ task' = [task EXCEPT ![p] = IF pred = 1 THEN Completion ELSE None]
        /\ pc' = [pc EXCEPT ![p] = IF pred = 1 THEN "run" ELSE "pop"]
        /\ UNCHANGED <<mpc, toSpawn, exception, sem, aborting, abort, spawned, refused, runs, queue,
                       processorsWaiting, avail, stack, kids, waiting, target, cur, got>>
    BY DEF PredDone, FollowsLast, Goto, client, shared, searching, stopping
  <1>2. Types /\ AllModes /\ StackInv /\ Placed /\ Family /\ Predecessors /\ WaitersCounted
        /\ Covered /\ Modes(p)
    BY ModesOf DEF Inv
  <1>3. PICK t \in Tasks : t = task[p]
    BY <1>1, <1>2 DEF Modes, Inside
  <1>4. /\ Types' /\ Alone(p) /\ pc'[p] = (IF pred = 1 THEN "run" ELSE "pop")
        /\ task'[p] = (IF pred = 1 THEN Completion ELSE None)
    BY <1>1, <1>2, <1>3 DEF Types, Places, Alone
  <1>5. task'[p] \notin Tasks /\ kids[p] = <<>> /\ ~waiting[p]
    BY <1>1, <1>2, <1>4, SchedulerAssumption DEF Modes, Inside, Searching
  <1>6. Modes(p)'
    <2>1. pc'[p] \in {"run", "pop"} /\ pc'[p] \in Busy /\ pc'[p] \notin Inside
          /\ pc'[p] \notin {"sleep", "found"}
      BY <1>4 DEF Inside, Busy
    <2>2. pc'[p] = "run" => task'[p] # None
      BY <1>4, SchedulerAssumption
    <2> QED  BY <1>1, <1>2, <1>5, <2>1, <2>2 DEF Modes
  <1>7. AllModes'
    BY <1>1, <1>2, <1>4, <1>6, ModesKept DEF Alone
  <1>8. StackInv'
    <2>1. \A q \in Processors : pc'[q] \in Touching =>
            pc'[q] = pc[q] /\ cur'[q] = cur[q] /\ got'[q] = got[q] /\ target'[q] = target[q]
      BY <1>1, <1>4 DEF Alone, Touching
    <2> QED  BY <1>1, <1>2, <2>1, StacksKept DEF Types
  <1>9. Placed' /\ t \in spawned \ finished
    <2>1. /\ pc'[p] \notin Inside /\ \A q \in Processors : q # p => pc'[q] = pc[q]
          /\ \A q \in Processors : q # p => task'[q] = task[q]
      BY <1>4 DEF Alone, Inside
    <2>2. finished' = finished \cup {t} /\ UNCHANGED <<spawned, stack, queue, runs>>
      BY <1>1, <1>3
    <2> QED  BY <1>1, <1>2, <1>3, <1>4, <1>5, <2>1, <2>2, DonePlaces
  <1>10. Family'
    <2>1. \A q \in Processors : kids'[q] # <<>> => kids'[q] = kids[q] /\ task'[q] = task[q]
      BY <1>1, <1>4, <1>5 DEF Alone
    <2> QED  BY <1>1, <1>2, <2>1, FamilyKept
  <1>11. Predecessors'
    <2> DEFINE n == Cardinality(spawned \ finished)
    <2>1. n \in Nat /\ n' \in Nat
          /\ n' = n + One(t \in (spawned \ finished)') - One(t \in spawned \ finished)
      BY <1>1, <1>2, <1>3, <1>4, ToCompleteChange
    <2>2. t \notin (spawned \ finished)'
      BY <1>1, <1>3
    <2>3. pred = One(mpc \in {"spawn", "signal"}) + n + One(refused) /\ (refused => exception)
      BY <1>2 DEF Predecessors
    <2> HIDE DEF n
    <2>4. n' = n - 1 /\ n >= 1
      BY <1>9, <2>1, <2>2 DEF One
    <2>5. pred' = One(mpc' \in {"spawn", "signal"}) + n' + One(refused')
      BY <1>1, <2>1, <2>3, <2>4 DEF One
    <2>6. pred # 0
      BY <2>1, <2>3, <2>4 DEF One
    <2>7. ~(sem > 0 \/ mpc = "returned" \/ (\E q \in Processors : task[q] = Completion))
      BY <1>2, <2>6 DEF Predecessors
    <2>8. (\E q \in Processors : task'[q] = Completion) => pred = 1
      BY <1>4, <2>7, SchedulerAssumption DEF Alone
    <2>9. sem' > 0 \/ mpc' = "returned" \/ (\E q \in Processors : task'[q] = Completion) => pred' = 0
      BY <1>1, <2>7, <2>8
    <2>10. refused' => exception'
      BY <1>1, <2>3
    <2> QED  BY <2>5, <2>9, <2>10 DEF Predecessors, n
  <1>12. WaitersCounted'
    BY <1>1, <1>2 DEF WaitersCounted
  <1>13. Covered'
    <2>1. pc[p] \notin Looking /\ pc'[p] \notin Past /\ avail <= avail'
      BY <1>1, <1>2, <1>4 DEF Looking, Past, Types
    <2> QED  BY <1>1, <1>4, <2>1, BusyCovered
  <1> QED  BY <1>4, <1>7, <1>8, <1>9, <1>10, <1>11, <1>12, <1>13 DEF Inv

\* A pop that has loaded the pair: it goes on to the exchange, or finds nothing.
LEMMA PopLoadedInv ==
    ASSUME Inv, NEW p \in Processors, pc[p] \in {"pop", "popcas"},
           NEW t, t = stack[p].slot[Index(Minus1(stack[p].end))],
           PopLoaded(p, Pair(stack[p]), t),
           UNCHANGED <<fixed, shared, stack, kids, searching>>
    PROVE  Inv'
  <1>1. /\ task' = [task EXCEPT ![p] = None]
        /\ UNCHANGED <<mpc, toSpawn, pred, exception, sem, aborting, abort, spawned, finished,
                       refused, runs, queue, processorsWaiting, avail, stack, kids, waiting, target>>
    BY DEF PopLoaded, fixed, client, completion, stopping, history, shared, searching
  <1>2. Types /\ StackInv /\ WaitersCounted /\ Covered /\ Modes(p)
    BY ModesOf DEF Inv
  <1>3. /\ stack[p].start \in Numbers /\ stack[p].end \in Numbers /\ stack[p].slot \in Slots
        /\ Pair(stack[p]).start = stack[p].start /\ Pair(stack[p]).end = stack[p].end
    BY <1>2, StackTypes
  <1>4. t \in Tasks \cup {None} /\ Pair(stack[p]) \in Pairs /\ NoPair \in Pairs
    <2>1. Index(Minus1(stack[p].end)) \in 0 .. StackSize - 1
      <3>1. Minus1(stack[p].end) \in Int
        BY <1>3, StepNumbers, Widths DEF Numbers
      <3> QED  BY <3>1, ModRange, Widths DEF Index
    <2>2. t \in Tasks \cup {None}
      BY <1>3, <2>1 DEF Slots
    <2>3. Pair(stack[p]) \in Pairs /\ NoPair \in Pairs
      BY <1>3, Widths DEF Pair, Pairs, NoPair, Numbers
    <2> QED  BY <2>2, <2>3
  <1>5. \/ /\ stack[p].start = stack[p].end /\ pc' = [pc EXCEPT ![p] = "check"]
           /\ cur' = [cur EXCEPT ![p] = NoPair] /\ got' = [got EXCEPT ![p] = None]
        \/ /\ pc' = [pc EXCEPT ![p] = "popcas"]
           /\ cur' = [cur EXCEPT ![p] = Pair(stack[p])] /\ got' = [got EXCEPT ![p] = t]
    BY <1>3 DEF PopLoaded, Goto
  <1>6. Types' /\ Alone(p) /\ task'[p] = None
        /\ (pc'[p] = "popcas" \/ (pc'[p] = "check" /\ stack[p].start = stack[p].end))
    <2>1. CASE /\ stack[p].start = stack[p].end /\ pc' = [pc EXCEPT ![p] = "check"]
               /\ cur' = [cur EXCEPT ![p] = NoPair] /\ got' = [got EXCEPT ![p] = None]
      BY <1>1, <1>2, <1>4, <2>1 DEF Types, Places, Alone
    <2>2. CASE /\ pc' = [pc EXCEPT ![p] = "popcas"]
               /\ cur' = [cur EXCEPT ![p] = Pair(stack[p])] /\ got' = [got EXCEPT ![p] = t]
      BY <1>1, <1>2, <1>4, <2>2 DEF Types, Places, Alone
    <2> QED  BY <1>5, <2>1, <2>2
  <1>7. task[p] \notin Tasks /\ kids[p] = <<>> /\ ~waiting[p]
    BY <1>2 DEF Modes, Holding, Inside, Searching
  <1>8. Modes(p)'
    <2>1. pc'[p] \notin Inside /\ pc'[p] \notin {"sleep", "found", "run"}
          /\ (stack[p].start # stack[p].end => pc'[p] \in Busy)
      BY <1>6 DEF Inside, Busy
    <2> QED  BY <1>1, <1>2, <1>6, <1>7, <2>1, SchedulerAssumption DEF Modes
  <1>9. StackInv'
    BY <1>1, <1>2, <1>6, PopLoadedStacks
  <1>10. WaitersCounted'
    BY <1>1, <1>2 DEF WaitersCounted
  <1>11. Covered'
    <2>1. pc[p] \notin Looking /\ pc'[p] \notin Past /\ avail <= avail'
      BY <1>1, <1>2, <1>6 DEF Looking, Past, Types
    <2> QED  BY <1>1, <1>6, <2>1, BusyCovered
  <1>12. /\ pc[p] # "push" /\ pc'[p] # "push" /\ (pc'[p] \in Inside <=> pc[p] \in Inside)
         /\ task[p] \notin Tasks /\ task'[p] \notin Tasks /\ task'[p] # Completion
         /\ kids'[p] = <<>> /\ (exception => exception')
    BY <1>1, <1>6, <1>7, SchedulerAssumption DEF Inside
  <1> QED  BY <1>1, <1>6, <1>8, <1>9, <1>10, <1>11, <1>12, QuietStep

\* A pop loads the pair and the last task.
LEMMA PopLoadInv ==
    ASSUME Inv, NEW p \in Processors, PopLoad(p)
    PROVE  Inv'
  <1>1. /\ pc[p] \in {"pop", "popcas"} /\ UNCHANGED <<fixed, shared, stack, kids, searching>>
        /\ PopLoaded(p, Pair(stack[p]), stack[p].slot[Index(Minus1(stack[p].end))])
    BY DEF PopLoad
  <1> QED  BY <1>1, PopLoadedInv

\* Its exchange takes the last task, or loads the pair again.
LEMMA PopCasInv ==
    ASSUME Inv, NEW p \in Processors, PopCas(p)
    PROVE  Inv'
  <1>1. CASE Pair(stack[p]) # cur[p]
    <2>1. /\ pc[p] = "popcas" /\ PopLoaded(p, Pair(stack[p]), got[p])
          /\ UNCHANGED <<fixed, shared, stack, kids, searching>>
      BY <1>1 DEF PopCas
    <2>2. got[p] = stack[p].slot[Index(Minus1(stack[p].end))]
      BY <2>1 DEF Inv, StackInv, Popper
    <2> QED  BY <2>1, <2>2, PopLoadedInv
  <1>2. CASE Pair(stack[p]) = cur[p]
    <2>2. /\ pc[p] = "popcas"
          /\ stack' = [stack EXCEPT ![p] = WithPair(stack[p], Popped(cur[p]))]
          /\ task' = [task EXCEPT ![p] = got[p]] /\ pc' = [pc EXCEPT ![p] = "run"]
          /\ got' = [got EXCEPT ![p] = None] /\ cur' = [cur EXCEPT ![p] = NoPair]
          /\ UNCHANGED <<mpc, toSpawn, pred, exception, sem, aborting, abort, spawned, finished,
                         refused, runs, queue, processorsWaiting, avail, kids, waiting, target>>
      BY <1>2 DEF PopCas, Goto, fixed, client, completion, stopping, history, shared, searching
    <2>3. Types /\ AllModes /\ StackInv /\ Placed /\ Family /\ Predecessors /\ WaitersCounted
          /\ Covered /\ Modes(p)
      BY ModesOf DEF Inv
    <2>4. /\ stack' \in [Processors -> Stacks]
          /\ \A q \in Processors : q # p => stack'[q] = stack[q]
          /\ stack'[p].slot = stack[p].slot
          /\ First(p) < Last(p)
          /\ \/ First(p) + 1 = Last(p) /\ First(p)' = Last(p) /\ Last(p)' = Last(p)
             \/ First(p) + 1 < Last(p) /\ First(p)' = First(p) /\ Last(p)' = Last(p) - 1
          /\ got[p] = Entry(p, Last(p) - 1)
      BY <1>2, <2>2, <2>3, PopEffect
    <2>5. PICK m \in Nat : m = Last(p) - 1 /\ First(p) <= m /\ m < Top(p) /\ Last(p) \in Nat
                           /\ First(p) \in Nat
      BY <2>3, <2>4, StackTypes DEF Top
    <2>6. PICK t \in Tasks : t = Entry(p, m) /\ t = got[p]
      <3>1. Entry(p, m) \in Tasks
        BY <2>3, <2>5 DEF Placed, Located, OnStacks
      <3> QED  BY <2>4, <2>5, <3>1
    <2>7. Types'
      <3>1. NoPair \in Pairs
        BY Widths DEF NoPair, Pairs
      <3> QED  BY <2>2, <2>3, <2>4, <2>6, <3>1 DEF Types, Places
    <2>8. Alone(p) /\ pc'[p] = "run" /\ task'[p] = t
      BY <2>2, <2>3, <2>6 DEF Alone, Types
    <2>9. \A q \in Processors : q # p => stack'[q] = stack[q]
      BY <2>4
    <2>10. task[p] \notin Tasks /\ kids[p] = <<>> /\ ~waiting[p] /\ kids'[p] = kids[p]
           /\ ~waiting'[p]
      BY <2>2, <2>3 DEF Modes, Holding, Inside, Searching
    <2>11. Modes(p)'
      <3>1. pc'[p] \in Holding /\ pc'[p] \notin Inside /\ pc'[p] \in Busy
            /\ pc'[p] \notin {"sleep", "found"}
        BY <2>8 DEF Holding, Inside, Busy
      <3> QED  BY <2>2, <2>3, <2>6, <2>8, <2>10, <3>1, SchedulerAssumption DEF Modes
    <2>12. AllModes'
      BY <2>2, <2>3, <2>8, <2>9, <2>11, ModesKept DEF Alone
    <2>13. StackInv'
      BY <1>2, <2>3, <2>7, PopCasStacks
    <2>14. Placed'
      <3>1. pc[p] \notin Inside /\ pc'[p] \notin Inside
            /\ \A q \in Processors : q # p => pc'[q] = pc[q]
        BY <2>2, <2>8 DEF Inside, Alone
      <3>2. \A q \in Processors : First(q) \in Nat /\ Top(q) \in Nat
        BY <2>3, StackTypes
      <3>3. \A q \in Processors : q # p => First(q)' = First(q) /\ Top(q)' = Top(q)
        BY <2>4, <3>1 DEF Top, First, Last
      <3>4. Top(p) = Last(p) /\ Top(p)' = Last(p)'
        BY <2>2, <2>8 DEF Top
      <3>5. \A n \in Nat : First(p)' <= n /\ n < Top(p)'
                             <=> First(p) <= n /\ n < Top(p) /\ n # m
        BY <2>4, <2>5, <3>2, <3>4
      <3>6. \A q \in Processors, n \in Nat : Entry(q, n)' = Entry(q, n)
        BY <2>4 DEF Entry
      <3>7. task' = [task EXCEPT ![p] = t]
        BY <2>2, <2>6
      <3>8. UNCHANGED <<spawned, finished, queue, runs>>
        BY <2>2
      <3> QED  BY <2>3, <2>5, <2>6, <2>7, <2>10, <3>1, <3>2, <3>3, <3>5, <3>6, <3>7, <3>8, EntryTaken
    <2>15. Family'
      <3>1. \A q \in Processors : kids'[q] # <<>> => kids'[q] = kids[q] /\ task'[q] = task[q]
        BY <2>2, <2>8, <2>10 DEF Alone
      <3> QED  BY <2>2, <2>3, <3>1, FamilyKept
    <2>16. Predecessors'
      <3>1. t # Completion
        BY SchedulerAssumption
      <3> QED  BY <2>2, <2>3, <2>8, <3>1, TakenPredecessors
    <2>17. WaitersCounted'
      BY <2>2, <2>3 DEF WaitersCounted
    <2>18. Covered'
      <3>1. pc[p] \notin Looking /\ pc'[p] \notin Past /\ avail <= avail'
        BY <2>2, <2>3, <2>8 DEF Looking, Past, Types
      <3> QED  BY <2>2, <2>7, <2>8, <3>1, BusyCovered
    <2> QED  BY <2>7, <2>12, <2>13, <2>14, <2>15, <2>16, <2>17, <2>18 DEF Inv
  <1> QED  BY <1>1, <1>2

-----------------------------------------------------------------------------
(* The destructor, and what the invariant says.                              *)

\* The destructor leaves everything but its own flags, and the tokens, alone.
LEMMA StoppingInv ==
    ASSUME Inv, Types', AllModes', aborting' # "no",
           UNCHANGED <<client, completion, queue, processorsWaiting, stack, pc, task, kids,
                       searching, cur, got, history>>
    PROVE  Inv'
  <1>1. UNCHANGED <<mpc, toSpawn, pred, exception, sem, spawned, finished, refused, runs, queue,
                    processorsWaiting, stack, pc, task, kids, waiting, target, cur, got>>
    BY DEF client, completion, searching, history
  <1>2. Types /\ StackInv /\ Placed /\ Family /\ Predecessors /\ WaitersCounted
    BY DEF Inv
  <1>3. StackInv'
    BY <1>1, <1>2, StacksKept DEF Types
  <1>4. Placed'
    BY <1>1, <1>2, PlacedKept
  <1>5. Family'
    BY <1>1, <1>2, FamilyKept
  <1>6. Predecessors'
    BY <1>1, <1>2, PredecessorsKept
  <1>7. WaitersCounted' /\ Covered'
    BY <1>1, <1>2 DEF WaitersCounted, Covered
  <1> QED  BY <1>3, <1>4, <1>5, <1>6, <1>7 DEF Inv

\* The destructor begins.
LEMMA StopSchedulerInv ==
    ASSUME Inv, StopScheduler
    PROVE  Inv'
  <1>1. Types' /\ AllModes' /\ aborting' # "no"
    BY DEF StopScheduler, Inv, Types, AllModes, Modes, client, completion, shared, searching, history
  <1> QED  BY <1>1, StoppingInv DEF StopScheduler, shared

\* It tells a processor to stop.
LEMMA StopProcessingInv ==
    ASSUME Inv, NEW p \in Processors, StopProcessing(p)
    PROVE  Inv'
  <1>1. Types' /\ AllModes' /\ aborting' # "no"
    BY DEF StopProcessing, Inv, Types, AllModes, Modes, client, completion, shared, searching,
           history
  <1> QED  BY <1>1, StoppingInv DEF StopProcessing, shared

\* It wakes all processors.
LEMMA SignalStopInv ==
    ASSUME Inv, SignalStop
    PROVE  Inv'
  <1>1. Types' /\ AllModes' /\ aborting' # "no"
    BY SchedulerAssumption DEF SignalStop, StopTokens, Inv, Types, AllModes, Modes, client,
       completion, searching, history
  <1> QED  BY <1>1, StoppingInv DEF SignalStop

\* Before the first task is spawned: no task is anywhere.
LEMMA InitInv ==
    ASSUME Init
    PROVE  Inv
  <1>1. Types
    <2>1. <<>> \in Seq(Tasks) /\ NoPair \in Pairs /\ FirstSeq \in Numbers
          /\ [i \in 0 .. StackSize - 1 |-> None] \in Slots
      BY Widths DEF NoPair, Pairs, Numbers, Slots
    <2>2. stack \in [Processors -> Stacks]
      BY <2>1 DEF Init, Stacks
    <2>3. /\ pc \in [Processors -> Places] /\ task \in [Processors -> Tasks \cup {Completion, None}]
          /\ kids \in [Processors -> Seq(Tasks)] /\ waiting \in [Processors -> BOOLEAN]
          /\ target \in [Processors -> Processors] /\ abort \in [Processors -> BOOLEAN]
          /\ runs \in [Tasks -> Nat]
      BY <2>1 DEF Init, Places
    <2>4. cur \in [Processors -> Pairs] /\ got \in [Processors -> Tasks \cup {None}]
      BY <2>1 DEF Init
    <2>5. /\ mpc \in {"spawn", "signal", "wait", "returned"} /\ toSpawn \in Seq(Tasks)
          /\ pred \in Int /\ exception \in BOOLEAN /\ sem \in Nat
          /\ queue \in Seq(Tasks) /\ processorsWaiting \in Int /\ avail \in Nat
          /\ aborting \in {"no", "stopping", "stopped"}
          /\ spawned \subseteq Tasks /\ finished \subseteq Tasks /\ refused \in BOOLEAN
      <3>1. Roots \in Seq(Tasks) /\ 0 \in Nat /\ 0 \in Int /\ 1 \in Int
        BY SchedulerAssumption
      <3> QED  BY <2>1, <3>1, Zenon DEF Init
    <2> QED  BY <2>2, <2>3, <2>4, <2>5 DEF Types
  <1>2. AllModes
    BY SchedulerAssumption DEF Init, AllModes, Modes, Holding, Inside, Searching
  <1>3. Offset(FirstSeq) = 0
    <2>1. FirstSeq + SeqSpace - FirstSeq = SeqSpace * 1 + 0
          /\ FirstSeq + SeqSpace - FirstSeq \in Int /\ 1 \in Int /\ 0 \in Int
      BY Widths
    <2>2. (FirstSeq + SeqSpace - FirstSeq) % SeqSpace = 0 % SeqSpace
      BY <2>1, Widths, ModMultiple
    <2>3. 0 % SeqSpace = 0
      BY Widths, ModSmall
    <2> QED  BY <2>2, <2>3 DEF Offset
  <1>4. \A p \in Processors : First(p) = 0 /\ Last(p) = 0 /\ Top(p) = 0
    BY <1>3 DEF Init, First, Last, Top
  <1>5. StackInv
    <2>1. Cardinality(PushedTasks) \in Nat
      BY <1>1, PushedGrows DEF PushedTasks, Types
    <2> QED  BY <1>4, <2>1, Widths DEF Init, StackInv, Bounded, Thief, Popper
  <1>6. Placed
    <2>1. 0 \in Processors
      BY ProcessorsFinite
    <2>2. PICK at : at = [t \in Tasks |-> [kind |-> "new", owner |-> 0, num |-> 0]]
      BY Zenon
    <2>3. at \in Sites /\ \A t \in Tasks : at[t].kind = "new"
      BY <2>1, <2>2 DEF Sites
    <2>4. Fates(at)
      BY <2>3 DEF Init, Fates
    <2>5. Queued(at)
      BY <2>3 DEF Init, Queued, NoRepeat
    <2>6. OnStacks(at)
      BY <1>4, <2>3 DEF OnStacks
    <2>7. Held(at)
      BY <2>3, SchedulerAssumption DEF Init, Held
    <2>8. Ran(at)
      BY <2>3 DEF Init, Ran, Started
    <2> QED  BY <2>3, <2>4, <2>5, <2>6, <2>7, <2>8 DEF Placed, Located
  <1>7. Family
    BY TasksAssumption DEF Init, Family, Pending, Unborn
  <1>8. Predecessors
    <2>1. Cardinality({}) = 0 /\ {} \ {} = {}
      BY FS_EmptySet
    <2> QED  BY <2>1, SchedulerAssumption DEF Init, Predecessors, One
  <1>9. WaitersCounted
    <2>1. Cardinality({}) = 0
      BY FS_EmptySet
    <2>2. {p \in Processors : waiting[p]} = {}
      BY DEF Init
    <2> QED  BY <2>1, <2>2 DEF Init, WaitersCounted
  <1>10. Covered
    BY DEF Init, Covered
  <1> QED  BY <1>1, <1>2, <1>5, <1>6, <1>7, <1>8, <1>9, <1>10 DEF Inv

\* The invariant is inductive.
LEMMA NextInv ==
    ASSUME Inv, [Next]_vars
    PROVE  Inv'
  <1>1. CASE Client
    BY <1>1, SpawnInv, SpawnSignalInv, DecAndWaitInv, WaitEndsInv DEF Client
  <1>2. ASSUME NEW p \in Processors, Processor(p) PROVE Inv'
    <2>1. CASE CheckAborting(p) \/ Dequeue(p) \/ StealLoad(p) \/ StealGet(p) \/ StealCas(p)
      BY <2>1, CheckAbortingInv, DequeueInv, StealLoadInv, StealGetInv, StealCasInv
    <2>2. CASE FoundNothing(p) \/ Wake(p) \/ NoLongerWaiting(p) \/ Run(p)
      BY <2>2, FoundNothingInv, WakeInv, NoLongerWaitingInv, RunInv
    <2>3. CASE SpawnChild(p) \/ PushEnd(p) \/ NoteChildQueued(p)
               \/ (\E throw \in BOOLEAN : FunctionEnds(p, throw))
      BY <2>3, SpawnChildInv, PushEndInv, NoteChildQueuedInv, FunctionEndsInv
    <2>4. CASE PredDone(p) \/ PopLoad(p) \/ PopCas(p)
      BY <2>4, PredDoneInv, PopLoadInv, PopCasInv
    <2> QED  BY <1>2, <2>1, <2>2, <2>3, <2>4 DEF Processor
  <1>3. CASE Stop
    BY <1>3, StopSchedulerInv DEF Stop
  <1>4. CASE StopAll
    BY <1>4, StopProcessingInv, SignalStopInv DEF StopAll
  <1>5. CASE UNCHANGED vars
    <2>1. UNCHANGED <<mpc, toSpawn, pred, exception, sem, spawned, finished, refused, runs, queue,
                      processorsWaiting, stack, pc, task, kids, waiting, target, cur, got, avail,
                      aborting, abort>>
      BY <1>5 DEF vars, client, completion, shared, searching, stopping, history
    <2>2. Types /\ AllModes /\ StackInv /\ Placed /\ Family /\ Predecessors /\ WaitersCounted
          /\ Covered
      BY DEF Inv
    <2>3. Types' /\ AllModes' /\ WaitersCounted' /\ Covered'
      BY <2>1, <2>2 DEF Types, AllModes, Modes, WaitersCounted, Covered
    <2>4. StackInv'
      BY <2>1, <2>2, StacksKept DEF Types
    <2>5. Placed'
      BY <2>1, <2>2, <2>3, PlacedKept
    <2>6. Family' /\ Predecessors'
      BY <2>1, <2>2, FamilyKept, PredecessorsKept
    <2> QED  BY <2>3, <2>4, <2>5, <2>6 DEF Inv
  <1> QED  BY <1>1, <1>2, <1>3, <1>4, <1>5 DEF Next

\* Every reachable state of the scheduler satisfies the invariant.
THEOREM Invariance == Spec => []Inv
  BY InitInv, NextInv, PTL DEF Spec


\* The entries between the numbers of a stack are the tasks on it.
LEMMA OnStackEntries ==
    ASSUME Types, StackInv, NEW p \in Processors, NEW t
    PROVE  t \in OnStack(p) <=> \E n \in Nat : First(p) <= n /\ n < Last(p) /\ t = Entry(p, n)
  <1>1. /\ stack[p].start \in Numbers /\ stack[p].end \in Numbers
        /\ First(p) \in Nat /\ Last(p) \in Nat /\ First(p) <= Last(p)
    BY StackTypes DEF StackInv, Bounded
  <1>2. Size(stack[p]) = Last(p) - First(p)
    BY <1>1, SizeOffset DEF Size, First, Last
  <1>3. ASSUME NEW i \in Nat PROVE stack[p].slot[Index(stack[p].start + i)] = Entry(p, First(p) + i)
    <2>1. PICK a \in Int : a = stack[p].start
      BY <1>1, Widths DEF Numbers
    <2>2. PICK c \in Int : c = FirstSeq + First(p)
      BY <1>1, Widths
    <2>0. i \in Int
      OBVIOUS
    <2>3. a % StackSize = c % StackSize
      BY <1>1, <2>1, <2>2, IndexOffset DEF Index, Position, First
    <2>4. ((a % StackSize) + i) % StackSize = (a + i) % StackSize
      BY <2>0, Widths, ModAdd
    <2>5. ((c % StackSize) + i) % StackSize = (c + i) % StackSize
      BY <2>0, Widths, ModAdd
    <2>6. c + i = FirstSeq + (First(p) + i)
      BY <1>1, <2>2, Widths
    <2>7. Index(stack[p].start + i) = Position(First(p) + i)
      BY <2>1, <2>3, <2>4, <2>5, <2>6 DEF Index, Position
    <2> QED  BY <2>7 DEF Entry
  <1>4. ASSUME t \in OnStack(p)
        PROVE  \E n \in Nat : First(p) <= n /\ n < Last(p) /\ t = Entry(p, n)
    <2>1. PICK i \in 0 .. Size(stack[p]) - 1 : t = stack[p].slot[Index(stack[p].start + i)]
      BY <1>4 DEF OnStack
    <2>2. i \in Nat /\ First(p) + i \in Nat /\ First(p) <= First(p) + i /\ First(p) + i < Last(p)
      BY <1>1, <1>2
    <2> QED  BY <1>3, <2>1, <2>2
  <1>5. ASSUME NEW n \in Nat, First(p) <= n, n < Last(p), t = Entry(p, n) PROVE t \in OnStack(p)
    <2>1. PICK i \in Nat : i = n - First(p)
      BY <1>1, <1>5
    <2>2. i \in 0 .. Size(stack[p]) - 1 /\ First(p) + i = n
      BY <1>1, <1>2, <1>5, <2>1
    <2>3. t = stack[p].slot[Index(stack[p].start + i)]
      BY <1>3, <1>5, <2>2
    <2> QED  BY <2>2, <2>3 DEF OnStack
  <1> QED  BY <1>4, <1>5

\* An entry of a stack is a task with its place there.
LEMMA EntryPlace ==
    ASSUME Types, StackInv, NEW at \in Sites, Located(at), NEW p \in Processors, NEW t \in OnStack(p)
    PROVE  t \in Tasks /\ at[t].kind = "stack" /\ at[t].owner = p
  <1>1. PICK n \in Nat : First(p) <= n /\ n < Last(p) /\ t = Entry(p, n)
    BY OnStackEntries
  <1>2. n < Top(p)
    BY <1>1, StackTypes DEF Top
  <1>3. Entry(p, n) \in Tasks /\ at[Entry(p, n)] = [kind |-> "stack", owner |-> p, num |-> n]
    BY <1>1, <1>2 DEF Located, OnStacks
  <1> QED  BY <1>1, <1>3

\* No function is executed twice, and none on a stack was executed or is on
\* another one, however steals, pops and pushes interleave (stealTask, popNextTask
\* and pushTask of CasTaskStack).
THEOREM ExecutesOnce == Spec => []ExecutedOnce
  <1>1. ASSUME Inv PROVE ExecutedOnce
    <2>1. Types /\ StackInv /\ Placed
      BY <1>1 DEF Inv
    <2>2. PICK at \in Sites : Located(at)
      BY <2>1 DEF Placed
    <2>3. \A t \in Tasks : runs[t] <= 1
      BY <2>2 DEF Located, Ran
    <2>4. ASSUME NEW p \in Processors, NEW t \in OnStack(p), NEW q \in Processors \ {p}
          PROVE  t \notin OnStack(q)
      BY <2>1, <2>2, EntryPlace
    <2>5. ASSUME NEW p \in Processors, NEW t \in OnStack(p) PROVE runs[t] = 0
      <3>1. t \in Tasks /\ at[t].kind = "stack"
        BY <2>1, <2>2, EntryPlace
      <3> QED  BY <2>2, <3>1 DEF Located, Ran, Started
    <2> QED  BY <2>3, <2>4, <2>5 DEF ExecutedOnce
  <1> QED  BY <1>1, Invariance, PTL

\* A function that was accepted by spawn() has completed, a thread has it, or it is
\* on a list where a processor will find it.
THEOREM LosesNothing == Spec => []NothingLost
  <1>1. ASSUME Inv PROVE NothingLost
    <2>1. Types /\ StackInv /\ Placed
      BY <1>1 DEF Inv
    <2>2. PICK at \in Sites : Located(at)
      BY <2>1 DEF Placed
    <2>3. SUFFICES ASSUME NEW t \in spawned \ finished
                   PROVE  \/ t \in BeingPushed
                          \/ \E p \in Processors : t = task[p] \/ t \in OnStack(p)
                          \/ \E i \in DOMAIN queue : queue[i] = t
      BY DEF NothingLost
    <2>4. /\ t \in Tasks /\ at[t].owner \in Processors /\ at[t].num \in Nat
          /\ at[t].kind \in {"queue", "stack", "held"}
      <3>1. t \in Tasks
        BY <2>1 DEF Types
      <3> QED  BY <2>2, <3>1, SiteTypes DEF Located, Fates
    <2>5. CASE at[t].kind = "queue"
      BY <2>2, <2>4, <2>5 DEF Located, Queued
    <2>6. CASE at[t].kind = "held"
      BY <2>2, <2>4, <2>6 DEF Located, Held
    <2>7. CASE at[t].kind = "stack"
      <3>1. PICK p \in Processors, n \in Nat : First(p) <= n /\ n < Top(p) /\ t = Entry(p, n)
        BY <2>2, <2>4, <2>7 DEF Located, OnStacks
      <3>2. Last(p) \in Nat /\ stack[p].end \in Numbers
        BY <2>1, StackTypes
      <3>3. CASE n < Last(p)
        BY <2>1, <3>1, <3>3, OnStackEntries
      <3>4. CASE ~(n < Last(p))
        <4>1. pc[p] = "push" /\ n = Last(p)
          BY <3>1, <3>2, <3>4 DEF Top
        <4>2. Index(stack[p].end) = Position(Last(p))
          BY <3>2, IndexOffset DEF Last
        <4> QED  BY <3>1, <4>1, <4>2 DEF Entry, BeingPushed
      <3> QED  BY <3>3, <3>4
    <2> QED  BY <2>4, <2>5, <2>6, <2>7
  <1> QED  BY <1>1, Invariance, PTL

\* decAndWait() returns when all functions have completed, and not before.
THEOREM ReturnsLast == Spec => []CompletesLast
  <1>1. ASSUME Inv PROVE CompletesLast
    <2>1. SUFFICES ASSUME mpc = "returned" PROVE spawned = finished
      BY DEF CompletesLast
    <2>2. Types /\ Placed /\ Predecessors
      BY <1>1 DEF Inv
    <2>3. pred = 0 /\ pred = Cardinality(spawned \ finished) + One(refused)
          /\ Cardinality(spawned \ finished) \in Nat
      BY <2>1, <2>2, ToComplete DEF Predecessors, One
    <2>4. spawned \ finished = {}
      BY <2>2, <2>3, ToComplete DEF One
    <2>5. finished \subseteq spawned
      <3>1. PICK at \in Sites : Fates(at)
        BY <2>2 DEF Placed, Located
      <3> QED  BY <2>2, <3>1 DEF Fates, Types
    <2> QED  BY <2>4, <2>5
  <1> QED  BY <1>1, Invariance, PTL

\* No processor sleeps for good while there is a task to be taken (getNextTask's
\* count of waiting processors against the signals of those who add tasks), and the
\* variables keep their types.
THEOREM NobodySleepsOnWork == Spec => []NoSleepOnWork
  <1>1. ASSUME Inv PROVE NoSleepOnWork
    <2>1. Types /\ AllModes /\ Predecessors /\ Covered
      BY <1>1 DEF Inv
    <2>2. TypeOK
      <3>1. processorsWaiting \in 0 .. NumProcessors
        BY <1>1, SeenWaiting
      <3>2. pred \in Nat
        BY <2>1, ToComplete DEF Predecessors, One
      <3>3. stack \in [Processors -> [start : 0 .. SeqSpace - 1, end : 0 .. SeqSpace - 1,
                                      slot : [0 .. StackSize - 1 -> Tasks \cup {None}]]]
        BY <2>1, Zenon DEF Types, Stacks, Slots, Numbers
      <3> QED  BY <2>1, <3>1, <3>2, <3>3, Zenon DEF Types, TypeOK, Places
    <2>3. ASSUME aborting = "no", queue # <<>>, NEW p \in Processors, pc[p] = "sleep"
          PROVE  avail > 0 \/ mpc = "signal" \/ \E q \in Processors : pc[q] \in {"check", "queue"}
      <3>1. waiting[p] /\ pc[p] \in Past
        BY <2>1, <2>3 DEF AllModes, Modes, Past
      <3>2. Len(queue) <= avail + One(mpc = "signal")
                                + Cardinality({q \in Processors : pc[q] \in Looking})
        BY <2>1, <2>3, <3>1 DEF Covered
      <3>3. Len(queue) \in Nat /\ Len(queue) # 0 /\ avail \in Nat
        BY <2>1, <2>3 DEF Types
      <3>4. ASSUME \A q \in Processors : pc[q] \notin Looking
            PROVE  Cardinality({q \in Processors : pc[q] \in Looking}) = 0
        <4>1. {q \in Processors : pc[q] \in Looking} = {}
          BY <3>4
        <4> QED  BY <4>1, FS_EmptySet
      <3> QED  BY <3>2, <3>3, <3>4 DEF One, Looking
    <2>4. ASSUME aborting = "no", NEW p \in Processors, stack[p].start # stack[p].end
          PROVE  pc[p] \in Busy
      BY <2>1, <2>4 DEF AllModes, Modes
    <2> QED  BY <2>2, <2>3, <2>4 DEF NoSleepOnWork
  <1> QED  BY <1>1, Invariance, PTL
=============================================================================
