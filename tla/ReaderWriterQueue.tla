-------------------------- MODULE ReaderWriterQueue --------------------------
(* The bounded queue between threads of jlib (jqueue.hpp), as the junctions   *)
(* of the strands use it: writers enqueue blocks and stop, readers dequeue    *)
(* until the queue says that no more will come, or stop early; another thread *)
(* may abort all of them; once all have ended the queue is reset, drained and *)
(* used again.                                                                *)
(*                                                                            *)
(* One word holds the position to dequeue from, the numbers of waiting        *)
(* readers and writers and the number of items.  It is updated with           *)
(* compare-and-exchange; the slot that an update has claimed is filled or     *)
(* emptied afterwards.  An action is one atomic access to what threads share. *)
(* The spins before a thread waits are left out: it waits at once.            *)
EXTENDS Naturals, Sequences, FiniteSets

CONSTANTS
    Readers, Writers,
    MaxItems,                   \* maxItems
    NumSlots,                   \* dynamicSlotMask + 1
    SeqSpace, FirstSeq,         \* 2^sequenceBits, and where a queue is that was used before
    ReaderLimit, WriterLimit,   \* 2^readerBits and 2^writerBits
    FirstItems, LaterItems,     \* how many items each writer enqueues in the first use of
                                \* the queue and in later ones
    MaxCuts, MaxResets          \* bound how often the queue is aborted or a reader stops
                                \* early, and how often the queue is used again

Threads == Readers \cup Writers
Numbers == 1 .. (IF FirstItems < LaterItems THEN LaterItems ELSE FirstItems)
Items == Writers \X Numbers
NoItem == <<>>

ASSUME QueueAssumption ==
    /\ IsFiniteSet(Readers) /\ IsFiniteSet(Writers) /\ Readers \cap Writers = {} /\ Readers # {}
    /\ {MaxItems, NumSlots, SeqSpace, ReaderLimit, WriterLimit} \subseteq Nat \ {0}
    /\ MaxItems < NumSlots /\ SeqSpace % NumSlots = 0
    /\ NumSlots * WriterLimit <= SeqSpace       \* sequenceBits = writerBits + maxSlotBits
    /\ FirstSeq \in 0 .. SeqSpace - 1
    /\ Cardinality(Readers) < ReaderLimit /\ Cardinality(Writers) < WriterLimit
    /\ {FirstItems, LaterItems, MaxCuts, MaxResets} \subseteq Nat

VARIABLES
    state,                          \* [deq, readers, writers, count]
    slot,                           \* [seq, value] of every slot
    readTokens, writeTokens,        \* the semaphores readers and writers
    activeReaders, activeWriters, aborted,
    pc, cur,                        \* each thread: where it is, and the state it has seen
    next,                           \* each writer: the number of its next item
    result,                         \* each reader: the item it has read
    apc,                            \* the thread that aborts
    cuts, resets,                   \* how often each of these has happened
    line, due,                      \* history: the items in the order of the updates that
                                    \* claimed their slots, and the one due to each reader,
    received, early                 \* those received, and whether a reader stopped early

tokens == <<readTokens, writeTokens>>
active == <<activeReaders, activeWriters>>
counters == <<cuts, resets>>
history == <<line, due, received, early>>

vars == <<state, slot, tokens, active, aborted, pc, cur, next, result, apc, counters, history>>

Sequence == 0 .. SeqSpace - 1
State == [deq : Sequence, readers : 0 .. ReaderLimit - 1, writers : 0 .. WriterLimit - 1,
          count : 0 .. MaxItems]

TypeOK ==
    /\ state \in State
    /\ slot \in [0 .. NumSlots - 1 -> [seq : Sequence, value : Items \cup {NoItem}]]
    /\ readTokens \in Nat /\ writeTokens \in Nat
    /\ activeReaders \in 0 .. Cardinality(Readers) /\ activeWriters \in 0 .. Cardinality(Writers)
    /\ aborted \in BOOLEAN
    /\ pc \in [Threads -> {"idle", "try", "check", "last", "park", "parked", "wait", "sleep", "woken",
                           "slot", "store", "signal", "stop", "wake", "done"}]
    /\ cur \in [Threads -> State]
    /\ next \in [Writers -> Nat]
    /\ result \in [Readers -> Items \cup {NoItem}]
    /\ apc \in {"idle", "signal"} /\ cuts \in 0 .. MaxCuts /\ resets \in 0 .. MaxResets
    /\ line \in Seq(Items) /\ due \in [Readers -> Items \cup {NoItem}]
    /\ received \subseteq Items /\ early \in BOOLEAN

Empty == [deq |-> 0, readers |-> 0, writers |-> 0, count |-> 0]

Init ==
    /\ state = [Empty EXCEPT !.deq = FirstSeq]
    /\ slot = [i \in 0 .. NumSlots - 1 |->
                 [seq |-> CHOOSE n \in Sequence : \E k \in 0 .. NumSlots - 1 :
                            n = (FirstSeq + k) % SeqSpace /\ n % NumSlots = i,
                  value |-> NoItem]]
    /\ readTokens = 0 /\ writeTokens = 0
    /\ activeReaders = Cardinality(Readers) /\ activeWriters = Cardinality(Writers)
    /\ aborted = FALSE
    /\ pc = [t \in Threads |-> "idle"] /\ cur = [t \in Threads |-> Empty]
    /\ next = [w \in Writers |-> 1] /\ result = [r \in Readers |-> NoItem]
    /\ apc = "idle" /\ cuts = 0 /\ resets = 0
    /\ line = <<>> /\ due = [r \in Readers |-> NoItem] /\ received = {} /\ early = FALSE

-----------------------------------------------------------------------------
(* The word: additions to a field carry into the next one.                   *)

Seq1(n) == n % SeqSpace

\* Faulty variant of OneFewer: the count is cleared.
NoneLeft(n) == 0

\* One of those that wait is woken by the thread that makes room or adds an item.
OneFewer(n) == IF n = 0 THEN 0 ELSE n - 1

WithReader(s) ==
    IF s.readers + 1 < ReaderLimit
    THEN [s EXCEPT !.readers = @ + 1]
    ELSE [s EXCEPT !.readers = 0, !.deq = Seq1(@ + 1)]

WithWriter(s) ==
    IF s.writers + 1 < WriterLimit
    THEN [s EXCEPT !.writers = @ + 1]
    ELSE WithReader([s EXCEPT !.writers = 0])

Enqueued(s) == [s EXCEPT !.count = @ + 1, !.readers = OneFewer(@)]

Dequeued(s) == [s EXCEPT !.deq = Seq1(@ + 1), !.count = @ - 1, !.writers = OneFewer(@)]

SlotOf(seq) == seq % NumSlots

EnqueueSeq(s) == Seq1(s.deq + s.count)
FilledSeq(s) == Seq1(EnqueueSeq(s) + 1)
ExpectedSeq(s) == Seq1(s.deq + 1)

FreedSeq(s) == Seq1(s.deq + NumSlots)

AllReadersStopped == activeReaders = 0
AllWritersStopped == activeWriters = 0

Goto(t, l) == pc' = [pc EXCEPT ![t] = l]

\* It no longer needs what it has seen.
Forget(t) == cur' = [cur EXCEPT ![t] = Empty]

-----------------------------------------------------------------------------
(* What enqueue() and dequeue() share.                                       *)

others == <<slot, aborted, next, result, apc, counters, history>>

\* A thread decides how to go on.
Step(t, from, to) ==
    /\ pc[t] = from /\ Goto(t, to)
    /\ cur' = [cur EXCEPT ![t] = IF to = "park" THEN @ ELSE Empty]
    /\ UNCHANGED <<state, tokens, active, others>>

\* It gives up, and the call returns false, or goes on.
Unless(t, from, stopped, to) == Step(t, from, IF stopped THEN "stop" ELSE to)

Parked(t) == Unless(t, "parked", aborted, "wait")
Woken(t) == Unless(t, "woken", aborted, "try")

\* A waiting thread adds itself to the word, if that is still what it was.
Park(t, s) ==
    /\ pc[t] = "park"
    /\ \/ state = cur[t] /\ state' = s /\ Goto(t, "parked")
       \/ state # cur[t] /\ Goto(t, "try") /\ UNCHANGED state
    /\ Forget(t)
    /\ UNCHANGED <<tokens, active, others>>

SignalReaders(t, from, n, to) ==
    /\ pc[t] = from /\ Goto(t, to)
    /\ readTokens' = readTokens + n
    /\ UNCHANGED <<state, writeTokens, active, cur, others>>

SignalWriters(t, from, n, to) ==
    /\ pc[t] = from /\ Goto(t, to)
    /\ writeTokens' = writeTokens + n
    /\ UNCHANGED <<state, readTokens, active, cur, others>>

-----------------------------------------------------------------------------
(* The producers: enqueue() and noteWriterStopped().                         *)

NumItems == IF resets = 0 THEN FirstItems ELSE LaterItems

EnqueueBegin(w) == next[w] <= NumItems /\ Unless(w, "idle", aborted, "try")

EnqueueTry(w) ==
    /\ pc[w] = "try"
    /\ cur' = [cur EXCEPT ![w] = state]
    /\ \/ /\ state.count = MaxItems
          /\ Goto(w, "check")
          /\ UNCHANGED <<state, line>>
       \/ /\ state.count # MaxItems
          /\ state' = Enqueued(state)
          /\ line' = Append(line, <<w, next[w]>>)
          /\ Goto(w, "slot")
    /\ UNCHANGED <<slot, tokens, active, aborted, next, result, apc, counters, due, received, early>>

\* The queue is full: no one will make room if all readers have stopped.
EnqueueCheck(w) == Unless(w, "check", AllReadersStopped, "park")

EnqueueWait(w) == Unless(w, "wait", AllReadersStopped, "sleep")

EnqueueWake(w) ==
    /\ pc[w] = "sleep" /\ writeTokens > 0
    /\ writeTokens' = writeTokens - 1
    /\ Goto(w, "woken")
    /\ UNCHANGED <<state, readTokens, active, cur, others>>

\* Faulty variant of SlotFree: the writer does not wait for the reader.
NotChecked(w) == TRUE

\* "the consumer has not yet read from the slot": the writer spins until it has.
SlotFree(w) == slot[SlotOf(EnqueueSeq(cur[w]))].seq = EnqueueSeq(cur[w])

Fill(w) ==
    /\ pc[w] = "slot" /\ SlotFree(w)
    /\ slot' = [slot EXCEPT ![SlotOf(EnqueueSeq(cur[w]))].value = <<w, next[w]>>]
    /\ Goto(w, "store")
    /\ UNCHANGED <<state, tokens, active, aborted, cur, next, result, apc, counters, history>>

Filled(w) ==
    /\ pc[w] = "store"
    /\ slot' = [slot EXCEPT ![SlotOf(EnqueueSeq(cur[w]))].seq = FilledSeq(cur[w])]
    /\ next' = [next EXCEPT ![w] = @ + 1]
    /\ Goto(w, IF cur[w].readers # 0 THEN "signal" ELSE "idle") /\ Forget(w)
    /\ UNCHANGED <<state, tokens, active, aborted, result, apc, counters, history>>

\* A producer that has no more stops.
LastItem(w) == next[w] > NumItems /\ Step(w, "idle", "stop")

WriterStops(w) ==
    /\ pc[w] = "stop"
    /\ activeWriters' = activeWriters - 1
    /\ Goto(w, IF activeWriters = 1 THEN "wake" ELSE "done")
    /\ UNCHANGED <<state, tokens, activeReaders, cur, others>>

Writer(w) ==
    \/ EnqueueBegin(w) \/ EnqueueTry(w) \/ EnqueueCheck(w) \/ Park(w, WithWriter(state))
    \/ Parked(w) \/ EnqueueWait(w) \/ EnqueueWake(w) \/ Woken(w)
    \/ Fill(w) \/ Filled(w) \/ SignalReaders(w, "signal", 1, "idle")
    \/ LastItem(w) \/ WriterStops(w) \/ SignalReaders(w, "wake", state.readers, "done")

-----------------------------------------------------------------------------
(* The consumers: dequeue() and noteReaderStopped().                         *)

DequeueBegin(r) == Unless(r, "idle", aborted, "try")

DequeueTry(r) ==
    /\ pc[r] = "try"
    /\ cur' = [cur EXCEPT ![r] = state]
    /\ \/ /\ state.count = 0
          /\ Goto(r, "check")
          /\ UNCHANGED <<state, line, due>>
       \/ /\ state.count # 0
          /\ state' = Dequeued(state)
          /\ due' = [due EXCEPT ![r] = Head(line)] /\ line' = Tail(line)
          /\ Goto(r, "slot")
    /\ UNCHANGED <<slot, tokens, active, aborted, next, result, apc, counters, received, early>>

DequeueCheck(r) == Step(r, "check", IF AllWritersStopped THEN "last" ELSE "park")

\* Faulty variant of DequeueLast: it does not look again.
EndAtOnce(r) == Step(r, "last", "stop")

\* "Check that nothing has been added since the previous load."
DequeueLast(r) == Unless(r, "last", state.count = 0, "try")

\* Faulty variant of DequeueWait: it sleeps though no writer is left.
WaitRegardless(r) == Step(r, "wait", "sleep")

\* "it may have happened before the cas": no one may be left to signal.
DequeueWait(r) == Step(r, "wait", IF AllWritersStopped THEN "try" ELSE "sleep")

DequeueWake(r) ==
    /\ pc[r] = "sleep" /\ readTokens > 0
    /\ readTokens' = readTokens - 1
    /\ Goto(r, "woken")
    /\ UNCHANGED <<state, writeTokens, active, cur, others>>

\* Faulty variant of SlotFilled: the reader does not wait for the writer.
NotAwaited(r) == TRUE

\* The reader spins until the writer that claimed the slot has filled it.
SlotFilled(r) == slot[SlotOf(cur[r].deq)].seq = ExpectedSeq(cur[r])

Take(r) ==
    /\ pc[r] = "slot" /\ SlotFilled(r)
    /\ result' = [result EXCEPT ![r] = slot[SlotOf(cur[r].deq)].value]
    /\ Goto(r, "store")
    /\ UNCHANGED <<state, slot, tokens, active, aborted, cur, next, apc, counters, history>>

Freed(r) ==
    /\ pc[r] = "store"
    /\ slot' = [slot EXCEPT ![SlotOf(cur[r].deq)] = [seq |-> FreedSeq(cur[r]), value |-> NoItem]]
    /\ received' = received \cup {result[r]}
    /\ result' = [result EXCEPT ![r] = NoItem] /\ due' = [due EXCEPT ![r] = NoItem]
    /\ Goto(r, IF cur[r].writers # 0 THEN "signal" ELSE "idle") /\ Forget(r)
    /\ UNCHANGED <<state, tokens, active, aborted, next, apc, counters, line, early>>

\* A consumer that wants no more stops.
StopEarly(r) ==
    /\ pc[r] = "idle" /\ cuts < MaxCuts
    /\ cuts' = cuts + 1 /\ early' = TRUE
    /\ Goto(r, "stop")
    /\ UNCHANGED <<state, slot, tokens, active, aborted, cur, next, result, apc, resets, line, due,
                   received>>

ReaderStops(r) ==
    /\ pc[r] = "stop"
    /\ activeReaders' = activeReaders - 1
    /\ Goto(r, IF activeReaders = 1 THEN "wake" ELSE "done")
    /\ UNCHANGED <<state, tokens, activeWriters, cur, others>>

Reader(r) ==
    \/ DequeueBegin(r) \/ DequeueTry(r) \/ DequeueCheck(r) \/ DequeueLast(r)
    \/ Park(r, WithReader(state)) \/ Parked(r) \/ DequeueWait(r) \/ DequeueWake(r) \/ Woken(r)
    \/ Take(r) \/ Freed(r) \/ SignalWriters(r, "signal", 1, "idle")
    \/ ReaderStops(r) \/ SignalWriters(r, "wake", state.writers, "done")

-----------------------------------------------------------------------------
(* abort() and reset().                                                      *)

Abort ==
    /\ apc = "idle" /\ cuts < MaxCuts
    /\ cuts' = cuts + 1
    /\ aborted' = TRUE /\ apc' = "signal"
    /\ UNCHANGED <<state, slot, tokens, active, pc, cur, next, result, resets, history>>

AbortSignal ==
    /\ apc = "signal"
    /\ readTokens' = readTokens + state.readers
    /\ writeTokens' = writeTokens + state.writers
    /\ apc' = "idle"
    /\ UNCHANGED <<state, slot, active, aborted, pc, cur, next, result, counters, history>>

AllDone == (\A t \in Threads : pc[t] = "done") /\ apc # "signal"

\* The slots that hold an item, and the word after as many calls of tryDequeue().
Undrained == {SlotOf(state.deq + i) : i \in 0 .. state.count - 1}

\* reset() leaves the word alone; resetBlockQueue then drains the queue with
\* tryDequeue, which signals the writers that the word still counts.
Reset ==
    /\ resets < MaxResets /\ AllDone
    /\ LET woken == IF state.count < state.writers THEN state.count ELSE state.writers
       IN  /\ state' = [state EXCEPT !.deq = Seq1(@ + state.count), !.count = 0, !.writers = @ - woken]
           /\ writeTokens' = woken
    /\ slot' = [i \in DOMAIN slot |->
                  IF i \in Undrained
                  THEN [seq |-> Seq1(slot[i].seq + NumSlots - 1), value |-> NoItem] ELSE slot[i]]
    /\ readTokens' = 0
    /\ activeReaders' = Cardinality(Readers) /\ activeWriters' = Cardinality(Writers)
    /\ aborted' = FALSE
    /\ pc' = [t \in Threads |-> "idle"]
    /\ next' = [w \in Writers |-> 1]
    /\ resets' = resets + 1
    /\ line' = <<>> /\ received' = {} /\ early' = FALSE
    /\ UNCHANGED <<cur, result, apc, cuts, due>>

-----------------------------------------------------------------------------
Next ==
    \/ \E w \in Writers : Writer(w)
    \/ \E r \in Readers : Reader(r) \/ StopEarly(r)
    \/ Abort \/ AbortSignal \/ Reset

Spec == Init /\ [][Next]_vars

\* Every thread that can take a step takes one in the end.
Fairness ==
    /\ \A w \in Writers : WF_vars(Writer(w))
    /\ \A r \in Readers : WF_vars(Reader(r))
    /\ WF_vars(AbortSignal)

FairSpec == Spec /\ Fairness

-----------------------------------------------------------------------------
(* Properties.                                                               *)

\* Readers get the items in the order in which the writers claimed their slots,
\* each once, although slots are filled and emptied later and in any order.
DequeuesInOrder == \A r \in Readers : pc[r] = "store" => result[r] = due[r]

ClaimedSlot(t) == SlotOf(IF t \in Readers THEN cur[t].deq ELSE EnqueueSeq(cur[t]))

\* No two threads are between the check of a slot's sequence and its update: the
\* "N writers all waiting to write to the same slot" take turns.
SlotsExclusive ==
    \A t, u \in Threads :
        t # u /\ pc[t] = "store" /\ pc[u] = "store" => ClaimedSlot(t) # ClaimedSlot(u)

Waiting(S) == {t \in S : pc[t] \in {"parked", "wait", "sleep"}}
WillSignalReader == {w \in Writers : pc[w] = "signal" \/ (pc[w] \in {"slot", "store"} /\ cur[w].readers # 0)}
WillSignalWriter == {r \in Readers : pc[r] = "signal" \/ (pc[r] \in {"slot", "store"} /\ cur[r].writers # 0)}

\* No wake-up is lost: every waiting thread is counted in the word, or there is a
\* token for it, or a thread that has taken it off the count is yet to signal.  The
\* counts stay inside their fields of the word, and all else keeps its type.
WaitersCovered ==
    /\ TypeOK
    /\ Cardinality(Waiting(Readers)) <= state.readers + readTokens + Cardinality(WillSignalReader)
    /\ Cardinality(Waiting(Writers)) <= state.writers + writeTokens + Cardinality(WillSignalWriter)

\* "consumers ... knowing there will be no more items": if no one aborted or stopped
\* early, every item has been received when all threads have ended.
AllReceived == AllDone /\ ~aborted /\ ~early => received = Writers \X (1 .. NumItems)

\* Every thread ends: no reader or writer waits or spins for ever.
EventuallyDone == <>[](\A t \in Threads : pc[t] = "done")

\* "This can never overflow...": adding a waiting thread to the word changes nothing
\* but the number of those that wait.
NeverOverflows ==
    [][/\ \A r \in Readers : pc[r] = "park" /\ pc'[r] = "parked" => state'.deq = state.deq
       /\ \A w \in Writers : pc[w] = "park" /\ pc'[w] = "parked" => state'.readers = state.readers]_vars
=============================================================================
