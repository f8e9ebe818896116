--------------------------- MODULE MessageCollator ---------------------------
(* The way of a packet from the receiving thread to the query that waits for  *)
(* it (udptrr.cpp, udpmsgpk.cpp, udpsha.cpp, jisem.hpp):                      *)
(*   - receive_data pushes buffers on input_queue and then signals it;        *)
(*   - the collator thread pops them, looks up the collator of their query,   *)
(*     inserts them in the sequencer of their message, and queues a message   *)
(*     that is complete as a result and then signals the query;               *)
(*   - the query's thread creates its collator, takes results until it is     *)
(*     interrupted or runs out of memory, reads each with a cursor or drops   *)
(*     it, and detaches the collator; another thread may interrupt it.        *)
(* An action is what a thread does between two accesses to what it shares.    *)
(*                                                                            *)
(* One query is modelled.  What comes for no query goes to the collator that  *)
(* discards (RUID_DISCARD) or nowhere: in both cases it is released.          *)
EXTENDS PackageSequencer

CONSTANTS
    Messages,       \* the messages of the query
    Packets,        \* [Messages -> Nat]: the number of packets of each
    MaxArrivals,    \* bound: packets that arrive, counting copies
    MaxQueue,       \* bound: packets in input_queue, which flow control keeps short
    MemoryLimit,    \* may the memory of the query or of the process run out?
    None            \* no buffer, no sequencer, no result

ASSUME CollatorAssumption ==
    /\ IsFiniteSet(Messages) /\ Packets \in [Messages -> 1 .. RESENT]
    /\ {MaxArrivals, MaxQueue} \subseteq Nat
    /\ MemoryLimit \in BOOLEAN

VARIABLES
    inputQueue,     \* the buffers in input_queue
    dataAvail,      \* tokens of its semaphore
    pushing,        \* is receive_data between the push and its signal?
    cpc, buffer,    \* where the collator thread is, and the buffer it holds
    coll,           \* the collator of the query
    qpc, result,    \* where the query is, and the result it reads
    arrivals,       \* history: how often each packet has arrived
    freed,          \* history: how many buffers have been released
    results,        \* history: how often each message was given to the query
    lost            \* history: was a packet discarded that was no duplicate?

vars == <<inputQueue, dataAvail, pushing, cpc, buffer, coll, qpc, result, arrivals, freed,
          results, lost>>

receiveVars == <<inputQueue, dataAvail, pushing, arrivals>>

\* The sum of the values of f: how many pairs of an argument and one of its units.
Total(f) == Cardinality(UNION {{x} \X (1 .. f[x]) : x \in DOMAIN f})

AllPackets == {p \in Messages \X (0 .. RESENT - 1) : p[2] < Packets[p[1]]}

Buffers == [msg : Messages, seq : 0 .. 2 * COMPLETE - 1, duplicate : BOOLEAN]

Sequencers == [list : Seq(0 .. 2 * COMPLETE - 1), contiguous : Nat, tail : 0 .. NoPacket, avail : Nat]

Results == [msg : Messages, seq : Sequencers, pos : Nat]

ASSUME NoneAssumption == None \notin Buffers \cup Sequencers \cup Results

NewCollator == [state |-> "none", mapping |-> [m \in Messages |-> None],
                queue |-> <<>>, sem |-> 0, error |-> FALSE, memLimitExceeded |-> FALSE]

TypeOK ==
    /\ inputQueue \in Seq(Buffers) /\ dataAvail \in Nat /\ pushing \in BOOLEAN
    /\ cpc \in {"pop", "lookup", "attach", "discard", "signal"}
    /\ buffer \in Buffers \cup {None}
    /\ coll.state \in {"none", "attached", "detached", "destroyed"}
    /\ coll.mapping \in [Messages -> Sequencers \cup {None}]
    /\ coll.queue \in Seq([msg : Messages, seq : Sequencers])
    /\ coll.sem \in Nat /\ coll.error \in BOOLEAN /\ coll.memLimitExceeded \in BOOLEAN
    /\ qpc \in {"idle", "wait", "expired", "front", "reading", "stopped", "detached"}
    /\ result \in Results \cup {None}
    /\ arrivals \in [AllPackets -> Nat] /\ freed \in Nat
    /\ results \in [Messages -> Nat] /\ lost \in BOOLEAN

Init ==
    /\ inputQueue = <<>> /\ dataAvail = 0 /\ pushing = FALSE
    /\ cpc = "pop" /\ buffer = None
    /\ coll = NewCollator
    /\ qpc = "idle" /\ result = None
    /\ arrivals = [p \in AllPackets |-> 0] /\ freed = 0
    /\ results = [m \in Messages |-> 0] /\ lost = FALSE

-----------------------------------------------------------------------------
(* receive_data.                                                             *)

Arrived == Total(arrivals)

\* The pktSeq of packet i of message m, which may have been sent again.
PktSeq(m, i, resent) ==
    i + (IF i = Packets[m] - 1 THEN COMPLETE ELSE 0) + (IF resent THEN RESENT ELSE 0)

\* pushOwn: the buffer is queued, and outside the critical section signalled.
\* The tracker may have marked a packet that arrived before as a duplicate.
PushOwn(m, i, resent, duplicate) ==
    /\ ~pushing /\ Arrived < MaxArrivals /\ Len(inputQueue) < MaxQueue
    /\ duplicate => arrivals[<<m, i>>] > 0
    /\ inputQueue' = Append(inputQueue, [msg |-> m, seq |-> PktSeq(m, i, resent), duplicate |-> duplicate])
    /\ pushing' = TRUE
    /\ arrivals' = [arrivals EXCEPT ![<<m, i>>] = @ + 1]
    /\ UNCHANGED <<dataAvail, cpc, buffer, coll, qpc, result, freed, results, lost>>

SignalPushed ==
    /\ pushing
    /\ dataAvail' = dataAvail + 1
    /\ pushing' = FALSE
    /\ UNCHANGED <<inputQueue, cpc, buffer, coll, qpc, result, arrivals, freed, results, lost>>

-----------------------------------------------------------------------------
(* The collator thread.                                                      *)

\* pop(true), and the buffer taken from the queue.
Pop ==
    /\ cpc = "pop" /\ dataAvail > 0 /\ inputQueue # <<>>
    /\ dataAvail' = dataAvail - 1
    /\ buffer' = Head(inputQueue)
    /\ inputQueue' = Tail(inputQueue)
    /\ cpc' = "lookup"
    /\ UNCHANGED <<pushing, coll, qpc, result, arrivals, freed, results, lost>>

\* collatePacket: the collator found is linked until the packet is attached.
Lookup ==
    /\ cpc = "lookup"
    /\ cpc' = IF coll.state = "attached" THEN "attach" ELSE "discard"
    /\ UNCHANGED <<receiveVars, buffer, coll, qpc, result, freed, results, lost>>

\* A packet that nobody wants, and the release of the buffer.
Discard ==
    /\ cpc = "discard"
    /\ cpc' = "pop"
    /\ freed' = freed + 1
    /\ lost' = (lost \/ ~buffer.duplicate)
    /\ buffer' = None
    /\ UNCHANGED <<receiveVars, coll, qpc, result, results>>

BuffersIn(c) ==
    LET InMapping(m) == IF c.mapping[m] = None THEN 0 ELSE Len(c.mapping[m].list)
        InQueue(k) == Len(c.queue[k].seq.list)
    IN  Total([m \in Messages |-> InMapping(m)]) + Total([k \in DOMAIN c.queue |-> InQueue(k)])

\* A collator whose last link is gone is destroyed with all it holds.
Unlinked(c, n) ==
    IF c.state = "detached"
    THEN coll' = [NewCollator EXCEPT !.state = "destroyed"] /\ freed' = freed + n + BuffersIn(c)
    ELSE coll' = c /\ freed' = freed + n

\* attach_databuffer fails, or finds a packet marked as a duplicate.
Refuse(exceeded) ==
    /\ cpc = "attach"
    /\ buffer.duplicate \/ coll.memLimitExceeded \/ MemoryLimit
    /\ exceeded => ~buffer.duplicate /\ MemoryLimit
    /\ Unlinked([coll EXCEPT !.memLimitExceeded = @ \/ exceeded], 1)
    /\ lost' = (lost \/ ~buffer.duplicate)
    /\ buffer' = None
    /\ cpc' = "pop"
    /\ UNCHANGED <<receiveVars, qpc, result, results>>

SequencerOf(m) == IF coll.mapping[m] = None THEN NewSequencer ELSE coll.mapping[m]

\* Faulty variant of Collated: a complete message stays in the mapping.
CollatedInPlace(m, p) ==
    LET s == SequencerOf(m)
    IN  IF CompletesMessage(s, p)
        THEN [coll EXCEPT !.mapping[m] = Inserted(s, p),
                          !.queue = Append(@, [msg |-> m, seq |-> Inserted(s, p)])]
        ELSE [coll EXCEPT !.mapping[m] = Inserted(s, p)]

\* The new state of the collator after collate() of packet p of message m.
Collated(m, p) ==
    LET s == SequencerOf(m)
    IN  IF CompletesMessage(s, p)
        THEN [coll EXCEPT !.mapping[m] = None,
                          !.queue = Append(@, [msg |-> m, seq |-> Inserted(s, p)])]
        ELSE [coll EXCEPT !.mapping[m] = Inserted(s, p)]

\* attach_databuffer succeeds.  A complete message is on the queue before the
\* query is signalled.
Collate ==
    LET m == buffer.msg
        s == SequencerOf(m)
        p == ClearResent(buffer.seq)
    IN  /\ cpc = "attach" /\ ~buffer.duplicate /\ ~coll.memLimitExceeded
        /\ buffer' = None
        /\ \/ /\ IsDiscarded(s, p)
              /\ Unlinked(coll, 1)
              /\ cpc' = "pop"
           \/ /\ ~IsDiscarded(s, p) /\ CompletesMessage(s, p)
              /\ coll' = Collated(m, p)
              /\ cpc' = "signal"
              /\ UNCHANGED freed
           \/ /\ ~IsDiscarded(s, p) /\ ~CompletesMessage(s, p)
              /\ Unlinked(Collated(m, p), 0)
              /\ cpc' = "pop"
        /\ UNCHANGED <<receiveVars, qpc, result, results, lost>>

SignalResult ==
    /\ cpc = "signal"
    /\ Unlinked([coll EXCEPT !.sem = @ + 1], 0)
    /\ cpc' = "pop"
    /\ UNCHANGED <<receiveVars, buffer, qpc, result, results, lost>>

-----------------------------------------------------------------------------
(* The query.                                                                *)

queryUnchanged == <<receiveVars, cpc, buffer, lost>>

CreateCollator ==
    /\ coll.state = "none"
    /\ coll' = [coll EXCEPT !.state = "attached"]
    /\ UNCHANGED <<queryUnchanged, qpc, result, freed, results>>

\* getNextResult, up to its wait.
GetNextResult ==
    /\ qpc = "idle" /\ coll.state = "attached"
    /\ \/ (coll.memLimitExceeded \/ MemoryLimit) /\ qpc' = "stopped"
       \/ ~coll.memLimitExceeded /\ qpc' = "wait"
    /\ UNCHANGED <<queryUnchanged, coll, result, freed, results>>

\* InterruptableSemaphore::wait: an interrupt that is found set is thrown.
WaitEnds(c, p) ==
    /\ coll' = [c EXCEPT !.error = FALSE]
    /\ qpc' = IF c.error THEN "stopped" ELSE p
    /\ UNCHANGED <<queryUnchanged, result, freed, results>>

Take == qpc = "wait" /\ coll.sem > 0 /\ WaitEnds([coll EXCEPT !.sem = @ - 1], "front")

TimeOut ==
    /\ qpc = "wait" /\ coll.sem = 0
    /\ qpc' = "expired"
    /\ UNCHANGED <<queryUnchanged, coll, result, freed, results>>

Expire == qpc = "expired" /\ WaitEnds(coll, "idle")

Front ==
    /\ qpc = "front" /\ coll.queue # <<>>
    /\ result' = [msg |-> Head(coll.queue).msg, seq |-> Head(coll.queue).seq, pos |-> 0]
    /\ coll' = [coll EXCEPT !.queue = Tail(@)]
    /\ results' = [results EXCEPT ![Head(coll.queue).msg] = @ + 1]
    /\ qpc' = "reading"
    /\ UNCHANGED <<queryUnchanged, freed>>

\* The cursor goes to the next packet (PackageSequencer::next), or beyond the last.
AtEnd == result.pos > Len(result.seq.list)

CursorNext ==
    /\ qpc = "reading" /\ ~AtEnd /\ result.seq.avail > 0
    /\ result' = [result EXCEPT !.pos = @ + 1, !.seq.avail = @ - 1]
    /\ UNCHANGED <<queryUnchanged, coll, qpc, freed, results>>

\* The result is read to its end, or dropped before.
ReleaseResult ==
    /\ qpc = "reading"
    /\ freed' = freed + Len(result.seq.list)
    /\ result' = None
    /\ qpc' = "idle"
    /\ UNCHANGED <<queryUnchanged, coll, results>>

\* Faulty variant of Interrupt: every call signals.
InterruptAgain ==
    /\ coll.state = "attached"
    /\ coll' = [coll EXCEPT !.error = TRUE, !.sem = @ + 1]
    /\ UNCHANGED <<queryUnchanged, qpc, result, freed, results>>

\* interrupt(), by any thread: only the first counts until it is thrown.
Interrupt ==
    /\ coll.state = "attached" /\ ~coll.error
    /\ coll' = [coll EXCEPT !.error = TRUE, !.sem = @ + 1]
    /\ UNCHANGED <<queryUnchanged, qpc, result, freed, results>>

\* detachCollator; the collator thread may still have it linked.
DetachCollator ==
    /\ coll.state = "attached" /\ qpc \in {"idle", "stopped"}
    /\ qpc' = "detached"
    /\ IF cpc \in {"attach", "signal"}
       THEN coll' = [coll EXCEPT !.state = "detached"] /\ UNCHANGED freed
       ELSE /\ coll' = [NewCollator EXCEPT !.state = "destroyed"]
            /\ freed' = freed + BuffersIn(coll)
    /\ UNCHANGED <<queryUnchanged, result, results>>

-----------------------------------------------------------------------------
Receive ==
    \E p \in AllPackets, resent, duplicate \in BOOLEAN : PushOwn(p[1], p[2], resent, duplicate)

CollatorThread == Pop \/ Lookup \/ Discard \/ (\E e \in BOOLEAN : Refuse(e)) \/ Collate \/ SignalResult

QueryStep == GetNextResult \/ Take \/ Front \/ Expire

Next ==
    \/ Receive \/ SignalPushed \/ CollatorThread
    \/ CreateCollator \/ QueryStep \/ TimeOut \/ CursorNext \/ ReleaseResult
    \/ Interrupt \/ DetachCollator

Spec == Init /\ [][Next]_vars

\* Every thread goes on with what it has begun, and the query asks for results
\* until it is stopped.  Nothing has to arrive, to time out or to be interrupted.
Fairness ==
    /\ WF_vars(SignalPushed) /\ WF_vars(CollatorThread)
    /\ WF_vars(QueryStep) /\ WF_vars(ReleaseResult)

FairSpec == Spec /\ Fairness

-----------------------------------------------------------------------------
(* Properties.                                                               *)

Live == {s \in {coll.mapping[m] : m \in Messages} : s # None}
        \cup {coll.queue[k].seq : k \in DOMAIN coll.queue}

\* The insertion sort, its fast path at the tail and its start at the last
\* contiguous packet agree: in whatever order and how often packets come, resent or
\* not, the list is strictly sorted, tail is its end and no packet that could be
\* read is left uncounted.
SequencersExact ==
    \A s \in Live :
        /\ \A i \in 1 .. Len(s.list) - 1 : s.list[i] < s.list[i + 1]
        /\ s.tail = s.list[Len(s.list)]
        /\ \A i \in 1 .. s.contiguous : Number(s.list[i]) = i - 1
        /\ s.contiguous < Len(s.list) => Number(s.list[s.contiguous + 1]) # s.contiguous

\* A message given to the query is whole and in order, and its cursor never waits,
\* neither for a packet nor for the end ("Will potentially block indefinitely").
ResultsReadable ==
    /\ \A k \in DOMAIN coll.queue :
         /\ Len(coll.queue[k].seq.list) = Packets[coll.queue[k].msg]
         /\ coll.queue[k].seq.avail = Packets[coll.queue[k].msg] + 1
    /\ qpc = "reading" /\ ~AtEnd =>
         result.seq.avail > 0 /\ (result.pos > 0 => Number(result.seq.list[result.pos]) = result.pos - 1)

\* Every buffer that arrived is in one place only, and is released once: whatever
\* discards it, and whoever drops the last link to the collator.
BuffersConserved ==
    Arrived = freed + Len(inputQueue) + (IF buffer = None THEN 0 ELSE 1) + BuffersIn(coll)
              + (IF result = None THEN 0 ELSE Len(result.seq.list))

\* A token stands for a buffer or a result: the collator thread never pops from an
\* empty queue, and the query, interrupted or not, never takes the front of one.
\* The variables keep their types.
TokensExact ==
    /\ TypeOK
    /\ dataAvail + (IF pushing THEN 1 ELSE 0) = Len(inputQueue)
    /\ qpc \notin {"stopped", "detached"} =>
         coll.sem + (IF cpc = "signal" THEN 1 ELSE 0) + (IF qpc = "front" THEN 1 ELSE 0)
           = Len(coll.queue) + (IF coll.error THEN 1 ELSE 0)

\* A message all of whose packets have come, in any order, is given to the query,
\* unless a packet was refused or the query stopped.
EventuallyDelivered ==
    <>[](\A m \in Messages :
           \/ \E p \in AllPackets : p[1] = m /\ arrivals[p] = 0
           \/ results[m] > 0 \/ lost \/ qpc \in {"stopped", "detached"})
=============================================================================
