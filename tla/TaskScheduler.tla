---------------------------- MODULE TaskScheduler ----------------------------
(* The task scheduler of jlib (jtask.cpp, jtask.hpp): processor threads take  *)
(* tasks from a global queue, from their own stacks of child tasks and, when  *)
(* these are empty, steal from the stacks of others; a thread that finds      *)
(* nothing sleeps.  A client spawns functions under a CCompletionTask and     *)
(* waits for all of them with decAndWait(); a function may spawn more, and    *)
(* may throw.  The scheduler may be destroyed at any time.                    *)
(*                                                                            *)
(* CasTaskStack is lock free: a pair (start, end) is updated with             *)
(* compare-and-exchange, the slots of the tasks separately.  An action is one *)
(* atomic access to what threads share.  Atomics are sequentially consistent. *)
EXTENDS Naturals, Sequences, FiniteSets

CONSTANTS
    NumProcessors,     \* numThreads
    Tasks,             \* the functions
    Roots,             \* the sequence of those that the client spawns
    Children,          \* [Tasks -> Seq(Tasks)]: those that each one spawns
    StackSize,         \* maxChildTasks, a power of two
    SeqSpace, FirstSeq,  \* 2^32: start and end wrap around; where they are when a
                       \* scheduler that has been in use is observed
    Throwers,          \* the functions that may throw an exception
    CanStop,           \* may the scheduler be destroyed?
    Completion, None   \* the completion task, and no task

Processors == 0 .. NumProcessors - 1

ASSUME SchedulerAssumption ==
    /\ NumProcessors \in Nat \ {0} /\ StackSize \in Nat \ {0}
    /\ SeqSpace \in Nat /\ SeqSpace > StackSize /\ SeqSpace % StackSize = 0
    /\ FirstSeq \in 0 .. SeqSpace - 1
    /\ Roots \in Seq(Tasks) /\ Children \in [Tasks -> Seq(Tasks)]
    /\ Throwers \subseteq Tasks /\ CanStop \in BOOLEAN
    /\ Completion \notin Tasks /\ None \notin Tasks /\ Completion # None

Among(s) == {s[i] : i \in DOMAIN s}
NoRepeat(s) == \A i, j \in DOMAIN s : s[i] = s[j] => i = j

\* Every spawn() makes a task of its own.  Fewer are pushed on the stacks than it
\* takes for start and end to come around: an exchange that finds the pair it
\* loaded, 2^32 pushes later, would succeed by mistake.
ASSUME TasksAssumption ==
    /\ NoRepeat(Roots)
    /\ \A t \in Tasks : NoRepeat(Children[t]) /\ Among(Roots) \cap Among(Children[t]) = {}
    /\ \A t, u \in Tasks : t # u => Among(Children[t]) \cap Among(Children[u]) = {}
    /\ IsFiniteSet(Tasks) /\ Cardinality(Tasks \ Among(Roots)) < SeqSpace

VARIABLES
    mpc, toSpawn,         \* the client: where it is, and what it has yet to spawn
    pred, exception, sem, \* the completion task: numPredecessors, whether it has an
                          \* exception, tokens of its semaphore
    queue,                \* the global queue
    processorsWaiting,
    avail,                \* tokens of the semaphore the processors sleep on
    stack,                \* [start, end, slot] of each processor
    pc, task, kids,       \* each processor: where it is, the task it has, what it has
                          \* yet to spawn,
    waiting, target,      \* is it counted in processorsWaiting, whom it steals from,
    cur, got,             \* and the pair and the task it has read from a stack
    aborting, abort,      \* the scheduler and each processor have been told to stop
    spawned, finished,    \* history: the tasks scheduled, and those completed,
    refused, runs         \* was a task refused by a full stack, and how often was
                          \* each one executed

client == <<mpc, toSpawn>>
completion == <<pred, exception, sem>>
shared == <<queue, processorsWaiting, avail>>
searching == <<waiting, target>>
stopping == <<aborting, abort>>
history == <<spawned, finished, refused, runs>>

fixed == <<client, completion, stopping, history>>

vars == <<client, completion, shared, stack, pc, task, kids, searching, cur, got, stopping, history>>

Pairs == [start : 0 .. SeqSpace - 1, end : 0 .. SeqSpace - 1]

TypeOK ==
    /\ mpc \in {"spawn", "signal", "wait", "returned"} /\ toSpawn \in Seq(Tasks)
    /\ pred \in Nat /\ exception \in BOOLEAN /\ sem \in Nat
    /\ queue \in Seq(Tasks) /\ processorsWaiting \in 0 .. NumProcessors /\ avail \in Nat
    /\ stack \in [Processors -> [start : 0 .. SeqSpace - 1, end : 0 .. SeqSpace - 1,
                                 slot : [0 .. StackSize - 1 -> Tasks \cup {None}]]]
    /\ pc \in [Processors -> {"check", "queue", "steal", "get", "cas", "nothing", "sleep", "found",
                              "run", "func", "push", "note", "pred", "pop", "popcas",
                              "ended", "crashed"}]
    /\ task \in [Processors -> Tasks \cup {Completion, None}]
    /\ kids \in [Processors -> Seq(Tasks)]
    /\ waiting \in [Processors -> BOOLEAN] /\ target \in [Processors -> Processors]
    /\ cur \in [Processors -> Pairs] /\ got \in [Processors -> Tasks \cup {None}]
    /\ aborting \in {"no", "stopping", "stopped"} /\ abort \in [Processors -> BOOLEAN]
    /\ spawned \subseteq Tasks /\ finished \subseteq Tasks /\ refused \in BOOLEAN
    /\ runs \in [Tasks -> Nat]

NoPair == [start |-> 0, end |-> 0]

Init ==
    /\ mpc = "spawn" /\ toSpawn = Roots
    /\ pred = 1 /\ exception = FALSE /\ sem = 0
    /\ queue = <<>> /\ processorsWaiting = 0 /\ avail = 0
    /\ stack = [p \in Processors |-> [start |-> FirstSeq, end |-> FirstSeq,
                                      slot |-> [i \in 0 .. StackSize - 1 |-> None]]]
    /\ pc = [p \in Processors |-> "check"] /\ task = [p \in Processors |-> None]
    /\ kids = [p \in Processors |-> <<>>]
    /\ waiting = [p \in Processors |-> FALSE] /\ target = [p \in Processors |-> p]
    /\ cur = [p \in Processors |-> NoPair] /\ got = [p \in Processors |-> None]
    /\ aborting = "no" /\ abort = [p \in Processors |-> FALSE]
    /\ spawned = {} /\ finished = {} /\ refused = FALSE /\ runs = [t \in Tasks |-> 0]

-----------------------------------------------------------------------------
(* CasTaskStack.                                                             *)

Pair(s) == [start |-> s.start, end |-> s.end]
Size(s) == (s.end + SeqSpace - s.start) % SeqSpace
Index(i) == i % StackSize

\* Faulty variant of Full: one task too many.
FullLate(s) == Size(s) > StackSize

\* pushTask fails: there is no room.
Full(s) == Size(s) >= StackSize

Plus1(i) == (i + 1) % SeqSpace
Minus1(i) == (i + SeqSpace - 1) % SeqSpace

\* Faulty variant of Popped: only end moves.
PoppedSimply(c) == [c EXCEPT !.end = Minus1(@)]

\* The pair after a pop: "increments both start and end if the last item is removed".
Popped(c) ==
    IF c.start = Minus1(c.end) THEN [c EXCEPT !.start = c.end] ELSE [c EXCEPT !.end = Minus1(@)]

Stolen(c) == [c EXCEPT !.start = Plus1(@)]

WithPair(s, c) == [s EXCEPT !.start = c.start, !.end = c.end]

-----------------------------------------------------------------------------
(* The client and the completion task.                                       *)

\* A semaphore signal, if a processor is seen waiting.
SignalIfWaiting == avail' = IF processorsWaiting > 0 THEN avail + 1 ELSE avail

\* spawn(): outside the processors the function goes on the global queue.
Spawn ==
    /\ mpc = "spawn" /\ toSpawn # <<>>
    /\ toSpawn' = Tail(toSpawn)
    /\ \/ /\ exception /\ UNCHANGED <<mpc, pred, queue, spawned>>
       \/ /\ ~exception
          /\ pred' = pred + 1
          /\ queue' = Append(queue, Head(toSpawn))
          /\ spawned' = spawned \cup {Head(toSpawn)}
          /\ mpc' = "signal"
    /\ UNCHANGED <<exception, sem, processorsWaiting, avail, stack, pc, task, kids, searching,
                   cur, got, stopping, finished, refused, runs>>

SpawnSignal ==
    /\ mpc = "signal"
    /\ SignalIfWaiting
    /\ mpc' = "spawn"
    /\ UNCHANGED <<toSpawn, completion, queue, processorsWaiting, stack, pc, task, kids,
                   searching, cur, got, stopping, history>>

\* decAndWait(): the last predecessor does not wait.
DecAndWait ==
    /\ mpc = "spawn" /\ toSpawn = <<>>
    /\ pred' = pred - 1
    /\ mpc' = IF pred = 1 THEN "returned" ELSE "wait"
    /\ UNCHANGED <<toSpawn, exception, sem, shared, stack, pc, task, kids, searching, cur, got,
                   stopping, history>>

WaitEnds ==
    /\ mpc = "wait" /\ sem > 0
    /\ sem' = sem - 1
    /\ mpc' = "returned"
    /\ UNCHANGED <<toSpawn, pred, exception, shared, stack, pc, task, kids, searching, cur, got,
                   stopping, history>>

-----------------------------------------------------------------------------
(* getNextTask().                                                            *)

Goto(p, l) == pc' = [pc EXCEPT ![p] = l]

\* A task is found (or none, when the scheduler is being destroyed).
Found(p, t) ==
    /\ task' = [task EXCEPT ![p] = t]
    /\ Goto(p, IF waiting[p] THEN "found" ELSE "run")

CheckAborting(p) ==
    /\ pc[p] = "check"
    /\ \/ aborting # "no" /\ Found(p, None)
       \/ aborting = "no" /\ Goto(p, "queue") /\ UNCHANGED task
    /\ UNCHANGED <<fixed, shared, stack, kids, searching, cur, got>>

NextTarget(q) == (q + 1) % NumProcessors

\* The next to steal from, or nothing was found anywhere.
TryNext(p, q) ==
    /\ target' = [target EXCEPT ![p] = IF NextTarget(q) = p THEN p ELSE NextTarget(q)]
    /\ Goto(p, IF NextTarget(q) = p THEN "nothing" ELSE "steal")

Dequeue(p) ==
    /\ pc[p] = "queue"
    /\ \/ /\ queue # <<>>
          /\ queue' = Tail(queue)
          /\ Found(p, Head(queue))
          /\ UNCHANGED target
       \/ queue = <<>> /\ TryNext(p, p) /\ UNCHANGED <<queue, task>>
    /\ UNCHANGED <<fixed, processorsWaiting, avail, stack, kids, waiting, cur, got>>

\* stealTask(), with what it has loaded from the pair of the target.
Loaded(p, c) ==
    IF c.start = c.end
    THEN TryNext(p, target[p]) /\ cur' = [cur EXCEPT ![p] = NoPair]
    ELSE Goto(p, "get") /\ cur' = [cur EXCEPT ![p] = c] /\ UNCHANGED target

StealLoad(p) ==
    /\ pc[p] = "steal"
    /\ Loaded(p, Pair(stack[target[p]]))
    /\ UNCHANGED <<fixed, shared, stack, task, kids, waiting, got>>

StealGet(p) ==
    /\ pc[p] = "get"
    /\ got' = [got EXCEPT ![p] = stack[target[p]].slot[Index(cur[p].start)]]
    /\ Goto(p, "cas")
    /\ UNCHANGED <<fixed, shared, stack, task, kids, searching, cur>>

StealCas(p) ==
    /\ pc[p] = "cas"
    /\ got' = [got EXCEPT ![p] = None]
    /\ \/ /\ Pair(stack[target[p]]) = cur[p]
          /\ stack' = [stack EXCEPT ![target[p]] = WithPair(@, Stolen(cur[p]))]
          /\ Found(p, got[p])
          /\ cur' = [cur EXCEPT ![p] = NoPair] /\ target' = [target EXCEPT ![p] = p]
       \/ /\ Pair(stack[target[p]]) # cur[p]
          /\ Loaded(p, Pair(stack[target[p]]))
          /\ UNCHANGED <<stack, task>>
    /\ UNCHANGED <<fixed, shared, kids, waiting>>

CountWaiting(p) == IF waiting[p] THEN processorsWaiting ELSE processorsWaiting + 1

\* Faulty variant of SleepOrRepeat: it sleeps without looking again.
SleepAtOnce(p) == "sleep"

\* "Indicate there is a thread waiting and then repeat", and only then sleep.
SleepOrRepeat(p) == IF waiting[p] THEN "sleep" ELSE "check"

FoundNothing(p) ==
    /\ pc[p] = "nothing"
    /\ waiting' = [waiting EXCEPT ![p] = TRUE]
    /\ processorsWaiting' = CountWaiting(p)
    /\ Goto(p, SleepOrRepeat(p))
    /\ UNCHANGED <<fixed, queue, avail, stack, task, kids, target, cur, got>>

Wake(p) ==
    /\ pc[p] = "sleep" /\ avail > 0
    /\ avail' = avail - 1
    /\ Goto(p, "check")
    /\ UNCHANGED <<fixed, queue, processorsWaiting, stack, task, kids, searching, cur, got>>

NoLongerWaiting(p) ==
    /\ pc[p] = "found"
    /\ waiting' = [waiting EXCEPT ![p] = FALSE]
    /\ processorsWaiting' = processorsWaiting - 1
    /\ Goto(p, "run")
    /\ UNCHANGED <<fixed, queue, avail, stack, task, kids, target, cur, got>>

-----------------------------------------------------------------------------
(* doRun().                                                                  *)

\* execute() begins: the completion task signals, a function is skipped once
\* another has failed.  There is no check that there is a task.
Run(p) ==
    LET t == task[p]
    IN  /\ pc[p] = "run"
        /\ \/ abort[p] /\ Goto(p, "ended") /\ UNCHANGED <<sem, kids, runs>>
           \/ ~abort[p] /\ t = None /\ Goto(p, "crashed") /\ UNCHANGED <<sem, kids, runs>>
           \/ /\ ~abort[p] /\ t = Completion
              /\ sem' = sem + 1
              /\ Goto(p, "pop")
              /\ UNCHANGED <<kids, runs>>
           \/ /\ ~abort[p] /\ t \in Tasks
              /\ kids' = [kids EXCEPT ![p] = IF exception THEN <<>> ELSE Children[t]]
              /\ runs' = [runs EXCEPT ![t] = @ + 1]
              /\ Goto(p, "func")
              /\ UNCHANGED sem
        /\ UNCHANGED <<client, pred, exception, shared, stack, task, searching, cur, got,
                       stopping, spawned, finished, refused>>

\* spawn() by a function: the child is a predecessor of the completion task before
\* it is pushed; pushTask throws when the stack is full.
SpawnChild(p) ==
    LET s == stack[p]
        t == Head(kids[p])
    IN  /\ pc[p] = "func" /\ kids[p] # <<>>
        /\ \/ /\ exception
              /\ kids' = [kids EXCEPT ![p] = Tail(@)]
              /\ UNCHANGED <<pred, exception, stack, pc, spawned, refused>>
           \/ /\ ~exception /\ Full(s)
              /\ pred' = pred + 1
              /\ exception' = TRUE /\ refused' = TRUE
              /\ kids' = [kids EXCEPT ![p] = <<>>]
              /\ UNCHANGED <<stack, pc, spawned>>
           \/ /\ ~exception /\ ~Full(s)
              /\ pred' = pred + 1
              /\ stack' = [stack EXCEPT ![p].slot[Index(s.end)] = t]
              /\ spawned' = spawned \cup {t}
              /\ kids' = [kids EXCEPT ![p] = Tail(@)]
              /\ Goto(p, "push")
              /\ UNCHANGED <<exception, refused>>
        /\ UNCHANGED <<client, sem, shared, task, searching, cur, got, stopping, finished, runs>>

PushEnd(p) ==
    /\ pc[p] = "push"
    /\ stack' = [stack EXCEPT ![p].end = Plus1(@)]
    /\ Goto(p, "note")
    /\ UNCHANGED <<fixed, shared, task, kids, searching, cur, got>>

NoteChildQueued(p) ==
    /\ pc[p] = "note"
    /\ SignalIfWaiting
    /\ Goto(p, "func")
    /\ UNCHANGED <<fixed, queue, processorsWaiting, stack, task, kids, searching, cur, got>>

\* The function ends, or throws: the exception is kept by the completion task.
FunctionEnds(p, throw) ==
    /\ pc[p] = "func"
    /\ IF throw THEN task[p] \in Throwers ELSE kids[p] = <<>>
    /\ exception' = (exception \/ throw)
    /\ kids' = [kids EXCEPT ![p] = <<>>]
    /\ Goto(p, "pred")
    /\ UNCHANGED <<client, pred, sem, shared, stack, task, searching, cur, got, stopping, history>>

\* Faulty variants of FollowsLast: the last but one predecessor goes on; no one does.
FollowsEarly(n) == n <= 2

FollowsAtZero(n) == n = 0

\* notePredDone(): the value before the decrement was that of the last predecessor.
FollowsLast(n) == n = 1

\* checkNextTask(): whoever is the last predecessor goes on with the completion task.
PredDone(p) ==
    /\ pc[p] = "pred"
    /\ pred' = pred - 1
    /\ finished' = finished \cup {task[p]}
    /\ task' = [task EXCEPT ![p] = IF FollowsLast(pred) THEN Completion ELSE None]
    /\ Goto(p, IF FollowsLast(pred) THEN "run" ELSE "pop")
    /\ UNCHANGED <<client, exception, sem, shared, stack, kids, searching, cur, got, stopping,
                   spawned, refused, runs>>

\* popNextTask(), with what it has loaded from the pair: the task is read once.
PopLoaded(p, c, t) ==
    /\ task' = [task EXCEPT ![p] = None]
    /\ IF c.start = c.end
       THEN /\ Goto(p, "check")
            /\ cur' = [cur EXCEPT ![p] = NoPair] /\ got' = [got EXCEPT ![p] = None]
       ELSE /\ Goto(p, "popcas")
            /\ cur' = [cur EXCEPT ![p] = c] /\ got' = [got EXCEPT ![p] = t]

PopLoad(p) ==
    /\ pc[p] = "pop"
    /\ PopLoaded(p, Pair(stack[p]), stack[p].slot[Index(Minus1(stack[p].end))])
    /\ UNCHANGED <<fixed, shared, stack, kids, searching>>

PopCas(p) ==
    /\ pc[p] = "popcas"
    /\ \/ /\ Pair(stack[p]) = cur[p]
          /\ stack' = [stack EXCEPT ![p] = WithPair(@, Popped(cur[p]))]
          /\ task' = [task EXCEPT ![p] = got[p]]
          /\ Goto(p, "run")
          /\ cur' = [cur EXCEPT ![p] = NoPair] /\ got' = [got EXCEPT ![p] = None]
       \/ /\ Pair(stack[p]) # cur[p]
          /\ PopLoaded(p, Pair(stack[p]), got[p])
          /\ UNCHANGED stack
    /\ UNCHANGED <<fixed, shared, kids, searching>>

-----------------------------------------------------------------------------
(* ~TaskScheduler().                                                         *)

StopScheduler ==
    /\ CanStop /\ aborting = "no"
    /\ aborting' = "stopping"
    /\ UNCHANGED <<client, completion, shared, stack, pc, task, kids, searching, cur, got, abort,
                   history>>

StopProcessing(p) ==
    /\ aborting = "stopping" /\ ~abort[p] /\ \A q \in 0 .. p - 1 : abort[q]
    /\ abort' = [abort EXCEPT ![p] = TRUE]
    /\ UNCHANGED <<client, completion, shared, stack, pc, task, kids, searching, cur, got,
                   aborting, history>>

\* Faulty variant of StopTokens: one processor is woken.
OneToken == 1

\* "Start all the processors".
StopTokens == NumProcessors

SignalStop ==
    /\ aborting = "stopping" /\ \A p \in Processors : abort[p]
    /\ aborting' = "stopped"
    /\ avail' = avail + StopTokens
    /\ UNCHANGED <<client, completion, queue, processorsWaiting, stack, pc, task, kids, searching,
                   cur, got, abort, history>>

-----------------------------------------------------------------------------
\* A processor that executes no task at all takes the process with it.
Alive == \A p \in Processors : pc[p] # "crashed"

Client == Alive /\ (Spawn \/ SpawnSignal \/ DecAndWait \/ WaitEnds)

Processor(p) ==
    /\ Alive
    /\ \/ CheckAborting(p) \/ Dequeue(p) \/ StealLoad(p) \/ StealGet(p) \/ StealCas(p)
       \/ FoundNothing(p) \/ Wake(p) \/ NoLongerWaiting(p)
       \/ Run(p) \/ SpawnChild(p) \/ PushEnd(p) \/ NoteChildQueued(p)
       \/ (\E throw \in BOOLEAN : FunctionEnds(p, throw))
       \/ PredDone(p) \/ PopLoad(p) \/ PopCas(p)

StopAll == Alive /\ ((\E p \in Processors : StopProcessing(p)) \/ SignalStop)

Stop == Alive /\ StopScheduler

Next == Client \/ (\E p \in Processors : Processor(p)) \/ Stop \/ StopAll

Spec == Init /\ [][Next]_vars

\* Every thread that can take a step takes one in the end; the scheduler need not
\* be destroyed, but a destructor that has begun goes on.
Fairness ==
    /\ WF_vars(Client)
    /\ \A p \in Processors : WF_vars(Processor(p))
    /\ WF_vars(StopAll)

FairSpec == Spec /\ Fairness

-----------------------------------------------------------------------------
(* Properties.                                                               *)

OnStack(p) == {stack[p].slot[Index(stack[p].start + i)] : i \in 0 .. Size(stack[p]) - 1}

\* "There is a nasty ABA race condition": whoever steals and pops from a stack at
\* the same time, and however late a steal completes, no function is executed
\* twice, and none that is still on a stack was executed or is on another stack.
ExecutedOnce ==
    /\ \A t \in Tasks : runs[t] <= 1
    /\ \A p \in Processors : \A t \in OnStack(p) :
         runs[t] = 0 /\ \A q \in Processors \ {p} : t \notin OnStack(q)

BeingPushed == {stack[p].slot[Index(stack[p].end)] : p \in {q \in Processors : pc[q] = "push"}}

\* A function that was accepted has completed, or some thread has it, or it is on a
\* list where a processor will find it: pushes, pops and steals lose none.
NothingLost ==
    \A t \in spawned \ finished :
        \/ t \in BeingPushed \/ \E p \in Processors : t = task[p] \/ t \in OnStack(p)
        \/ \E i \in DOMAIN queue : queue[i] = t

\* decAndWait() returns only when every function spawned has completed, those
\* spawned by other functions meanwhile included.
CompletesLast == mpc = "returned" => spawned = finished

Busy == {"run", "func", "push", "note", "pred", "pop", "popcas"}

\* No processor sleeps for good while there is a task to be taken: if it is on the
\* global queue, a signal has been or will be sent or another processor is about to
\* look there; if it is on a stack, the owner is at work and will come to it.
\* The variables keep their types; no processor is counted as waiting twice.
NoSleepOnWork ==
    /\ TypeOK
    /\ aborting = "no" /\ queue # <<>> /\ (\E p \in Processors : pc[p] = "sleep") =>
         avail > 0 \/ mpc = "signal" \/ \E p \in Processors : pc[p] \in {"check", "queue"}
    /\ aborting = "no" =>
         \A p \in Processors : stack[p].start # stack[p].end => pc[p] \in Busy

\* decAndWait() returns, as long as no function was refused by a full stack: all
\* functions complete, and the completion task, which "will rethrow the first
\* exception once all functions have completed", signals.
ReturnsUnlessRefused == <>(mpc = "returned" \/ aborting # "no" \/ refused)

\* ~TaskScheduler can join every processor: none is left asleep or searching.
EventuallyJoined ==
    aborting # "no" ~> ~Alive \/ \A p \in Processors : pc[p] = "ended"
=============================================================================
