------------------------------- MODULE SDSLock -------------------------------
(* The lock of one node of the Dali data store (SDS): the lock object CLock,  *)
(* the connections that take, change and release it, and the deletion of the  *)
(* node with its last lock (dasds.cpp).                                       *)
(*                                                                            *)
(* A connection is served by a thread per request: one that connects or       *)
(* changes the mode of its lock (pc), and one that disconnects it (dpc).  An  *)
(* action is what a thread does in one stretch of the critical section        *)
(* lockCrit.  Between these a thread may hold the store's read/write lock     *)
(* dataRWLock for reading, and a connecting thread connectCrit; it gives up   *)
(* all three while it sleeps on the lock's semaphore.  What needs dataRWLock  *)
(* for writing therefore waits for NobodyReading.                             *)
(*                                                                            *)
(* Any wait may time out, and a wait that has ended may find its time up; an  *)
(* identifier of a connection is used again once nothing is left of it.       *)
(* RTM_LOCK_SUB is left out: the count it keeps is never read.                *)
EXTENDS Naturals, FiniteSets

CONSTANTS
    Connections,     \* the connections that may be open at once
    Deleters         \* those opened with RTM_DELETE_ON_DISCONNECT

Modes == {"none", "read", "hold", "write"}

ASSUME SDSLockAssumption ==
    /\ IsFiniteSet(Connections)
    /\ Deleters \subseteq Connections

VARIABLES
    lock,        \* the CLock of the node, NoLock when lockTable has none
    conn,        \* the entry of each connection in the table of connections
    pc,          \* where the thread that connects or changes mode is
    req,         \* the mode it asks for, and whether it is a change of mode
    dpc,         \* where the thread that disconnects is
    orphaned     \* has the node been removed from the tree?

vars == <<lock, conn, pc, req, dpc, orphaned>>

Absent == "absent"

NoLock == [present |-> FALSE, info |-> [c \in Connections |-> Absent], exclusive |-> FALSE,
           readLocks |-> 0, holdLocks |-> 0, waiting |-> 0, sem |-> 0, pending |-> 0,
           drolr |-> FALSE]

NoRequest == [mode |-> "none", change |-> FALSE]

TypeOK ==
    /\ lock \in [present : BOOLEAN, info : [Connections -> Modes \cup {Absent}],
                 exclusive : BOOLEAN, readLocks : Nat, holdLocks : Nat, waiting : Nat,
                 sem : Nat, pending : Nat, drolr : BOOLEAN]
    /\ conn \in [Connections -> {"none", "temp", "full"}]
    /\ pc \in [Connections -> {"idle", "first", "wait", "woken", "timedout", "validate",
                               "locked", "cleanup"}]
    /\ req \in [Connections -> [mode : Modes, change : BOOLEAN]]
    /\ dpc \in [Connections -> {"idle", "drolr", "unlock", "recheck", "delete"}]
    /\ orphaned \in BOOLEAN

Init ==
    /\ lock = NoLock
    /\ conn = [c \in Connections |-> "none"]
    /\ pc = [c \in Connections |-> "idle"]
    /\ req = [c \in Connections |-> NoRequest]
    /\ dpc = [c \in Connections |-> "idle"]
    /\ orphaned = FALSE

-----------------------------------------------------------------------------
(* The lock object.                                                          *)

Holders(l) == {c \in Connections : l.info[c] # Absent}

\* Faulty variant of wakeWaiting: one of them is woken.
wakeOne(l) == IF l.waiting > 0 THEN [l EXCEPT !.sem = @ + 1, !.waiting = @ - 1] ELSE l

\* Everyone asleep gets a token; they are no longer counted as waiting.
wakeWaiting(l) == [l EXCEPT !.sem = @ + l.waiting, !.waiting = 0]

Released(l, c) ==
    [l EXCEPT !.info[c]   = Absent,
              !.exclusive = @ /\ l.info[c] # "write",
              !.readLocks = IF l.info[c] \in {"read", "hold"} THEN @ - 1 ELSE @,
              !.holdLocks = IF l.info[c] = "hold" THEN @ - 1 ELSE @]

Granted(l, c, m) ==
    [l EXCEPT !.info[c]   = m,
              !.exclusive = @ \/ m = "write",
              !.readLocks = IF m \in {"read", "hold"} THEN @ + 1 ELSE @,
              !.holdLocks = IF m = "hold" THEN @ + 1 ELSE @]

NewLock(c, m) == Granted([NoLock EXCEPT !.present = TRUE], c, m)

Conflicts(l, m) ==
    \/ m # "none" /\ l.exclusive
    \/ m = "write" /\ (l.readLocks > 0 \/ l.holdLocks > 0)

\* tryLock: c asks for mode m.  A change of mode first gives up the mode held.
Changes(l, c, change) == change /\ l.info[c] # Absent

Grantable(l, c, m, change) ==
    IF Changes(l, c, change)
    THEN l.info[c] = m \/ ~Conflicts(Released(l, c), m)
    ELSE ~Conflicts(l, m)

\* The lock with the mode m that c keeps counted again, where it is refused another one.
\* Only a read lock is ever restored: a writer is alone, and is not refused.
Restored(l, c, m) ==
    [l EXCEPT !.info[c]   = m,
              !.readLocks = IF m \in {"read", "hold"} THEN @ + 1 ELSE @,
              !.holdLocks = IF m = "hold" THEN @ + 1 ELSE @]

\* Faulty variant of Refused: the mode is given up and not restored.
RefusedUnrestored(l, c, change) ==
    IF Changes(l, c, change) THEN [Released(l, c) EXCEPT !.info[c] = l.info[c]] ELSE l

\* tryLock() refuses: a change of mode restores the mode it has given up.
Refused(l, c, change) ==
    IF Changes(l, c, change) THEN Restored(Released(l, c), c, l.info[c]) ELSE l

LockHeld(l, c, m, change) ==
    ~Grantable(l, c, m, change) /\ m = "write" /\ Refused(l, c, change).holdLocks > 0

Locked(l, c, m, change) ==
    IF Changes(l, c, change)
    THEN IF l.info[c] = m THEN l ELSE wakeWaiting(Granted(Released(l, c), c, m))
    ELSE IF m = "none" THEN l ELSE Granted(l, c, m)

\* Faulty variant of Dropped: those that use the lock without holding it are forgotten.
DroppedUnused(l) == IF Holders(l) = {} THEN NoLock ELSE l

\* removePending: the lock leaves lockTable when nothing holds or uses it.
Dropped(l) == IF Holders(l) = {} /\ l.pending = 0 THEN NoLock ELSE l

\* ~CLock: a lock destroyed with its delete-on-last-release set removes the node.
DropDeletes(l) == Holders(l) = {} /\ l.pending = 0 /\ l.drolr

\* unlock(id): the answer whether it was the last of a node to be deleted, and
\* the lock afterwards, which has woken its waiters whatever c held.
LastUnlock(l, c) == l.info[c] # Absent /\ l.drolr /\ Holders(l) = {c}

Unlocked(l, c) ==
    IF ~l.present THEN l
    ELSE LET r == [Released(l, c) EXCEPT !.drolr = @ /\ ~LastUnlock(l, c)]
         IN  Dropped(wakeWaiting(r))

\* unlockAll(), as the node is taken out of the tree.
AllUnlocked(l) ==
    IF Holders(l) = {} THEN l
    ELSE Dropped(wakeWaiting([l EXCEPT !.info = NoLock.info, !.exclusive = FALSE,
                                       !.readLocks = 0, !.holdLocks = 0, !.drolr = FALSE]))

RemoveTree(l) ==
    /\ lock' = IF orphaned THEN l ELSE AllUnlocked(l)
    /\ orphaned' = TRUE

-----------------------------------------------------------------------------
(* The locks around the lock.                                                *)

\* Connecting threads hold connectCrit and dataRWLock for reading in these
\* places, disconnecting ones dataRWLock for reading.
Connecting(c) == pc[c] \in {"first", "locked", "cleanup"}

ConnectCritFree == \A c \in Connections : ~Connecting(c)

NobodyReading == \A c \in Connections : ~Connecting(c) /\ dpc[c] \notin {"drolr", "unlock"}

\* callback.block(): the locks that a thread takes again after its sleep.
CanBlock(c) == IF req[c].change THEN NobodyReading ELSE ConnectCritFree

-----------------------------------------------------------------------------
(* Taking the lock.                                                          *)

\* The thread of c leaves the lock l (removePending) for place p.
Leave(c, l, p) ==
    LET left == [l EXCEPT !.pending = @ - 1]
    IN  /\ lock' = Dropped(left)
        /\ orphaned' = (orphaned \/ DropDeletes(left))
        /\ pc' = [pc EXCEPT ![c] = p]
        /\ req' = [req EXCEPT ![c] = NoRequest]

\* changeMode throws; a connect goes on to release what it has.
Fail(c, l, r) == Leave(c, l, IF r.change THEN "idle" ELSE "cleanup")

Sleep(c, l, r) ==
    /\ lock' = [l EXCEPT !.waiting = @ + 1]
    /\ pc' = [pc EXCEPT ![c] = "wait"]
    /\ req' = [req EXCEPT ![c] = r]
    /\ UNCHANGED orphaned

\* One round of doLock for the request r, on the lock l.
Attempt(c, l, r) ==
    \/ conn[c] = "none" /\ Fail(c, l, r)
    \/ /\ conn[c] # "none" /\ Grantable(l, c, r.mode, r.change)
       /\ Leave(c, Locked(l, c, r.mode, r.change), IF r.change THEN "idle" ELSE "locked")
    \/ /\ conn[c] # "none" /\ LockHeld(l, c, r.mode, r.change)
       /\ Fail(c, Refused(l, c, r.change), r)
    \/ /\ conn[c] # "none"
       /\ ~Grantable(l, c, r.mode, r.change) /\ ~LockHeld(l, c, r.mode, r.change)
       /\ Sleep(c, Refused(l, c, r.change), r)

WithPending(l) == [l EXCEPT !.pending = @ + 1]

\* createConnection registers a temporary connection and finds the node.
Connect(c, m) ==
    /\ pc[c] = "idle" /\ dpc[c] = "idle" /\ conn[c] = "none"
    /\ ~orphaned /\ ConnectCritFree
    /\ conn' = [conn EXCEPT ![c] = "temp"]
    /\ pc' = [pc EXCEPT ![c] = IF m = "none" THEN "locked" ELSE "first"]
    /\ req' = [req EXCEPT ![c] = [mode |-> m, change |-> FALSE]]
    /\ UNCHANGED <<lock, dpc, orphaned>>

\* CCovenSDSManager::lock(): a new lock object is created holding the lock.
FirstTry(c) ==
    /\ pc[c] = "first"
    /\ \/ /\ ~lock.present
          /\ lock' = NewLock(c, req[c].mode)
          /\ pc' = [pc EXCEPT ![c] = "locked"]
          /\ req' = [req EXCEPT ![c] = NoRequest]
          /\ UNCHANGED orphaned
       \/ lock.present /\ Attempt(c, WithPending(lock), req[c])
    /\ UNCHANGED <<conn, dpc>>

\* DAMP_SDSCMD_CHANGEMODE, under the write lock.
ChangeMode(c, m) ==
    /\ pc[c] = "idle" /\ conn[c] = "full"
    /\ ~orphaned /\ NobodyReading
    /\ \/ /\ ~lock.present /\ m # "none"
          /\ lock' = NewLock(c, m)
          /\ UNCHANGED <<pc, req, orphaned>>
       \/ lock.present /\ Attempt(c, WithPending(lock), [mode |-> m, change |-> TRUE])
    /\ UNCHANGED <<conn, dpc>>

\* The sleep on the semaphore ends with a token or without.
Wake(c) ==
    /\ pc[c] = "wait" /\ lock.sem > 0
    /\ lock' = [lock EXCEPT !.sem = @ - 1]
    /\ pc' = [pc EXCEPT ![c] = "woken"]
    /\ UNCHANGED <<conn, req, dpc, orphaned>>

Timeout(c) ==
    /\ pc[c] = "wait"
    /\ pc' = [pc EXCEPT ![c] = "timedout"]
    /\ UNCHANGED <<lock, conn, req, dpc, orphaned>>

\* Faulty variants of Uncount: the count goes down although the waiter was signalled;
\* the token is left behind.
UncountAlways(l) == [l EXCEPT !.waiting = @ - 1]

UncountUnsignalled(l) == IF l.sem > 0 THEN l ELSE [l EXCEPT !.waiting = @ - 1]

\* "only dec waiting if waiting wasn't signalled"
Uncount(l) == IF l.sem > 0 THEN [l EXCEPT !.sem = @ - 1] ELSE [l EXCEPT !.waiting = @ - 1]

\* After a timeout: the sleeper is no longer counted, and validates the sessions
\* of the holders without the locks.
Settle(c) ==
    /\ pc[c] = "timedout" /\ CanBlock(c)
    /\ \/ orphaned /\ Fail(c, lock, req[c])
       \/ /\ ~orphaned
          /\ lock' = Uncount(lock)
          /\ pc' = [pc EXCEPT ![c] = "validate"]
          /\ UNCHANGED <<req, orphaned>>
    /\ UNCHANGED <<conn, dpc>>

\* The rest of the round: another attempt, or the time is up.
Resume(c) ==
    /\ pc[c] \in {"woken", "validate"} /\ CanBlock(c)
    /\ \/ ~orphaned /\ Attempt(c, lock, req[c])
       \/ Fail(c, lock, req[c])
    /\ UNCHANGED <<conn, dpc>>

\* createConnection: the temporary connection becomes the real one, unless it
\* was aborted or the node is gone meanwhile.
Establish(c) ==
    /\ pc[c] = "locked"
    /\ \/ /\ conn[c] = "temp" /\ ~orphaned
          /\ conn' = [conn EXCEPT ![c] = "full"]
          /\ pc' = [pc EXCEPT ![c] = "idle"]
       \/ /\ conn[c] = "none" \/ orphaned
          /\ pc' = [pc EXCEPT ![c] = "cleanup"]
          /\ UNCHANGED conn
    /\ UNCHANGED <<lock, req, dpc, orphaned>>

\* Faulty variant of Cleanup: the lock is kept.
CleanupConnection(c) ==
    /\ pc[c] = "cleanup"
    /\ conn' = [conn EXCEPT ![c] = "none"]
    /\ pc' = [pc EXCEPT ![c] = "idle"]
    /\ UNCHANGED <<lock, req, dpc, orphaned>>

\* createConnection fails: freeExistingLocks releases the lock, if there is one.
Cleanup(c) ==
    /\ pc[c] = "cleanup"
    /\ conn' = [conn EXCEPT ![c] = "none"]
    /\ lock' = Unlocked(lock, c)
    /\ orphaned' = (orphaned \/ LastUnlock(lock, c))
    /\ pc' = [pc EXCEPT ![c] = "idle"]
    /\ UNCHANGED <<req, dpc>>

-----------------------------------------------------------------------------
(* Releasing the lock.                                                       *)

\* A session that ends aborts its connections.  A temporary one has no tree, so
\* that disconnect() only takes it out of the table.
AbortTemporary(c) ==
    /\ conn[c] = "temp"
    /\ conn' = [conn EXCEPT ![c] = "none"]
    /\ UNCHANGED <<lock, pc, req, dpc, orphaned>>

\* disconnect() under the read lock, by a client or an aborted session.
Disconnect(c) ==
    /\ conn[c] = "full" /\ dpc[c] = "idle"
    /\ conn' = [conn EXCEPT ![c] = "none"]
    /\ dpc' = [dpc EXCEPT ![c] = IF c \in Deleters THEN "drolr" ELSE "unlock"]
    /\ UNCHANGED <<lock, pc, req, orphaned>>

SetDROLR(c) ==
    /\ dpc[c] = "drolr"
    /\ \/ /\ lock.present
          /\ lock' = [lock EXCEPT !.drolr = TRUE]
          /\ dpc' = [dpc EXCEPT ![c] = "unlock"]
       \/ /\ ~lock.present
          /\ dpc' = [dpc EXCEPT ![c] = "delete"]
          /\ UNCHANGED lock
    /\ UNCHANGED <<conn, pc, req, orphaned>>

DisconnectUnlock(c) ==
    /\ dpc[c] = "unlock"
    /\ dpc' = [dpc EXCEPT ![c] = IF LastUnlock(lock, c) THEN "recheck" ELSE "idle"]
    /\ lock' = Unlocked(lock, c)
    /\ UNCHANGED <<conn, pc, req, orphaned>>

\* Faulty variant of StillLast: the answer of unlock is trusted.
AssumedLast(l) == TRUE

\* After changeToWrite(), which lets go of dataRWLock before it takes it again:
\* the last to unlock looks again whether the node is locked.
StillLast(l) == Holders(l) = {}

DisconnectRecheck(c) ==
    /\ dpc[c] = "recheck" /\ NobodyReading
    /\ dpc' = [dpc EXCEPT ![c] = "idle"]
    /\ \/ StillLast(lock) /\ RemoveTree(lock)
       \/ ~StillLast(lock) /\ UNCHANGED <<lock, orphaned>>
    /\ UNCHANGED <<conn, pc, req>>

DisconnectDelete(c) ==
    /\ dpc[c] = "delete" /\ NobodyReading
    /\ dpc' = [dpc EXCEPT ![c] = "idle"]
    /\ RemoveTree(lock)
    /\ UNCHANGED <<conn, pc, req>>

\* disconnect() under the write lock: a client that also commits or deletes the
\* root (deleteRoot), or an operator who closes the connection.
DisconnectExclusive(c, deleteRoot) ==
    LET delete == deleteRoot \/ c \in Deleters
        set == [lock EXCEPT !.drolr = @ \/ delete]
    IN  /\ conn[c] = "full" /\ dpc[c] = "idle" /\ NobodyReading
        /\ conn' = [conn EXCEPT ![c] = "none"]
        /\ \/ delete /\ ~lock.present /\ RemoveTree(lock)
           \/ lock.present /\ LastUnlock(set, c) /\ RemoveTree(Unlocked(set, c))
           \/ /\ IF lock.present THEN ~LastUnlock(set, c) ELSE ~delete
              /\ lock' = IF lock.present THEN Unlocked(set, c) ELSE lock
              /\ UNCHANGED orphaned
        /\ UNCHANGED <<pc, req, dpc>>

\* unlock() by an operator, who leaves the connection open.
ForceUnlock(c) ==
    /\ conn[c] = "full" /\ lock.present
    /\ lock' = Unlocked(lock, c)
    /\ orphaned' = (orphaned \/ LastUnlock(lock, c))
    /\ UNCHANGED <<conn, pc, req, dpc>>

-----------------------------------------------------------------------------
Step(c) ==
    \/ \E m \in Modes : Connect(c, m) \/ ChangeMode(c, m)
    \/ FirstTry(c) \/ Wake(c) \/ Timeout(c) \/ Settle(c) \/ Resume(c)
    \/ Establish(c) \/ Cleanup(c)
    \/ AbortTemporary(c) \/ Disconnect(c) \/ SetDROLR(c) \/ DisconnectUnlock(c)
    \/ DisconnectRecheck(c) \/ DisconnectDelete(c)
    \/ \E deleteRoot \in BOOLEAN : DisconnectExclusive(c, deleteRoot)
    \/ ForceUnlock(c)

Next == \E c \in Connections : Step(c)

Spec == Init /\ [][Next]_vars

-----------------------------------------------------------------------------
(* Properties.                                                               *)

Using(M) == Cardinality({c \in Connections : lock.info[c] \in M})

\* The counters that tryLock() decides by agree with the table of holders, and a
\* writer is alone, whatever changes of mode were tried, refused and undone.
LockExact ==
    /\ lock.readLocks = Using({"read", "hold"})
    /\ lock.holdLocks = Using({"hold"})
    /\ lock.exclusive = (Using({"write"}) > 0)
    /\ Using({"write"}) + lock.readLocks <= 1 \/ ~lock.exclusive

Inside == {c \in Connections : pc[c] \in {"wait", "woken", "timedout", "validate"}}

Asleep == {c \in Connections : pc[c] \in {"wait", "timedout"}}

\* "this thread can't cause others to increase 'waiting'": every sleeper is either
\* counted in waiting or has a token, so that a timeout that races a wake-up loses
\* neither; and once the node is deleted everyone asleep has one.
WaitersExact ==
    IF orphaned THEN Cardinality({c \in Connections : pc[c] = "wait"}) <= lock.sem
                ELSE lock.waiting + lock.sem = Cardinality(Asleep)

\* No lost wake-up: nobody is left counted as waiting for a lock that is free.
NoSleeperOnFreeLock == ~lock.exclusive /\ lock.readLocks = 0 => lock.waiting = 0

\* removePending() destroys the lock exactly when no thread is inside it and
\* nothing is locked, so that none is used after it is destroyed and none is kept.
LockInUseStays ==
    /\ lock.pending = Cardinality(Inside)
    /\ lock.present = (Inside # {} \/ Holders(lock) # {})

\* No lock is left to a connection that is gone: a connect that was aborted, timed
\* out or lost its node, and a disconnect, still have its release before them.
NoDeadHolder ==
    \A c \in Holders(lock) :
        conn[c] = "full" \/ pc[c] \in {"locked", "cleanup"} \/ dpc[c] \in {"drolr", "unlock"}

DeletedBy(c) == ~orphaned /\ orphaned' /\ (dpc'[c] # dpc[c] \/ conn'[c] # conn[c])

\* disconnect(): "check again (now that have exclusive read write lock), that I am
\* last, i.e. that no-one else has established a lock in the changeToWrite window":
\* the last to unlock a node deletes it only if no other connection holds a lock.
LastDeletesUnlocked ==
    [][\A c \in Connections : DeletedBy(c) /\ dpc[c] # "delete" => Holders(lock) \subseteq {c}]_vars

\* "If they have, do not deleteRoot, as others are using it": no disconnect deletes
\* a node on which another connection holds a lock.
DeletedOnlyUnlocked ==
    [][\A c \in Connections : DeletedBy(c) => Holders(lock) \subseteq {c}]_vars
=============================================================================
