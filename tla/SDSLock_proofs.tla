--------------------------- MODULE SDSLock_proofs ---------------------------
(* The lock of a node keeps its counters, its waiters and its life time exact *)
(* for any number of connections, whichever of them delete on disconnect.     *)
EXTENDS SDSLock, FiniteSetTheorems, TLAPS

-----------------------------------------------------------------------------
(* Counting.                                                                  *)

\* How many connections have a value in M in the table f.
Count(f, M) == Cardinality({c \in Connections : f[c] \in M})

\* The count moves with the entry of c.
Shifts(f, g, c, M) ==
    /\ Count(f, M) \in Nat /\ Count(g, M) \in Nat
    /\ Count(g, M) = Count(f, M) + (IF g[c] \in M THEN 1 ELSE 0)
                                 - (IF f[c] \in M THEN 1 ELSE 0)

\* A change of one entry moves the count by one or not at all.
LEMMA CountChange ==
    ASSUME NEW f, NEW g, NEW c \in Connections, NEW M,
           \A x \in Connections \ {c} : g[x] = f[x]
    PROVE  Shifts(f, g, c, M)
  <1> USE DEF Shifts
  <1> DEFINE F == {x \in Connections : f[x] \in M}
             G == {x \in Connections : g[x] \in M}
  <1>1. IsFiniteSet(F) /\ IsFiniteSet(G)
    <2>1. F \subseteq Connections /\ G \subseteq Connections
      OBVIOUS
    <2> QED  BY <2>1, FS_Subset, SDSLockAssumption
  <1>2. Cardinality(F) \in Nat /\ Cardinality(G) \in Nat
    BY <1>1, FS_CardinalityType
  <1>3. CASE f[c] \in M <=> g[c] \in M
    <2>1. F = G
      BY <1>3
    <2>2. Count(f, M) = Count(g, M) /\ Count(f, M) \in Nat
      BY <1>2, <2>1 DEF Count
    <2> QED  BY <1>3, <2>2
  <1>4. CASE f[c] \in M /\ g[c] \notin M
    <2>1. F = G \cup {c} /\ c \notin G
      BY <1>4
    <2>2. Cardinality(F) = Cardinality(G) + 1
      BY <1>1, <2>1, FS_AddElement
    <2> QED  BY <1>2, <1>4, <2>2 DEF Count
  <1>5. CASE f[c] \notin M /\ g[c] \in M
    <2>1. G = F \cup {c} /\ c \notin F
      BY <1>5
    <2>2. Cardinality(G) = Cardinality(F) + 1
      BY <1>1, <2>1, FS_AddElement
    <2> QED  BY <1>2, <1>5, <2>2 DEF Count
  <1> QED  BY <1>3, <1>4, <1>5

\* A count is zero exactly when no connection is counted, and counts grow with M.
LEMMA CountBasic ==
    ASSUME NEW f, NEW M
    PROVE  /\ Count(f, M) \in Nat
           /\ Count(f, M) = 0 <=> \A c \in Connections : f[c] \notin M
           /\ \A N : N \subseteq M => Count(f, N) \in Nat /\ Count(f, N) <= Count(f, M)
  <1> DEFINE F == {x \in Connections : f[x] \in M}
  <1>1. IsFiniteSet(F)
    <2>1. F \subseteq Connections
      OBVIOUS
    <2> QED  BY <2>1, FS_Subset, SDSLockAssumption
  <1>2. Cardinality(F) \in Nat
    BY <1>1, FS_CardinalityType
  <1>3. Cardinality(F) = 0 <=> F = {}
    BY <1>1, FS_EmptySet
  <1>4. ASSUME NEW N, N \subseteq M
        PROVE  Count(f, N) \in Nat /\ Count(f, N) <= Count(f, M)
    <2> DEFINE G == {x \in Connections : f[x] \in N}
    <2>1. G \subseteq F
      BY <1>4
    <2>2. IsFiniteSet(G) /\ Cardinality(G) <= Cardinality(F)
      BY <1>1, <2>1, FS_Subset
    <2>3. Cardinality(G) \in Nat
      BY <2>2, FS_CardinalityType
    <2> QED  BY <2>2, <2>3 DEF Count
  <1> QED  BY <1>2, <1>3, <1>4 DEF Count

-----------------------------------------------------------------------------
(* The lock object.                                                           *)

LockRecord ==
    [present : BOOLEAN, info : [Connections -> Modes \cup {Absent}],
     exclusive : BOOLEAN, readLocks : Nat, holdLocks : Nat, waiting : Nat,
     sem : Nat, pending : Nat, drolr : BOOLEAN]

\* The counters of a lock agree with its table of holders, and a writer is alone.
Exact(l) ==
    /\ l.readLocks = Count(l.info, {"read", "hold"})
    /\ l.holdLocks = Count(l.info, {"hold"})
    /\ l.exclusive <=> Count(l.info, {"write"}) > 0
    /\ l.exclusive => Count(l.info, {"write"}) = 1 /\ l.readLocks = 0

\* What a step on the lock leaves alone.
SameUse(k, l) ==
    /\ k.present = l.present /\ k.pending = l.pending
    /\ k.waiting = l.waiting /\ k.sem = l.sem /\ k.drolr = l.drolr

\* Released() keeps the counters exact, whether or not c held the lock.
LEMMA ReleasedExact ==
    ASSUME NEW l \in LockRecord, Exact(l), NEW c \in Connections
    PROVE  /\ Released(l, c) \in LockRecord
           /\ Exact(Released(l, c))
           /\ Released(l, c).info = [l.info EXCEPT ![c] = Absent]
           /\ SameUse(Released(l, c), l)
           /\ Released(l, c).exclusive => l.exclusive
           /\ Released(l, c).readLocks <= l.readLocks
  <1> DEFINE r == Released(l, c)
             g == [l.info EXCEPT ![c] = Absent]
  <1>1. /\ l.info \in [Connections -> Modes \cup {Absent}]
        /\ l.readLocks \in Nat /\ l.holdLocks \in Nat /\ l.exclusive \in BOOLEAN
    BY DEF LockRecord
  <1>2. /\ r.info = g
        /\ r.exclusive \in BOOLEAN /\ (r.exclusive <=> l.exclusive /\ l.info[c] # "write")
        /\ r.readLocks = IF l.info[c] \in {"read", "hold"} THEN l.readLocks - 1 ELSE l.readLocks
        /\ r.holdLocks = IF l.info[c] = "hold" THEN l.holdLocks - 1 ELSE l.holdLocks
        /\ SameUse(r, l)
    BY DEF Released, LockRecord, SameUse
  <1>3. g[c] = Absent /\ (\A x \in Connections \ {c} : g[x] = l.info[x])
    BY <1>1
  <1>4. /\ Absent \notin {"read", "hold"} /\ Absent \notin {"hold"} /\ Absent \notin {"write"}
    BY DEF Absent
  <1> HIDE DEF r, g
  <1> DEFINE Moves(M) ==
        /\ Count(l.info, M) \in Nat /\ Count(g, M) \in Nat
        /\ l.info[c] \in M => Count(l.info, M) = Count(g, M) + 1
        /\ l.info[c] \notin M => Count(g, M) = Count(l.info, M)
  <1>5. Moves({"read", "hold"}) /\ Moves({"hold"}) /\ Moves({"write"})
    <2>1. ASSUME NEW M, Absent \notin M PROVE Moves(M)
      <3>1. g[c] \notin M
        BY <1>3, <2>1
      <3>2. Shifts(l.info, g, c, M)
        BY <1>3, CountChange
      <3> QED  BY <3>1, <3>2 DEF Shifts
    <2> QED  BY <1>4, <2>1
  <1>6. /\ Count(g, {"read", "hold"}) \in Nat
        /\ r.readLocks = Count(g, {"read", "hold"})
    BY <1>1, <1>2, <1>3, <1>4, <1>5 DEF Exact
  <1>7. /\ Count(g, {"hold"}) \in Nat
        /\ r.holdLocks = Count(g, {"hold"})
    BY <1>1, <1>2, <1>3, <1>4, <1>5 DEF Exact
  <1>8. (r.exclusive <=> Count(g, {"write"}) > 0) /\ (r.exclusive => Count(g, {"write"}) = 1)
    BY <1>1, <1>2, <1>3, <1>4, <1>5 DEF Exact
  <1>9. r.exclusive => r.readLocks = 0
    BY <1>1, <1>2, <1>3, <1>4, <1>5 DEF Exact
  <1>10. Exact(r)
    BY <1>2, <1>6, <1>7, <1>8, <1>9 DEF Exact
  <1>11. r.readLocks \in Nat /\ r.holdLocks \in Nat /\ r.readLocks <= l.readLocks
    BY <1>1, <1>2, <1>6, <1>7
  <1>12. r \in LockRecord
    BY <1>11, <1>2 DEF r, Released, LockRecord, Modes, SameUse
  <1> QED  BY <1>1, <1>2, <1>10, <1>11, <1>12 DEF r, g

\* Granted() keeps the counters exact when nothing held conflicts with the mode.
LEMMA GrantedExact ==
    ASSUME NEW l \in LockRecord, Exact(l), NEW c \in Connections, l.info[c] = Absent,
           NEW m \in Modes, ~Conflicts(l, m)
    PROVE  /\ Granted(l, c, m) \in LockRecord
           /\ Exact(Granted(l, c, m))
           /\ Granted(l, c, m).info = [l.info EXCEPT ![c] = m]
           /\ SameUse(Granted(l, c, m), l)
           /\ m # "none" => Granted(l, c, m).exclusive \/ Granted(l, c, m).readLocks > 0
  <1> DEFINE r == Granted(l, c, m)
             g == [l.info EXCEPT ![c] = m]
  <1>1. /\ l.info \in [Connections -> Modes \cup {Absent}]
        /\ l.readLocks \in Nat /\ l.holdLocks \in Nat /\ l.exclusive \in BOOLEAN
    BY DEF LockRecord
  <1>2. /\ r.info = g
        /\ r.exclusive \in BOOLEAN /\ (r.exclusive <=> l.exclusive \/ m = "write")
        /\ r.readLocks = IF m \in {"read", "hold"} THEN l.readLocks + 1 ELSE l.readLocks
        /\ r.holdLocks = IF m = "hold" THEN l.holdLocks + 1 ELSE l.holdLocks
        /\ SameUse(r, l)
    BY DEF Granted, LockRecord, SameUse
  <1>3. g[c] = m /\ (\A x \in Connections \ {c} : g[x] = l.info[x])
    BY <1>1
  <1>4. /\ Absent \notin {"read", "hold"} /\ Absent \notin {"hold"} /\ Absent \notin {"write"}
        /\ m \in {"none", "read", "hold", "write"}
    BY DEF Absent, Modes
  <1> HIDE DEF r, g
  <1> DEFINE Moves(M) ==
        /\ Count(l.info, M) \in Nat /\ Count(g, M) \in Nat
        /\ m \in M => Count(g, M) = Count(l.info, M) + 1
        /\ m \notin M => Count(g, M) = Count(l.info, M)
  <1>5. Moves({"read", "hold"}) /\ Moves({"hold"}) /\ Moves({"write"})
    <2>1. ASSUME NEW M, Absent \notin M PROVE Moves(M)
      <3>1. Shifts(l.info, g, c, M)
        BY <1>3, CountChange
      <3> QED  BY <1>3, <2>1, <3>1 DEF Shifts
    <2> QED  BY <1>4, <2>1
  <1>6. /\ Count(g, {"read", "hold"}) \in Nat
        /\ r.readLocks = Count(g, {"read", "hold"})
    BY <1>1, <1>2, <1>3, <1>4, <1>5 DEF Exact
  <1>7. /\ Count(g, {"hold"}) \in Nat
        /\ r.holdLocks = Count(g, {"hold"})
    BY <1>1, <1>2, <1>3, <1>4, <1>5 DEF Exact
  <1>8. (r.exclusive <=> Count(g, {"write"}) > 0)
    BY <1>1, <1>2, <1>3, <1>4, <1>5 DEF Exact
  <1>9. r.exclusive => Count(g, {"write"}) = 1 /\ r.readLocks = 0
    BY <1>1, <1>2, <1>3, <1>4, <1>5 DEF Exact, Conflicts
  <1>10. Exact(r)
    BY <1>2, <1>6, <1>7, <1>8, <1>9 DEF Exact
  <1>11. r.readLocks \in Nat /\ r.holdLocks \in Nat
    BY <1>1, <1>2
  <1>12. r \in LockRecord
    BY <1>2, <1>11 DEF r, Granted, LockRecord, Modes, SameUse
  <1>13. m # "none" => r.exclusive \/ r.readLocks > 0
    BY <1>1, <1>2, <1>4
  <1> QED  BY <1>2, <1>10, <1>12, <1>13 DEF r, g

\* A lock whose counters are exact, and on which nobody waits when it is free.
GoodLock(l) ==
    /\ l \in LockRecord /\ Exact(l)
    /\ ~l.exclusive /\ l.readLocks = 0 => l.waiting = 0

\* A lock k made from l by a step that may wake the waiters: the place in
\* lockTable and the threads inside it are the same, and no sleeper is forgotten.
Rewoken(k, l) ==
    /\ k.present = l.present /\ k.pending = l.pending
    /\ k.waiting + k.sem = l.waiting + l.sem /\ k.sem >= l.sem

\* wakeWaiting() turns every waiter into a token and changes nothing else.
LEMMA WakeWaitingGood ==
    ASSUME NEW l \in LockRecord, Exact(l)
    PROVE  /\ GoodLock(wakeWaiting(l))
           /\ Rewoken(wakeWaiting(l), l)
           /\ wakeWaiting(l).info = l.info
           /\ wakeWaiting(l).waiting = 0
           /\ wakeWaiting(l).drolr = l.drolr
  <1> DEFINE w == wakeWaiting(l)
  <1>0. l.sem \in Nat /\ l.waiting \in Nat /\ l.sem + l.waiting \in Nat
    BY DEF LockRecord
  <1>1. /\ w.info = l.info /\ w.exclusive = l.exclusive /\ w.readLocks = l.readLocks
        /\ w.holdLocks = l.holdLocks /\ w.waiting = 0 /\ w.sem = l.sem + l.waiting
        /\ w.present = l.present /\ w.pending = l.pending /\ w.drolr = l.drolr
        /\ w \in LockRecord
    BY <1>0 DEF wakeWaiting, LockRecord
  <1> HIDE DEF w
  <1>2. Exact(w)
    BY <1>1 DEF Exact
  <1> QED  BY <1>0, <1>1, <1>2 DEF w, GoodLock, Rewoken

\* tryLock() that is refused leaves the lock as it was: what a change of mode
\* gives up is restored, and a writer, whose mode would not be, is not refused.
LEMMA RefusedSame ==
    ASSUME NEW l, GoodLock(l), NEW c \in Connections, NEW m \in Modes, NEW change \in BOOLEAN,
           ~Grantable(l, c, m, change)
    PROVE  Refused(l, c, change) = l
  <1>1. /\ l \in LockRecord /\ Exact(l)
        /\ l.info \in [Connections -> Modes \cup {Absent}]
        /\ l.exclusive \in BOOLEAN /\ l.readLocks \in Nat /\ l.holdLocks \in Nat
    BY DEF GoodLock, LockRecord
  <1>2. CASE ~Changes(l, c, change)
    BY <1>2 DEF Refused
  <1>3. CASE Changes(l, c, change)
    <2> DEFINE r == Released(l, c)
    <2>1. Conflicts(r, m)
      BY <1>3 DEF Grantable
    <2>2. l.info[c] # "write"
      <3> SUFFICES ASSUME l.info[c] = "write" PROVE FALSE
        OBVIOUS
      <3>1. Count(l.info, {"write"}) \in Nat /\ Count(l.info, {"write"}) # 0
        BY CountBasic
      <3>2. l.exclusive /\ l.readLocks = 0
        BY <1>1, <3>1 DEF Exact
      <3>3. l.holdLocks = 0
        <4>1. {"hold"} \subseteq {"read", "hold"}
          OBVIOUS
        <4>2. /\ Count(l.info, {"hold"}) \in Nat
              /\ Count(l.info, {"hold"}) <= Count(l.info, {"read", "hold"})
          BY <4>1, CountBasic
        <4> QED  BY <1>1, <3>2, <4>2 DEF Exact
      <3>4. ~r.exclusive /\ r.readLocks = 0 /\ r.holdLocks = 0
        BY <1>1, <3>2, <3>3 DEF Released, LockRecord
      <3> QED  BY <2>1, <3>4 DEF Conflicts
    <2>3. /\ r.exclusive = l.exclusive
          /\ r.readLocks = IF l.info[c] \in {"read", "hold"} THEN l.readLocks - 1 ELSE l.readLocks
          /\ r.holdLocks = IF l.info[c] = "hold" THEN l.holdLocks - 1 ELSE l.holdLocks
      BY <1>1, <2>2 DEF Released, LockRecord
    <2>4. r \in LockRecord /\ r.info = [l.info EXCEPT ![c] = Absent] /\ SameUse(r, l)
      BY <1>1, ReleasedExact
    <2> HIDE DEF r
    <2> DEFINE k == Restored(r, c, l.info[c])
    <2>5. /\ k.info = [r.info EXCEPT ![c] = l.info[c]]
          /\ k.exclusive = r.exclusive
          /\ k.readLocks = IF l.info[c] \in {"read", "hold"} THEN r.readLocks + 1 ELSE r.readLocks
          /\ k.holdLocks = IF l.info[c] = "hold" THEN r.holdLocks + 1 ELSE r.holdLocks
          /\ SameUse(k, r)
      BY <2>4 DEF Restored, LockRecord, SameUse
    <2>6. k.readLocks = l.readLocks /\ k.holdLocks = l.holdLocks
      BY <1>1, <2>3, <2>5
    <2>7. k.info = l.info
      BY <1>1, <2>4, <2>5
    <2>8. k \in LockRecord
      BY <1>1, <2>4, <2>6, <2>7 DEF Restored, LockRecord
    <2>9. Refused(l, c, change) = k
      BY <1>3 DEF Refused, r
    <2> HIDE DEF k
    <2>10. k.exclusive = l.exclusive /\ SameUse(k, l)
      BY <2>3, <2>4, <2>5 DEF SameUse
    <2>11. k = l
      BY <1>1, <2>6, <2>7, <2>8, <2>10 DEF LockRecord, SameUse
    <2> QED  BY <2>9, <2>11
  <1> QED  BY <1>2, <1>3

\* tryLock() that grants a mode keeps the lock good: it undoes what a change of
\* mode held first, and wakes the waiters after a change.
LEMMA LockedGood ==
    ASSUME NEW l, GoodLock(l), NEW c \in Connections, NEW m \in Modes, NEW change \in BOOLEAN,
           Grantable(l, c, m, change), ~change => l.info[c] = Absent
    PROVE  /\ GoodLock(Locked(l, c, m, change))
           /\ Rewoken(Locked(l, c, m, change), l)
           /\ \A d \in Connections \ {c} : Locked(l, c, m, change).info[d] = l.info[d]
  <1> DEFINE k == Locked(l, c, m, change)
  <1>1. /\ l \in LockRecord /\ Exact(l)
        /\ l.info \in [Connections -> Modes \cup {Absent}]
        /\ l.waiting \in Nat /\ l.sem \in Nat
    BY DEF GoodLock, LockRecord
  <1>2. Rewoken(l, l)
    BY <1>1 DEF Rewoken
  <1>3. CASE Changes(l, c, change) /\ l.info[c] = m
    <2>1. k = l
      BY <1>3 DEF Locked
    <2> QED  BY <1>2, <2>1
  <1>4. CASE Changes(l, c, change) /\ l.info[c] # m
    <2> DEFINE r == Released(l, c)
               g == Granted(r, c, m)
    <2>1. k = wakeWaiting(g)
      BY <1>4 DEF Locked
    <2>2. /\ r \in LockRecord /\ Exact(r) /\ r.info = [l.info EXCEPT ![c] = Absent]
          /\ SameUse(r, l)
      BY <1>1, ReleasedExact
    <2>3. ~Conflicts(r, m)
      BY <1>4 DEF Grantable
    <2> HIDE DEF r
    <2>4. r.info[c] = Absent
      BY <1>1, <2>2
    <2>5. /\ g \in LockRecord /\ Exact(g) /\ g.info = [r.info EXCEPT ![c] = m]
          /\ SameUse(g, r)
      <3>1. r \in LockRecord /\ Exact(r)
        BY <2>2
      <3> HIDE DEF Conflicts, k
      <3> QED  BY <2>3, <2>4, <3>1, GrantedExact
    <2> HIDE DEF g
    <2>6. /\ GoodLock(k) /\ Rewoken(k, g) /\ k.info = g.info
      BY <2>1, <2>5, WakeWaitingGood
    <2> HIDE DEF k
    <2>7. Rewoken(k, l)
      BY <2>2, <2>5, <2>6 DEF Rewoken, SameUse
    <2>8. \A d \in Connections \ {c} : k.info[d] = l.info[d]
      BY <1>1, <2>2, <2>5, <2>6
    <2> QED  BY <2>6, <2>7, <2>8 DEF k
  <1>5. CASE ~Changes(l, c, change) /\ m = "none"
    <2>1. k = l
      BY <1>5 DEF Locked
    <2> QED  BY <1>2, <2>1
  <1>6. CASE ~Changes(l, c, change) /\ m # "none"
    <2>1. k = Granted(l, c, m) /\ ~Conflicts(l, m) /\ l.info[c] = Absent
      BY <1>6 DEF Locked, Grantable, Changes
    <2>2. /\ k \in LockRecord /\ Exact(k) /\ k.info = [l.info EXCEPT ![c] = m]
          /\ SameUse(k, l) /\ (k.exclusive \/ k.readLocks > 0)
      BY <1>1, <1>6, <2>1, GrantedExact
    <2> HIDE DEF k
    <2>3. GoodLock(k)
      BY <2>2 DEF GoodLock, LockRecord
    <2>4. Rewoken(k, l) /\ (\A d \in Connections \ {c} : k.info[d] = l.info[d])
      BY <1>1, <2>2 DEF Rewoken, SameUse
    <2> QED  BY <2>3, <2>4 DEF k
  <1> QED  BY <1>3, <1>4, <1>5, <1>6

\* The lock after unlock(id) and its wake-up, before removePending().
Freed(l, c) == wakeWaiting([Released(l, c) EXCEPT !.drolr = @ /\ ~LastUnlock(l, c)])

\* unlock(id) keeps the lock good and leaves nothing to c.
LEMMA FreedGood ==
    ASSUME NEW l, GoodLock(l), NEW c \in Connections
    PROVE  /\ GoodLock(Freed(l, c))
           /\ Rewoken(Freed(l, c), l)
           /\ Freed(l, c).waiting = 0
           /\ Freed(l, c).info = [l.info EXCEPT ![c] = Absent]
           /\ l.present => Unlocked(l, c) = Dropped(Freed(l, c))
  <1> DEFINE r == Released(l, c)
             d == [r EXCEPT !.drolr = @ /\ ~LastUnlock(l, c)]
  <1>1. l \in LockRecord /\ Exact(l)
    BY DEF GoodLock
  <1>2. /\ r \in LockRecord /\ Exact(r) /\ r.info = [l.info EXCEPT ![c] = Absent]
        /\ SameUse(r, l)
    BY <1>1, ReleasedExact
  <1>3. l.present => Unlocked(l, c) = Dropped(Freed(l, c))
    BY DEF Unlocked, Freed
  <1>4. Freed(l, c) = wakeWaiting(d)
    BY DEF Freed
  <1> HIDE DEF r
  <1>5. /\ d \in LockRecord /\ d.info = r.info /\ d.exclusive = r.exclusive
        /\ d.readLocks = r.readLocks /\ d.holdLocks = r.holdLocks
        /\ d.waiting = r.waiting /\ d.sem = r.sem
        /\ d.pending = r.pending /\ d.present = r.present
    BY <1>2 DEF LockRecord
  <1> HIDE DEF d
  <1>6. Exact(d)
    BY <1>2, <1>5 DEF Exact
  <1> DEFINE k == wakeWaiting(d)
  <1>7. GoodLock(k) /\ Rewoken(k, d) /\ k.info = d.info /\ k.waiting = 0
    BY <1>5, <1>6, WakeWaitingGood
  <1> HIDE DEF k
  <1>8. Rewoken(k, l)
    BY <1>2, <1>5, <1>7 DEF Rewoken, SameUse
  <1> QED  BY <1>2, <1>3, <1>4, <1>5, <1>7, <1>8 DEF k

\* The lock after unlockAll() and its wake-up, before removePending().
AllFreed(l) ==
    wakeWaiting([l EXCEPT !.info = NoLock.info, !.exclusive = FALSE,
                          !.readLocks = 0, !.holdLocks = 0, !.drolr = FALSE])

\* A table without holders counts nobody.
LEMMA NobodyExact ==
    /\ NoLock \in LockRecord /\ NoLock.info = [c \in Connections |-> Absent]
    /\ \A M : Absent \notin M => Count(NoLock.info, M) = 0
    /\ GoodLock(NoLock)
  <1>1. /\ NoLock \in LockRecord /\ NoLock.info = [c \in Connections |-> Absent]
        /\ NoLock.readLocks = 0 /\ NoLock.holdLocks = 0 /\ ~NoLock.exclusive
        /\ NoLock.waiting = 0
    BY DEF NoLock, LockRecord
  <1>2. ASSUME NEW M, Absent \notin M PROVE Count(NoLock.info, M) = 0
    <2>1. \A c \in Connections : NoLock.info[c] \notin M
      BY <1>1, <1>2
    <2> QED  BY <2>1, CountBasic
  <1>3. Absent \notin {"read", "hold"} /\ Absent \notin {"hold"} /\ Absent \notin {"write"}
    BY DEF Absent
  <1>4. /\ Count(NoLock.info, {"read", "hold"}) = 0
        /\ Count(NoLock.info, {"hold"}) = 0 /\ Count(NoLock.info, {"write"}) = 0
    BY <1>2, <1>3
  <1>5. Exact(NoLock)
    BY <1>1, <1>4 DEF Exact
  <1> QED  BY <1>1, <1>2, <1>5 DEF GoodLock

\* unlockAll() keeps the lock good and leaves nothing to anyone.
LEMMA AllFreedGood ==
    ASSUME NEW l, GoodLock(l)
    PROVE  /\ GoodLock(AllFreed(l))
           /\ Rewoken(AllFreed(l), l)
           /\ AllFreed(l).waiting = 0
           /\ AllFreed(l).info = [c \in Connections |-> Absent]
           /\ Holders(l) # {} => AllUnlocked(l) = Dropped(AllFreed(l))
  <1> DEFINE e == [l EXCEPT !.info = NoLock.info, !.exclusive = FALSE,
                            !.readLocks = 0, !.holdLocks = 0, !.drolr = FALSE]
  <1>1. AllFreed(l) = wakeWaiting(e) /\ l \in LockRecord
    BY DEF AllFreed, GoodLock
  <1>2. NoLock.info \in [Connections -> Modes \cup {Absent}]
    BY NobodyExact
  <1>3. /\ e \in LockRecord /\ e.info = NoLock.info /\ e.exclusive = FALSE
        /\ e.readLocks = 0 /\ e.holdLocks = 0 /\ e.waiting = l.waiting /\ e.sem = l.sem
        /\ e.pending = l.pending /\ e.present = l.present
    BY <1>1, <1>2 DEF LockRecord
  <1> HIDE DEF e
  <1>4. Exact(e)
    <2>1. Absent \notin {"read", "hold"} /\ Absent \notin {"hold"} /\ Absent \notin {"write"}
      BY DEF Absent
    <2>2. /\ Count(NoLock.info, {"read", "hold"}) = 0
          /\ Count(NoLock.info, {"hold"}) = 0 /\ Count(NoLock.info, {"write"}) = 0
      BY <2>1, NobodyExact
    <2> QED  BY <1>3, <2>2 DEF Exact
  <1> DEFINE k == wakeWaiting(e)
  <1>5. GoodLock(k) /\ Rewoken(k, e) /\ k.info = e.info /\ k.waiting = 0
    BY <1>3, <1>4, WakeWaitingGood
  <1> HIDE DEF k
  <1>6. Rewoken(k, l)
    BY <1>3, <1>5 DEF Rewoken
  <1>7. Holders(l) # {} => AllUnlocked(l) = Dropped(AllFreed(l))
    BY DEF AllUnlocked, AllFreed
  <1> QED  BY <1>1, <1>3, <1>5, <1>6, <1>7, NobodyExact DEF k

-----------------------------------------------------------------------------
(* The lock and the threads that use it.                                      *)

Places == {"idle", "first", "wait", "woken", "timedout", "validate", "locked", "cleanup"}

InsidePlaces == {"wait", "woken", "timedout", "validate"}

AsleepPlaces == {"wait", "timedout"}

WaitPlaces == {"wait"}

\* WaitersExact, of the lock l, the places p of the threads and orphaned = o.
Waiters(l, p, o) ==
    IF o THEN Count(p, WaitPlaces) <= l.sem
         ELSE l.waiting + l.sem = Count(p, AsleepPlaces)

\* LockInUseStays, of the lock l and the places p of the threads.
InUse(l, p) ==
    /\ l.pending = Count(p, InsidePlaces)
    /\ l.present <=> \E c \in Connections : p[c] \in InsidePlaces \/ l.info[c] # Absent
    /\ ~l.present => l = NoLock

LockInv(l, p, o) == GoodLock(l) /\ Waiters(l, p, o) /\ InUse(l, p)

\* Nobody counted inside means nobody asleep.
LEMMA OutsideCounts ==
    ASSUME NEW p
    PROVE  /\ Count(p, InsidePlaces) \in Nat /\ Count(p, WaitPlaces) \in Nat
           /\ Count(p, AsleepPlaces) \in Nat
           /\ Count(p, WaitPlaces) <= Count(p, AsleepPlaces)
           /\ Count(p, AsleepPlaces) <= Count(p, InsidePlaces)
           /\ Count(p, InsidePlaces) = 0 <=> \A c \in Connections : p[c] \notin InsidePlaces
  <1>1. WaitPlaces \subseteq AsleepPlaces /\ AsleepPlaces \subseteq InsidePlaces
    BY DEF InsidePlaces, AsleepPlaces, WaitPlaces
  <1> QED  BY <1>1, CountBasic

\* The thread of c moves to the place x.
Moved(p, q, c, x) ==
    /\ p \in [Connections -> Places] /\ q \in [Connections -> Places] /\ q[c] = x
    /\ \A d \in Connections \ {c} : q[d] = p[d]

\* A thread that moves changes each count by its old and its new place.
LEMMA PlaceChange ==
    ASSUME NEW p, NEW q, NEW c \in Connections, NEW x, Moved(p, q, c, x)
    PROVE  /\ Count(q, InsidePlaces) = Count(p, InsidePlaces)
                   + (IF x \in InsidePlaces THEN 1 ELSE 0) - (IF p[c] \in InsidePlaces THEN 1 ELSE 0)
           /\ Count(q, WaitPlaces) = Count(p, WaitPlaces)
                   + (IF x \in WaitPlaces THEN 1 ELSE 0) - (IF p[c] \in WaitPlaces THEN 1 ELSE 0)
           /\ Count(q, AsleepPlaces) = Count(p, AsleepPlaces)
                   + (IF x \in AsleepPlaces THEN 1 ELSE 0)
                   - (IF p[c] \in AsleepPlaces THEN 1 ELSE 0)
  <1>1. q[c] = x /\ \A d \in Connections \ {c} : q[d] = p[d]
    BY DEF Moved
  <1>2. ASSUME NEW M
        PROVE  Count(q, M) = Count(p, M) + (IF x \in M THEN 1 ELSE 0) - (IF p[c] \in M THEN 1 ELSE 0)
    <2>1. Shifts(p, q, c, M)
      <3>1. \A d \in Connections \ {c} : q[d] = p[d]
        BY <1>1
      <3> QED  BY <3>1, CountChange
    <2> QED  BY <1>1, <2>1 DEF Shifts
  <1> QED  BY <1>2

\* removePending() destroys the lock only when nobody is inside it, so that no
\* sleeper loses its token.
LEMMA DroppedKeeps ==
    ASSUME NEW k, GoodLock(k), k.present, NEW p, NEW o \in BOOLEAN,
           k.pending = Count(p, InsidePlaces), Waiters(k, p, o)
    PROVE  /\ LockInv(Dropped(k), p, o)
           /\ LockInv(Dropped(k), p, o \/ DropDeletes(k))
           /\ Dropped(k).info = k.info
           /\ DropDeletes(k) => \A c \in Connections : k.info[c] = Absent
  <1>1. k \in LockRecord /\ k.info \in [Connections -> Modes \cup {Absent}]
    BY DEF GoodLock, LockRecord
  <1>2. CASE Holders(k) = {} /\ k.pending = 0
    <2>1. Dropped(k) = NoLock
      BY <1>2 DEF Dropped
    <2>2. /\ \A c \in Connections : p[c] \notin InsidePlaces
          /\ Count(p, InsidePlaces) = 0
          /\ Count(p, WaitPlaces) = 0 /\ Count(p, AsleepPlaces) = 0
      <3>1. Count(p, InsidePlaces) = 0
        BY <1>2
      <3>2. /\ Count(p, WaitPlaces) \in Nat /\ Count(p, AsleepPlaces) \in Nat
            /\ Count(p, WaitPlaces) <= Count(p, AsleepPlaces)
            /\ Count(p, AsleepPlaces) <= Count(p, InsidePlaces)
        BY OutsideCounts
      <3>3. \A c \in Connections : p[c] \notin InsidePlaces
        BY <3>1, OutsideCounts
      <3> QED  BY <3>1, <3>2, <3>3
    <2>3. \A c \in Connections : k.info[c] = Absent
      BY <1>2 DEF Holders
    <2>4. k.info = NoLock.info
      BY <1>1, <2>3, NobodyExact
    <2>5. /\ NoLock.sem = 0 /\ NoLock.waiting = 0 /\ NoLock.pending = 0 /\ ~NoLock.present
          /\ NoLock.info = [c \in Connections |-> Absent] /\ GoodLock(NoLock)
      BY NobodyExact DEF NoLock
    <2>6. InUse(NoLock, p)
      <3>1. \A c \in Connections : NoLock.info[c] = Absent
        BY <2>5
      <3> HIDE DEF NoLock
      <3> QED  BY <2>2, <2>5, <3>1 DEF InUse
    <2>7. Waiters(NoLock, p, TRUE) /\ Waiters(NoLock, p, FALSE)
      BY <2>2, <2>5 DEF Waiters
    <2>8. LockInv(NoLock, p, TRUE) /\ LockInv(NoLock, p, FALSE)
      BY <2>5, <2>6, <2>7 DEF LockInv
    <2>9. (o \/ DropDeletes(k)) \in BOOLEAN
      OBVIOUS
    <2>10. \A b \in BOOLEAN : LockInv(NoLock, p, b)
      BY <2>8
    <2> QED  BY <2>1, <2>3, <2>4, <2>9, <2>10
  <1>3. CASE ~(Holders(k) = {} /\ k.pending = 0)
    <2>1. Dropped(k) = k /\ ~DropDeletes(k)
      BY <1>3 DEF Dropped, DropDeletes
    <2>2. \E c \in Connections : p[c] \in InsidePlaces \/ k.info[c] # Absent
      BY <1>3, OutsideCounts DEF Holders
    <2>3. InUse(k, p)
      BY <2>2 DEF InUse
    <2>4. LockInv(k, p, o)
      BY <2>3 DEF LockInv
    <2>5. (o \/ DropDeletes(k)) = o
      BY <2>1
    <2> QED  BY <2>1, <2>4, <2>5
  <1> QED  BY <1>2, <1>3

\* Once everyone counted as waiting has a token the node may be deleted.
LEMMA OrphanKeeps ==
    ASSUME NEW l, NEW p, NEW o \in BOOLEAN, LockInv(l, p, o), l.waiting = 0
    PROVE  LockInv(l, p, TRUE)
  <1>1. l.sem \in Nat
    BY DEF LockInv, GoodLock, LockRecord
  <1>2. Waiters(l, p, TRUE)
    BY <1>1, OutsideCounts DEF LockInv, Waiters
  <1> QED  BY <1>2 DEF LockInv

\* A thread that moves between places outside the lock changes nothing for it.
LEMMA MoveOutside ==
    ASSUME NEW l, NEW p, NEW o, LockInv(l, p, o), NEW c \in Connections, NEW x,
           NEW q, Moved(p, q, c, x), p[c] \notin InsidePlaces, x \notin InsidePlaces
    PROVE  LockInv(l, q, o)
  <1>1. /\ p[c] \notin WaitPlaces /\ p[c] \notin AsleepPlaces
        /\ x \notin WaitPlaces /\ x \notin AsleepPlaces
    BY DEF InsidePlaces, AsleepPlaces, WaitPlaces
  <1>2. /\ Count(q, InsidePlaces) = Count(p, InsidePlaces)
        /\ Count(q, WaitPlaces) = Count(p, WaitPlaces)
        /\ Count(q, AsleepPlaces) = Count(p, AsleepPlaces)
    <2>1. /\ Count(p, InsidePlaces) \in Nat /\ Count(p, WaitPlaces) \in Nat
          /\ Count(p, AsleepPlaces) \in Nat
      BY OutsideCounts
    <2>2. /\ Count(q, InsidePlaces) = Count(p, InsidePlaces)
                   + (IF x \in InsidePlaces THEN 1 ELSE 0) - (IF p[c] \in InsidePlaces THEN 1 ELSE 0)
          /\ Count(q, WaitPlaces) = Count(p, WaitPlaces)
                   + (IF x \in WaitPlaces THEN 1 ELSE 0) - (IF p[c] \in WaitPlaces THEN 1 ELSE 0)
          /\ Count(q, AsleepPlaces) = Count(p, AsleepPlaces)
                   + (IF x \in AsleepPlaces THEN 1 ELSE 0)
                   - (IF p[c] \in AsleepPlaces THEN 1 ELSE 0)
      BY PlaceChange
    <2> QED  BY <1>1, <2>1, <2>2
  <1>3. \A d \in Connections : q[d] \in InsidePlaces <=> p[d] \in InsidePlaces
    BY DEF Moved
  <1>4. InUse(l, q)
    BY <1>2, <1>3 DEF LockInv, InUse
  <1>5. Waiters(l, q, o)
    BY <1>2 DEF LockInv, Waiters
  <1> QED  BY <1>4, <1>5 DEF LockInv

\* unlock(id) by any thread, at any time.
LEMMA UnlockedKeeps ==
    ASSUME NEW l, NEW p, NEW o \in BOOLEAN, LockInv(l, p, o), NEW c \in Connections
    PROVE  /\ \A b \in BOOLEAN : (o => b) => LockInv(Unlocked(l, c), p, b)
           /\ Unlocked(l, c).info = [l.info EXCEPT ![c] = Absent]
  <1>0. SUFFICES /\ LockInv(Unlocked(l, c), p, o) /\ LockInv(Unlocked(l, c), p, TRUE)
                 /\ Unlocked(l, c).info = [l.info EXCEPT ![c] = Absent]
    <2>1. ASSUME NEW b \in BOOLEAN, o => b PROVE b = o \/ b = TRUE
      BY <2>1
    <2> QED  BY <2>1
  <1>1. GoodLock(l) /\ l \in LockRecord /\ l.info \in [Connections -> Modes \cup {Absent}]
    BY DEF LockInv, GoodLock, LockRecord
  <1>2. CASE ~l.present
    <2>1. Unlocked(l, c) = l /\ l = NoLock
      BY <1>2 DEF Unlocked, LockInv, InUse
    <2>2. l.waiting = 0 /\ l.info = [d \in Connections |-> Absent]
      BY <2>1, NobodyExact DEF NoLock
    <2>3. [l.info EXCEPT ![c] = Absent] = l.info
      BY <2>2
    <2> QED  BY <2>1, <2>2, <2>3, OrphanKeeps
  <1>3. CASE l.present
    <2> DEFINE k == Freed(l, c)
    <2>1. /\ GoodLock(k) /\ Rewoken(k, l) /\ k.waiting = 0
          /\ k.info = [l.info EXCEPT ![c] = Absent] /\ Unlocked(l, c) = Dropped(k)
      BY <1>1, <1>3, FreedGood
    <2> HIDE DEF k
    <2>2. k.sem \in Nat /\ l.sem \in Nat /\ l.waiting \in Nat
      BY <1>1, <2>1 DEF GoodLock, LockRecord
    <2>3. k.present /\ k.pending = Count(p, InsidePlaces)
      BY <1>3, <2>1 DEF Rewoken, LockInv, InUse
    <2>4. Waiters(k, p, o)
      BY <2>1, <2>2, OutsideCounts DEF Rewoken, LockInv, Waiters
    <2>5. Waiters(k, p, TRUE)
      BY <2>1, <2>2, <2>4, OutsideCounts DEF Waiters
    <2>6. GoodLock(k) /\ k.present /\ k.pending = Count(p, InsidePlaces)
      BY <2>1, <2>3
    <2>7. LockInv(Dropped(k), p, o) /\ Dropped(k).info = k.info
      BY <2>4, <2>6, DroppedKeeps
    <2>8. LockInv(Dropped(k), p, TRUE)
      BY <2>5, <2>6, DroppedKeeps
    <2> QED  BY <2>1, <2>7, <2>8
  <1> QED  BY <1>2, <1>3

\* A lock without holders is free, and nobody is counted as waiting for it.
LEMMA FreeLock ==
    ASSUME NEW l, GoodLock(l), \A c \in Connections : l.info[c] = Absent
    PROVE  l.readLocks = 0 /\ l.holdLocks = 0 /\ ~l.exclusive /\ l.waiting = 0
  <1>1. \A c \in Connections : /\ l.info[c] \notin {"read", "hold"}
                               /\ l.info[c] \notin {"hold"} /\ l.info[c] \notin {"write"}
    BY DEF Absent
  <1>2. /\ Count(l.info, {"read", "hold"}) = 0
        /\ Count(l.info, {"hold"}) = 0 /\ Count(l.info, {"write"}) = 0
    BY <1>1, CountBasic
  <1> QED  BY <1>2 DEF GoodLock, Exact

\* unlockAll() as the node leaves the tree.
LEMMA RemoveTreeKeeps ==
    ASSUME NEW l, orphaned \in BOOLEAN, LockInv(l, pc, orphaned), RemoveTree(l)
    PROVE  /\ LockInv(lock', pc, orphaned') /\ orphaned' \in BOOLEAN /\ orphaned'
           /\ \A d \in Connections : lock'.info[d] # Absent => orphaned /\ l.info[d] # Absent
  <1>1. /\ GoodLock(l) /\ l \in LockRecord /\ l.info \in [Connections -> Modes \cup {Absent}]
    BY DEF LockInv, GoodLock, LockRecord
  <1>2. CASE orphaned
    <2>1. lock' = l
      BY <1>2 DEF RemoveTree
    <2>2. orphaned = TRUE
      BY <1>2
    <2> QED  BY <1>2, <2>1, <2>2 DEF RemoveTree
  <1>3. CASE ~orphaned /\ Holders(l) = {}
    <2>1. lock' = l
      BY <1>3 DEF RemoveTree, AllUnlocked
    <2>2. \A c \in Connections : l.info[c] = Absent
      BY <1>3 DEF Holders
    <2>3. l.waiting = 0
      BY <1>1, <2>2, FreeLock
    <2> QED  BY <2>1, <2>2, <2>3, OrphanKeeps DEF RemoveTree
  <1>4. CASE ~orphaned /\ Holders(l) # {}
    <2> DEFINE k == AllFreed(l)
    <2>1. /\ GoodLock(k) /\ Rewoken(k, l) /\ k.waiting = 0
          /\ k.info = [c \in Connections |-> Absent]
          /\ lock' = Dropped(k)
      BY <1>1, <1>4, AllFreedGood DEF RemoveTree
    <2> HIDE DEF k
    <2>2. l.present
      BY <1>4 DEF LockInv, InUse, Holders
    <2>3. k.sem \in Nat /\ l.sem \in Nat /\ l.waiting \in Nat
      BY <1>1, <2>1 DEF GoodLock, LockRecord
    <2>4. k.present /\ k.pending = Count(pc, InsidePlaces)
      BY <2>1, <2>2 DEF Rewoken, LockInv, InUse
    <2>5. Waiters(k, pc, TRUE)
      BY <1>4, <2>1, <2>3, OutsideCounts DEF Rewoken, LockInv, Waiters
    <2>6. LockInv(Dropped(k), pc, TRUE) /\ Dropped(k).info = k.info
      BY <2>1, <2>4, <2>5, DroppedKeeps
    <2> QED  BY <2>1, <2>6 DEF RemoveTree
  <1> QED  BY <1>2, <1>3, <1>4

-----------------------------------------------------------------------------
(* The inductive invariant.                                                   *)

\* A thread that opens the connection c, asleep on the lock or not.
Opening(c) == Connecting(c) \/ (pc[c] \in InsidePlaces /\ ~req[c].change)

\* Nothing disconnects a connection that is being opened.
OpeningAlone == \A c \in Connections : Opening(c) => conn[c] # "full" /\ dpc[c] = "idle"

\* The mode of a connection changes only after it was opened.
ChangingOpened ==
    \A c \in Connections : pc[c] \in InsidePlaces /\ req[c].change => conn[c] # "temp"

\* connectCrit has one owner.
OneConnects == \A c, d \in Connections : Connecting(c) /\ Connecting(d) => c = d

\* The first attempt of a connection asks for a lock.
FirstAsks == \A c \in Connections : pc[c] = "first" => req[c].mode # "none" /\ ~req[c].change

\* Only a connection that is being opened can hold a lock of a deleted node.
OrphanReleased ==
    orphaned => \A c \in Connections : lock.info[c] # Absent => pc[c] \in {"locked", "cleanup"}

\* NoDeadHolder.
HoldersLive ==
    \A c \in Connections : lock.info[c] # Absent =>
        conn[c] = "full" \/ pc[c] \in {"locked", "cleanup"} \/ dpc[c] \in {"drolr", "unlock"}

StateTypes ==
    /\ conn \in [Connections -> {"none", "temp", "full"}]
    /\ pc \in [Connections -> Places]
    /\ req \in [Connections -> [mode : Modes, change : BOOLEAN]]
    /\ dpc \in [Connections -> {"idle", "drolr", "unlock", "recheck", "delete"}]
    /\ orphaned \in BOOLEAN

ConnInv ==
    /\ OpeningAlone /\ ChangingOpened /\ OneConnects /\ FirstAsks
    /\ OrphanReleased /\ HoldersLive

Inv == StateTypes /\ LockInv(lock, pc, orphaned) /\ ConnInv

\* The initial state.
LEMMA InitInv == Init => Inv
  <1> SUFFICES ASSUME Init PROVE Inv
    OBVIOUS
  <1>1. StateTypes
    BY DEF Init, StateTypes, Places, NoRequest, Modes
  <1>2. \A c \in Connections : pc[c] \notin InsidePlaces
    BY DEF Init, InsidePlaces
  <1>3. /\ Count(pc, InsidePlaces) = 0 /\ Count(pc, WaitPlaces) = 0
        /\ Count(pc, AsleepPlaces) = 0
    <2>1. \A c \in Connections : pc[c] \notin WaitPlaces /\ pc[c] \notin AsleepPlaces
      BY DEF Init, WaitPlaces, AsleepPlaces
    <2> QED  BY <1>2, <2>1, CountBasic
  <1>4. /\ lock = NoLock /\ GoodLock(lock) /\ lock.pending = 0 /\ lock.waiting = 0
        /\ lock.sem = 0 /\ ~lock.present /\ ~orphaned
        /\ \A c \in Connections : lock.info[c] = Absent
    BY NobodyExact DEF Init, NoLock
  <1>5. LockInv(lock, pc, orphaned)
    <2>1. InUse(lock, pc)
      BY <1>2, <1>3, <1>4 DEF InUse
    <2>2. Waiters(lock, pc, orphaned)
      BY <1>3, <1>4 DEF Waiters
    <2> QED  BY <1>4, <2>1, <2>2 DEF LockInv
  <1>6. ConnInv
    BY <1>2, <1>4 DEF Init, ConnInv, OpeningAlone, Opening, Connecting, ChangingOpened,
       OneConnects, FirstAsks, OrphanReleased, HoldersLive
  <1> QED  BY <1>1, <1>5, <1>6 DEF Inv

\* A thread leaves the lock l: it is no longer counted inside it, and the lock
\* goes when it was the last to use it.
LEMMA LeaveKeeps ==
    ASSUME StateTypes, NEW c \in Connections, NEW l, GoodLock(l), l.present,
           Waiters(l, pc, orphaned), pc[c] # "wait", orphaned \/ pc[c] # "timedout",
           l.pending = Count(pc, InsidePlaces) + (IF pc[c] \in InsidePlaces THEN 0 ELSE 1),
           NEW x \in Places \ InsidePlaces, Leave(c, l, x), UNCHANGED <<conn, dpc>>
    PROVE  /\ StateTypes'
           /\ LockInv(lock', pc', orphaned')
           /\ lock'.info = l.info
           /\ orphaned' => orphaned \/ \A d \in Connections : l.info[d] = Absent
           /\ pc' = [pc EXCEPT ![c] = x] /\ req' = [req EXCEPT ![c] = NoRequest]
  <1> DEFINE left == [l EXCEPT !.pending = @ - 1]
  <1>1. /\ lock' = Dropped(left) /\ orphaned' = (orphaned \/ DropDeletes(left))
        /\ pc' = [pc EXCEPT ![c] = x] /\ req' = [req EXCEPT ![c] = NoRequest]
    BY DEF Leave
  <1>2. Moved(pc, pc', c, x)
    BY <1>1 DEF Moved, StateTypes
  <1>3. /\ Count(pc, InsidePlaces) \in Nat /\ Count(pc', InsidePlaces) \in Nat
        /\ Count(pc, WaitPlaces) \in Nat /\ Count(pc, AsleepPlaces) \in Nat
    BY OutsideCounts
  <1>4. /\ Count(pc', InsidePlaces) = Count(pc, InsidePlaces)
                + (IF x \in InsidePlaces THEN 1 ELSE 0) - (IF pc[c] \in InsidePlaces THEN 1 ELSE 0)
        /\ Count(pc', WaitPlaces) = Count(pc, WaitPlaces)
                + (IF x \in WaitPlaces THEN 1 ELSE 0) - (IF pc[c] \in WaitPlaces THEN 1 ELSE 0)
        /\ Count(pc', AsleepPlaces) = Count(pc, AsleepPlaces)
                + (IF x \in AsleepPlaces THEN 1 ELSE 0)
                - (IF pc[c] \in AsleepPlaces THEN 1 ELSE 0)
    BY <1>2, PlaceChange
  <1>5. /\ x \notin InsidePlaces /\ x \notin WaitPlaces /\ x \notin AsleepPlaces
        /\ pc[c] \notin WaitPlaces /\ (orphaned \/ pc[c] \notin AsleepPlaces)
    BY DEF InsidePlaces, WaitPlaces, AsleepPlaces
  <1>6. /\ Count(pc', InsidePlaces) = l.pending - 1
        /\ Count(pc', WaitPlaces) = Count(pc, WaitPlaces)
        /\ ~orphaned => Count(pc', AsleepPlaces) = Count(pc, AsleepPlaces)
    BY <1>3, <1>4, <1>5
  <1>7. /\ left \in LockRecord /\ left.info = l.info /\ left.exclusive = l.exclusive
        /\ left.readLocks = l.readLocks /\ left.holdLocks = l.holdLocks
        /\ left.waiting = l.waiting /\ left.sem = l.sem /\ left.present = l.present
        /\ left.pending = l.pending - 1
    <2>1. l \in LockRecord /\ l.pending - 1 \in Nat
      BY <1>3, <1>6 DEF GoodLock
    <2> QED  BY <2>1 DEF LockRecord
  <1> HIDE DEF left
  <1>8. GoodLock(left)
    BY <1>7 DEF GoodLock, Exact
  <1>9. Waiters(left, pc', orphaned)
    BY <1>6, <1>7 DEF Waiters
  <1>10. orphaned \in BOOLEAN
    BY DEF StateTypes
  <1>11. /\ LockInv(Dropped(left), pc', orphaned)
         /\ LockInv(Dropped(left), pc', orphaned \/ DropDeletes(left))
         /\ Dropped(left).info = left.info
         /\ DropDeletes(left) => \A d \in Connections : left.info[d] = Absent
    <2>1. left.present /\ left.pending = Count(pc', InsidePlaces)
      BY <1>6, <1>7
    <2> QED  BY <1>8, <1>9, <1>10, <2>1, DroppedKeeps
  <1>12. StateTypes'
    BY <1>1, <1>2, <1>10 DEF StateTypes, Moved, NoRequest, Modes
  <1> QED  BY <1>1, <1>7, <1>11, <1>12

\* What a thread inside the lock, or about to enter it, knows of the lock l: it is
\* the lock of the node, with this thread counted as inside.
Entered(c, l, r) ==
    /\ GoodLock(l) /\ l.present /\ l.info = lock.info /\ Waiters(l, pc, orphaned)
    /\ l.pending = Count(pc, InsidePlaces) + (IF pc[c] \in InsidePlaces THEN 0 ELSE 1)
    /\ r \in [mode : Modes, change : BOOLEAN]
    /\ pc[c] \in {"idle", "first", "woken", "timedout", "validate"}
    /\ r.change => conn[c] # "temp" /\ pc[c] # "first"
    /\ ~r.change => /\ pc[c] # "idle" /\ conn[c] # "full" /\ dpc[c] = "idle"
                    /\ \A d \in Connections : Connecting(d) => d = c

\* An attempt that ends without the lock, whatever the reason.
LEMMA FailKeeps ==
    ASSUME Inv, NEW c \in Connections, NEW l, NEW r, Entered(c, l, r),
           orphaned \/ pc[c] # "timedout", Fail(c, l, r), UNCHANGED <<conn, dpc>>
    PROVE  Inv'
  <1> DEFINE x == IF r.change THEN "idle" ELSE "cleanup"
  <1>1. x \in Places \ InsidePlaces /\ Leave(c, l, x) /\ pc[c] # "wait"
    BY DEF Fail, Places, InsidePlaces, Entered
  <1>2. /\ StateTypes' /\ LockInv(lock', pc', orphaned') /\ lock'.info = l.info
        /\ orphaned' => orphaned \/ \A d \in Connections : l.info[d] = Absent
        /\ pc' = [pc EXCEPT ![c] = x] /\ req' = [req EXCEPT ![c] = NoRequest]
    BY <1>1, LeaveKeeps DEF Inv, Entered
  <1>3. /\ lock'.info = lock.info /\ conn' = conn /\ dpc' = dpc /\ StateTypes
        /\ r.change \in BOOLEAN /\ pc[c] \notin {"locked", "cleanup"}
        /\ (r.change => x = "idle") /\ (~r.change => x = "cleanup")
    BY <1>2 DEF Entered, Inv
  <1> HIDE DEF x
  <1>4. /\ pc'[c] = x /\ \A d \in Connections \ {c} : pc'[d] = pc[d] /\ req'[d] = req[d]
    BY <1>2, <1>3 DEF StateTypes
  <1>5. OpeningAlone'
    BY <1>3, <1>4 DEF Inv, ConnInv, OpeningAlone, Opening, Connecting, Entered, InsidePlaces
  <1>6. ChangingOpened'
    BY <1>3, <1>4 DEF Inv, ConnInv, ChangingOpened, Entered, InsidePlaces
  <1>7. OneConnects'
    BY <1>3, <1>4 DEF Inv, ConnInv, OneConnects, Connecting, Entered
  <1>8. FirstAsks'
    BY <1>3, <1>4 DEF Inv, ConnInv, FirstAsks
  <1>9. OrphanReleased'
    BY <1>2, <1>3, <1>4 DEF Inv, ConnInv, OrphanReleased
  <1>10. HoldersLive'
    BY <1>3, <1>4 DEF Inv, ConnInv, HoldersLive
  <1> QED  BY <1>2, <1>5, <1>6, <1>7, <1>8, <1>9, <1>10 DEF Inv, ConnInv

\* A connection that is being opened holds no lock before it is granted one.
LEMMA OpeningHoldsNone ==
    ASSUME Inv, NEW c \in Connections, NEW l, NEW r, Entered(c, l, r), ~r.change
    PROVE  lock.info[c] = Absent
  BY DEF Inv, ConnInv, HoldersLive, Entered

\* An attempt that is granted.
LEMMA GrantKeeps ==
    ASSUME Inv, NEW c \in Connections, NEW l, NEW r, Entered(c, l, r), pc[c] # "timedout",
           orphaned => pc[c] = "first", conn[c] # "none",
           Grantable(l, c, r.mode, r.change),
           Leave(c, Locked(l, c, r.mode, r.change), IF r.change THEN "idle" ELSE "locked"),
           UNCHANGED <<conn, dpc>>
    PROVE  Inv'
  <1> DEFINE x == IF r.change THEN "idle" ELSE "locked"
             k == Locked(l, c, r.mode, r.change)
  <1>0. /\ r.mode \in Modes /\ r.change \in BOOLEAN /\ StateTypes
        /\ GoodLock(l) /\ l.info = lock.info
    BY DEF Entered, Inv
  <1>1. x \in Places \ InsidePlaces /\ Leave(c, k, x) /\ pc[c] # "wait"
    BY DEF Places, InsidePlaces, Entered
  <1>2. ~r.change => l.info[c] = Absent
    BY <1>0, OpeningHoldsNone
  <1>3. /\ GoodLock(k) /\ Rewoken(k, l)
        /\ \A d \in Connections \ {c} : k.info[d] = l.info[d]
    BY <1>0, <1>2, LockedGood
  <1> HIDE DEF x, k
  <1>4. l.sem \in Nat /\ l.waiting \in Nat /\ k.sem \in Nat /\ k.waiting \in Nat
    BY <1>0, <1>3 DEF GoodLock, LockRecord
  <1>5. Waiters(k, pc, orphaned)
    BY <1>3, <1>4, OutsideCounts DEF Waiters, Rewoken, Entered
  <1>6. /\ k.present
        /\ k.pending = Count(pc, InsidePlaces) + (IF pc[c] \in InsidePlaces THEN 0 ELSE 1)
    BY <1>3 DEF Rewoken, Entered
  <1>7. /\ StateTypes' /\ LockInv(lock', pc', orphaned') /\ lock'.info = k.info
        /\ orphaned' => orphaned \/ \A d \in Connections : k.info[d] = Absent
        /\ pc' = [pc EXCEPT ![c] = x] /\ req' = [req EXCEPT ![c] = NoRequest]
    BY <1>0, <1>1, <1>3, <1>5, <1>6, LeaveKeeps
  <1>8. /\ conn' = conn /\ dpc' = dpc /\ pc[c] \notin {"locked", "cleanup"}
        /\ (r.change => x = "idle") /\ (~r.change => x = "locked")
    BY DEF Entered, x
  <1>9. /\ pc'[c] = x /\ \A d \in Connections \ {c} : pc'[d] = pc[d] /\ req'[d] = req[d]
    BY <1>0, <1>7 DEF StateTypes
  <1>10. \A d \in Connections \ {c} : lock'.info[d] = lock.info[d]
    BY <1>0, <1>3, <1>7
  <1>11. r.change => conn[c] = "full"
    BY <1>0 DEF Entered, StateTypes
  <1>12. OpeningAlone'
    BY <1>0, <1>8, <1>9 DEF Inv, ConnInv, OpeningAlone, Opening, Connecting, Entered, InsidePlaces
  <1>13. ChangingOpened'
    BY <1>0, <1>8, <1>9 DEF Inv, ConnInv, ChangingOpened, Entered, InsidePlaces
  <1>14. OneConnects'
    BY <1>0, <1>8, <1>9 DEF Inv, ConnInv, OneConnects, Connecting, Entered
  <1>15. FirstAsks'
    BY <1>0, <1>8, <1>9 DEF Inv, ConnInv, FirstAsks
  <1>16. OrphanReleased'
    <2>1. orphaned => ~r.change
      BY <1>0 DEF Entered
    <2> QED  BY <1>0, <1>7, <1>8, <1>9, <1>10, <2>1 DEF Inv, ConnInv, OrphanReleased
  <1>17. HoldersLive'
    BY <1>0, <1>8, <1>9, <1>10, <1>11 DEF Inv, ConnInv, HoldersLive
  <1> QED  BY <1>7, <1>12, <1>13, <1>14, <1>15, <1>16, <1>17 DEF Inv, ConnInv

\* An attempt that has to wait: somebody holds the lock, so the node is not deleted.
LEMMA SleepKeeps ==
    ASSUME Inv, NEW c \in Connections, NEW l, NEW r, Entered(c, l, r), pc[c] # "timedout",
           orphaned => pc[c] = "first",
           ~Grantable(l, c, r.mode, r.change), ~LockHeld(l, c, r.mode, r.change),
           Refused(l, c, r.change) = l, Sleep(c, l, r), UNCHANGED <<conn, dpc>>
    PROVE  Inv'
  <1>0. /\ r.mode \in Modes /\ r.change \in BOOLEAN /\ StateTypes /\ orphaned \in BOOLEAN
        /\ GoodLock(l) /\ l \in LockRecord /\ Exact(l) /\ l.info = lock.info
        /\ l.waiting \in Nat /\ l.pending \in Nat /\ l.sem \in Nat /\ l.readLocks \in Nat
        /\ l.holdLocks \in Nat
    BY DEF Entered, Inv, GoodLock, LockRecord, StateTypes
  <1>1. Conflicts(l, r.mode)
    <2>1. CASE Changes(l, c, r.change)
      <3> DEFINE rl == Released(l, c)
      <3>1. Conflicts(rl, r.mode)
        BY <2>1 DEF Grantable
      <3>2. /\ rl.exclusive => l.exclusive
            /\ rl.readLocks <= l.readLocks /\ rl.readLocks \in Nat
        BY <1>0, ReleasedExact DEF LockRecord
      <3> HIDE DEF rl
      <3>3. r.mode = "write" => l.holdLocks = 0
        BY <1>0 DEF LockHeld
      <3>4. CASE rl.exclusive
        BY <3>1, <3>2, <3>4 DEF Conflicts
      <3>5. CASE ~rl.exclusive
        <4>1. r.mode = "write" /\ (rl.readLocks > 0 \/ rl.holdLocks > 0)
          BY <3>1, <3>5 DEF Conflicts
        <4>2. rl.holdLocks <= rl.readLocks /\ rl.holdLocks \in Nat
          <5>1. rl \in LockRecord /\ Exact(rl)
            BY <1>0, ReleasedExact DEF rl
          <5>2. {"hold"} \subseteq {"read", "hold"}
            OBVIOUS
          <5>3. Count(rl.info, {"hold"}) <= Count(rl.info, {"read", "hold"})
            BY <5>2, CountBasic
          <5> QED  BY <5>1, <5>3 DEF Exact, LockRecord
        <4> QED  BY <1>0, <3>2, <4>1, <4>2 DEF Conflicts
      <3> QED  BY <3>4, <3>5
    <2>2. CASE ~Changes(l, c, r.change)
      BY <2>2 DEF Grantable
    <2> QED  BY <2>1, <2>2
  <1>2. l.exclusive \/ l.readLocks > 0
    <2>1. r.mode = "write" => l.holdLocks = 0
      BY <1>0 DEF LockHeld
    <2> QED  BY <1>0, <1>1, <2>1 DEF Conflicts
  <1>3. ~orphaned
    <2> SUFFICES ASSUME orphaned PROVE FALSE
      OBVIOUS
    <2>1. pc[c] = "first" /\ ~r.change
      BY <1>0 DEF Entered
    <2>2. \A d \in Connections : l.info[d] = Absent
      BY <1>0, <2>1 DEF Inv, ConnInv, OrphanReleased, Entered, Connecting
    <2> QED  BY <1>0, <1>2, <2>2, FreeLock
  <1>4. /\ lock' = [l EXCEPT !.waiting = @ + 1] /\ pc' = [pc EXCEPT ![c] = "wait"]
        /\ req' = [req EXCEPT ![c] = r] /\ orphaned' = orphaned
        /\ conn' = conn /\ dpc' = dpc
    BY DEF Sleep
  <1>5. Moved(pc, pc', c, "wait")
    BY <1>0, <1>4 DEF Moved, StateTypes, Places
  <1>6. /\ Count(pc, InsidePlaces) \in Nat /\ Count(pc', InsidePlaces) \in Nat
        /\ Count(pc, WaitPlaces) \in Nat /\ Count(pc, AsleepPlaces) \in Nat
    BY OutsideCounts
  <1>7. /\ Count(pc', InsidePlaces) = Count(pc, InsidePlaces)
                + (IF "wait" \in InsidePlaces THEN 1 ELSE 0) - (IF pc[c] \in InsidePlaces THEN 1 ELSE 0)
        /\ Count(pc', WaitPlaces) = Count(pc, WaitPlaces)
                + (IF "wait" \in WaitPlaces THEN 1 ELSE 0) - (IF pc[c] \in WaitPlaces THEN 1 ELSE 0)
        /\ Count(pc', AsleepPlaces) = Count(pc, AsleepPlaces)
                + (IF "wait" \in AsleepPlaces THEN 1 ELSE 0)
                - (IF pc[c] \in AsleepPlaces THEN 1 ELSE 0)
    BY <1>5, PlaceChange
  <1>8. /\ "wait" \in InsidePlaces /\ "wait" \in AsleepPlaces /\ pc[c] \notin AsleepPlaces
    BY DEF InsidePlaces, AsleepPlaces, Entered
  <1>9. /\ Count(pc', InsidePlaces) = l.pending
        /\ Count(pc', AsleepPlaces) = Count(pc, AsleepPlaces) + 1
    BY <1>6, <1>7, <1>8 DEF Entered
  <1>10. /\ lock' \in LockRecord /\ lock'.info = l.info /\ lock'.exclusive = l.exclusive
         /\ lock'.readLocks = l.readLocks /\ lock'.holdLocks = l.holdLocks
         /\ lock'.waiting = l.waiting + 1 /\ lock'.sem = l.sem /\ lock'.present = l.present
         /\ lock'.pending = l.pending
    <2>1. l.waiting + 1 \in Nat
      BY <1>0
    <2> QED  BY <1>0, <1>4, <2>1 DEF LockRecord
  <1>11. GoodLock(lock')
    BY <1>0, <1>2, <1>10 DEF GoodLock, Exact
  <1>12. Waiters(lock', pc', orphaned')
    BY <1>0, <1>3, <1>4, <1>6, <1>9, <1>10 DEF Waiters, Entered
  <1>13. InUse(lock', pc')
    <2>1. pc'[c] \in InsidePlaces
      BY <1>5, <1>8 DEF Moved
    <2> QED  BY <1>9, <1>10, <2>1 DEF InUse, Entered
  <1>14. LockInv(lock', pc', orphaned')
    BY <1>11, <1>12, <1>13 DEF LockInv
  <1>15. StateTypes'
    BY <1>0, <1>4, <1>5 DEF StateTypes, Moved, Entered
  <1>16. /\ pc'[c] = "wait" /\ req'[c] = r
         /\ \A d \in Connections \ {c} : pc'[d] = pc[d] /\ req'[d] = req[d]
    BY <1>0, <1>4 DEF StateTypes
  <1>17. OpeningAlone'
    BY <1>0, <1>4, <1>16 DEF Inv, ConnInv, OpeningAlone, Opening, Connecting, Entered, InsidePlaces
  <1>18. ChangingOpened'
    BY <1>0, <1>4, <1>16 DEF Inv, ConnInv, ChangingOpened, Entered, InsidePlaces
  <1>19. OneConnects'
    BY <1>16 DEF Inv, ConnInv, OneConnects, Connecting
  <1>20. FirstAsks'
    BY <1>16 DEF Inv, ConnInv, FirstAsks
  <1>21. OrphanReleased'
    BY <1>3, <1>4 DEF OrphanReleased
  <1>22. HoldersLive'
    BY <1>0, <1>4, <1>10, <1>16 DEF Inv, ConnInv, HoldersLive, Entered
  <1> QED  BY <1>14, <1>15, <1>17, <1>18, <1>19, <1>20, <1>21, <1>22 DEF Inv, ConnInv

\* One round of doLock().
LEMMA AttemptKeeps ==
    ASSUME Inv, NEW c \in Connections, NEW l, NEW r, Entered(c, l, r), pc[c] # "timedout",
           orphaned => pc[c] = "first", Attempt(c, l, r), UNCHANGED <<conn, dpc>>
    PROVE  Inv'
  <1>0. /\ r.mode \in Modes /\ r.change \in BOOLEAN /\ GoodLock(l)
        /\ ~Grantable(l, c, r.mode, r.change) => Refused(l, c, r.change) = l
    <2>1. r.mode \in Modes /\ r.change \in BOOLEAN /\ GoodLock(l)
      BY DEF Entered
    <2> QED  BY <2>1, RefusedSame
  <1>1. CASE Fail(c, l, r)
    BY <1>1, FailKeeps
  <1>2. CASE /\ conn[c] # "none" /\ Grantable(l, c, r.mode, r.change)
             /\ Leave(c, Locked(l, c, r.mode, r.change), IF r.change THEN "idle" ELSE "locked")
    BY <1>2, GrantKeeps
  <1>3. CASE /\ ~Grantable(l, c, r.mode, r.change) /\ ~LockHeld(l, c, r.mode, r.change)
             /\ Sleep(c, l, r)
    BY <1>0, <1>3, SleepKeeps
  <1>4. CASE LockHeld(l, c, r.mode, r.change) /\ Fail(c, Refused(l, c, r.change), r)
    <2>1. Refused(l, c, r.change) = l
      BY <1>0, <1>4 DEF LockHeld
    <2> QED  BY <1>1, <1>4, <2>1
  <1>5. CASE /\ ~Grantable(l, c, r.mode, r.change) /\ ~LockHeld(l, c, r.mode, r.change)
             /\ Sleep(c, Refused(l, c, r.change), r)
    <2>1. Refused(l, c, r.change) = l
      BY <1>0, <1>5
    <2> QED  BY <1>3, <1>5, <2>1
  <1> QED  BY <1>1, <1>2, <1>4, <1>5 DEF Attempt

\* A thread that enters the lock is counted inside it.
LEMMA EnterLock ==
    ASSUME Inv, lock.present, NEW c \in Connections, pc[c] \in {"idle", "first"}
    PROVE  LET l == WithPending(lock) IN
           /\ GoodLock(l) /\ l.present /\ l.info = lock.info /\ Waiters(l, pc, orphaned)
           /\ l.pending = Count(pc, InsidePlaces) + (IF pc[c] \in InsidePlaces THEN 0 ELSE 1)
  <1> DEFINE l == WithPending(lock)
  <1>1. /\ lock \in LockRecord /\ Exact(lock) /\ lock.pending \in Nat
        /\ lock.pending = Count(pc, InsidePlaces)
    BY DEF Inv, LockInv, GoodLock, LockRecord, InUse
  <1>2. /\ l \in LockRecord /\ l.info = lock.info /\ l.exclusive = lock.exclusive
        /\ l.readLocks = lock.readLocks /\ l.holdLocks = lock.holdLocks
        /\ l.waiting = lock.waiting /\ l.sem = lock.sem /\ l.present = lock.present
        /\ l.pending = lock.pending + 1
    <2>1. lock.pending + 1 \in Nat
      BY <1>1
    <2> QED  BY <1>1, <2>1 DEF LockRecord, WithPending
  <1> HIDE DEF l
  <1>3. GoodLock(l)
    BY <1>1, <1>2 DEF Inv, LockInv, GoodLock, Exact
  <1>4. Waiters(l, pc, orphaned)
    BY <1>2 DEF Inv, LockInv, Waiters
  <1>5. pc[c] \notin InsidePlaces
    BY DEF InsidePlaces
  <1> QED  BY <1>1, <1>2, <1>3, <1>4, <1>5 DEF l

\* A lock created holding a lock for c.
LEMMA NewLockKeeps ==
    ASSUME Inv, ~lock.present, NEW c \in Connections, NEW m \in Modes, m # "none"
    PROVE  /\ LockInv(NewLock(c, m), pc, orphaned)
           /\ NewLock(c, m).info = [NoLock.info EXCEPT ![c] = m]
           /\ lock.info = NoLock.info /\ \A d \in Connections : lock.info[d] = Absent
  <1> DEFINE e == [NoLock EXCEPT !.present = TRUE]
             k == NewLock(c, m)
  <1>1. /\ lock = NoLock /\ \A d \in Connections : pc[d] \notin InsidePlaces
    BY DEF Inv, LockInv, InUse
  <1>2. /\ NoLock.info = [d \in Connections |-> Absent] /\ NoLock \in LockRecord
        /\ NoLock.readLocks = 0 /\ NoLock.holdLocks = 0 /\ ~NoLock.exclusive
        /\ NoLock.waiting = 0 /\ NoLock.sem = 0 /\ NoLock.pending = 0 /\ Exact(NoLock)
    BY NobodyExact DEF GoodLock, NoLock
  <1>3. /\ e \in LockRecord /\ e.info = NoLock.info /\ e.exclusive = NoLock.exclusive
        /\ e.readLocks = 0 /\ e.holdLocks = 0 /\ e.waiting = 0 /\ e.sem = 0
        /\ e.present = TRUE /\ e.pending = 0
    BY <1>2 DEF LockRecord, NoLock
  <1>4. k = Granted(e, c, m)
    BY DEF NewLock
  <1> HIDE DEF e, k, NoLock
  <1>5. Exact(e)
    BY <1>2, <1>3 DEF Exact
  <1>6. e.info[c] = Absent /\ ~Conflicts(e, m)
    BY <1>2, <1>3 DEF Conflicts
  <1>7. /\ k \in LockRecord /\ Exact(k) /\ k.info = [e.info EXCEPT ![c] = m]
        /\ SameUse(k, e) /\ (m # "none" => k.exclusive \/ k.readLocks > 0)
    BY <1>3, <1>4, <1>5, <1>6, GrantedExact
  <1>8. /\ k.waiting = 0 /\ k.sem = 0 /\ k.pending = 0 /\ k.present
    BY <1>3, <1>7 DEF SameUse
  <1>9. /\ Count(pc, InsidePlaces) = 0 /\ Count(pc, WaitPlaces) = 0
        /\ Count(pc, AsleepPlaces) = 0
    <2>1. Count(pc, InsidePlaces) = 0
      BY <1>1, OutsideCounts
    <2>2. /\ Count(pc, WaitPlaces) \in Nat /\ Count(pc, AsleepPlaces) \in Nat
          /\ Count(pc, WaitPlaces) <= Count(pc, AsleepPlaces)
          /\ Count(pc, AsleepPlaces) <= Count(pc, InsidePlaces)
      BY OutsideCounts
    <2> QED  BY <2>1, <2>2
  <1>10. GoodLock(k)
    BY <1>7, <1>8 DEF GoodLock
  <1>11. Waiters(k, pc, orphaned)
    BY <1>8, <1>9 DEF Waiters
  <1>12. InUse(k, pc)
    <2>1. k.info[c] = m /\ m # Absent
      BY <1>2, <1>3, <1>7 DEF Absent, Modes
    <2> QED  BY <1>8, <1>9, <2>1 DEF InUse
  <1> QED  BY <1>1, <1>2, <1>3, <1>7, <1>10, <1>11, <1>12 DEF LockInv, k

\* createConnection() up to the node.
LEMMA ConnectKeeps == ASSUME Inv, NEW c \in Connections, NEW m \in Modes, Connect(c, m) PROVE Inv'
  <1> DEFINE x == IF m = "none" THEN "locked" ELSE "first"
  <1>1. /\ pc[c] = "idle" /\ dpc[c] = "idle" /\ conn[c] = "none" /\ ~orphaned
        /\ \A d \in Connections : ~Connecting(d)
        /\ conn' = [conn EXCEPT ![c] = "temp"] /\ pc' = [pc EXCEPT ![c] = x]
        /\ req' = [req EXCEPT ![c] = [mode |-> m, change |-> FALSE]]
        /\ lock' = lock /\ dpc' = dpc /\ orphaned' = orphaned /\ StateTypes
        /\ LockInv(lock, pc, orphaned)
    BY DEF Connect, ConnectCritFree, Inv
  <1>2. x \in {"locked", "first"} /\ (x = "first" => m # "none")
    OBVIOUS
  <1> HIDE DEF x
  <1>3. Moved(pc, pc', c, x) /\ pc[c] \notin InsidePlaces /\ x \notin InsidePlaces
    BY <1>1, <1>2 DEF Moved, StateTypes, Places, InsidePlaces
  <1>4. LockInv(lock', pc', orphaned')
    BY <1>1, <1>3, MoveOutside
  <1>5. StateTypes'
    BY <1>1, <1>2 DEF StateTypes, Places
  <1>6. /\ pc'[c] = x /\ req'[c] = [mode |-> m, change |-> FALSE] /\ conn'[c] = "temp"
        /\ \A d \in Connections \ {c} : pc'[d] = pc[d] /\ req'[d] = req[d] /\ conn'[d] = conn[d]
    BY <1>1 DEF StateTypes
  <1>7. lock.info[c] = Absent
    BY <1>1 DEF Inv, ConnInv, HoldersLive
  <1>8. OpeningAlone' /\ ChangingOpened'
    BY <1>1, <1>2, <1>6 DEF Inv, ConnInv, OpeningAlone, ChangingOpened, Opening, Connecting, InsidePlaces
  <1>9. OneConnects' /\ FirstAsks'
    BY <1>1, <1>2, <1>6 DEF Inv, ConnInv, OneConnects, FirstAsks, Connecting
  <1>10. OrphanReleased' /\ HoldersLive'
    BY <1>1, <1>6, <1>7 DEF Inv, ConnInv, OrphanReleased, HoldersLive
  <1> QED  BY <1>4, <1>5, <1>8, <1>9, <1>10 DEF Inv, ConnInv

\* CCovenSDSManager::lock() for a new connection.
LEMMA FirstTryKeeps == ASSUME Inv, NEW c \in Connections, FirstTry(c) PROVE Inv'
  <1>1. /\ pc[c] = "first" /\ conn' = conn /\ dpc' = dpc /\ StateTypes
        /\ LockInv(lock, pc, orphaned) /\ req[c] \in [mode : Modes, change : BOOLEAN]
    BY DEF FirstTry, Inv, StateTypes
  <1>2. /\ req[c].mode # "none" /\ ~req[c].change /\ conn[c] # "full" /\ dpc[c] = "idle"
        /\ \A d \in Connections : Connecting(d) => d = c
    BY <1>1 DEF Inv, ConnInv, FirstAsks, OpeningAlone, Opening, Connecting, OneConnects
  <1>3. CASE ~lock.present
    <2> DEFINE m == req[c].mode
    <2>0. m \in Modes /\ m # "none"
      BY <1>1, <1>2
    <2>1. /\ lock' = NewLock(c, m) /\ pc' = [pc EXCEPT ![c] = "locked"]
          /\ req' = [req EXCEPT ![c] = NoRequest] /\ orphaned' = orphaned
      BY <1>3 DEF FirstTry
    <2> HIDE DEF m
    <2>2. /\ LockInv(lock', pc, orphaned) /\ lock'.info = [NoLock.info EXCEPT ![c] = m]
          /\ lock.info = NoLock.info /\ \A d \in Connections : lock.info[d] = Absent
      BY <1>3, <2>0, <2>1, NewLockKeeps
    <2>3. Moved(pc, pc', c, "locked") /\ pc[c] \notin InsidePlaces /\ "locked" \notin InsidePlaces
      BY <1>1, <2>1 DEF Moved, StateTypes, Places, InsidePlaces
    <2>4. LockInv(lock', pc', orphaned')
      BY <2>1, <2>2, <2>3, MoveOutside
    <2>5. StateTypes'
      BY <1>1, <2>1 DEF StateTypes, Places, NoRequest, Modes
    <2>6. /\ pc'[c] = "locked"
          /\ \A d \in Connections \ {c} : pc'[d] = pc[d] /\ req'[d] = req[d]
      BY <1>1, <2>1 DEF StateTypes
    <2>7. \A d \in Connections \ {c} : lock'.info[d] = Absent
      BY <2>2, NobodyExact
    <2>8. OpeningAlone' /\ ChangingOpened'
      BY <1>1, <1>2, <2>6 DEF Inv, ConnInv, OpeningAlone, ChangingOpened, Opening, Connecting, InsidePlaces
    <2>9. OneConnects' /\ FirstAsks'
      BY <1>1, <1>2, <2>6 DEF Inv, ConnInv, OneConnects, FirstAsks, Connecting
    <2>10. OrphanReleased' /\ HoldersLive'
      BY <2>6, <2>7 DEF OrphanReleased, HoldersLive
    <2> QED  BY <2>4, <2>5, <2>8, <2>9, <2>10 DEF Inv, ConnInv
  <1>4. CASE lock.present
    <2> DEFINE l == WithPending(lock)
               r == req[c]
    <2>1. Attempt(c, l, r)
      BY <1>4 DEF FirstTry
    <2>2. Entered(c, l, r)
      BY <1>1, <1>2, <1>4, EnterLock DEF Entered
    <2> QED  BY <1>1, <2>1, <2>2, AttemptKeeps
  <1> QED  BY <1>3, <1>4

\* DAMP_SDSCMD_CHANGEMODE.
LEMMA ChangeModeKeeps ==
    ASSUME Inv, NEW c \in Connections, NEW m \in Modes, ChangeMode(c, m) PROVE Inv'
  <1>1. /\ pc[c] = "idle" /\ conn[c] = "full" /\ ~orphaned
        /\ conn' = conn /\ dpc' = dpc /\ StateTypes /\ LockInv(lock, pc, orphaned)
    BY DEF ChangeMode, Inv
  <1>2. CASE ~lock.present /\ m # "none"
    <2>1. /\ lock' = NewLock(c, m) /\ pc' = pc /\ req' = req /\ orphaned' = orphaned
      BY <1>2 DEF ChangeMode
    <2>2. /\ LockInv(lock', pc, orphaned) /\ lock'.info = [NoLock.info EXCEPT ![c] = m]
          /\ lock.info = NoLock.info /\ \A d \in Connections : lock.info[d] = Absent
      BY <1>2, <2>1, NewLockKeeps
    <2>3. \A d \in Connections \ {c} : lock'.info[d] = Absent
      BY <2>2, NobodyExact
    <2>4. StateTypes' /\ OpeningAlone' /\ ChangingOpened' /\ OneConnects' /\ FirstAsks'
      BY <1>1, <2>1 DEF Inv, ConnInv, StateTypes, OpeningAlone, ChangingOpened, OneConnects,
         FirstAsks, Opening, Connecting
    <2>5. OrphanReleased' /\ HoldersLive'
      BY <1>1, <2>1, <2>3 DEF OrphanReleased, HoldersLive
    <2> QED  BY <2>1, <2>2, <2>4, <2>5 DEF Inv, ConnInv
  <1>3. CASE lock.present
    <2> DEFINE l == WithPending(lock)
               r == [mode |-> m, change |-> TRUE]
    <2>1. Attempt(c, l, r)
      BY <1>3 DEF ChangeMode
    <2>2. Entered(c, l, r)
      BY <1>1, <1>3, EnterLock DEF Entered
    <2> HIDE DEF l, r
    <2> QED  BY <1>1, <2>1, <2>2, AttemptKeeps
  <1> QED  BY <1>2, <1>3 DEF ChangeMode

\* A thread moves between two places inside the lock, while the semaphore and
\* the count of waiters of the lock change to those of k.
LEMMA MoveInside ==
    ASSUME Inv, NEW c \in Connections, pc[c] \in InsidePlaces, NEW x \in InsidePlaces,
           pc' = [pc EXCEPT ![c] = x], UNCHANGED <<conn, req, dpc, orphaned>>,
           GoodLock(lock'), lock'.info = lock.info, lock'.present = lock.present,
           lock'.pending = lock.pending, Waiters(lock', pc', orphaned)
    PROVE  Inv'
  <1>1. /\ conn' = conn /\ req' = req /\ dpc' = dpc /\ orphaned' = orphaned /\ StateTypes
        /\ LockInv(lock, pc, orphaned)
    BY DEF Inv
  <1>2. x \in Places /\ x \notin {"locked", "cleanup", "first"}
    BY DEF InsidePlaces, Places
  <1>3. Moved(pc, pc', c, x)
    BY <1>1, <1>2 DEF Moved, StateTypes
  <1>4. pc'[c] = x /\ \A d \in Connections \ {c} : pc'[d] = pc[d]
    BY <1>3 DEF Moved
  <1>5. Count(pc', InsidePlaces) = Count(pc, InsidePlaces)
    <2>1. Count(pc, InsidePlaces) \in Nat
      BY OutsideCounts
    <2>2. Count(pc', InsidePlaces) = Count(pc, InsidePlaces)
                + (IF x \in InsidePlaces THEN 1 ELSE 0) - (IF pc[c] \in InsidePlaces THEN 1 ELSE 0)
      BY <1>3, PlaceChange
    <2> QED  BY <2>1, <2>2
  <1>6. lock.present
    BY <1>1 DEF LockInv, InUse
  <1>7. InUse(lock', pc')
    BY <1>1, <1>4, <1>5, <1>6 DEF LockInv, InUse
  <1>8. LockInv(lock', pc', orphaned')
    BY <1>1, <1>7 DEF LockInv
  <1>9. StateTypes'
    BY <1>1, <1>3 DEF StateTypes, Moved
  <1>10. pc[c] \notin {"locked", "cleanup", "first"}
    BY DEF InsidePlaces
  <1>11. OpeningAlone' /\ ChangingOpened'
    BY <1>1, <1>2, <1>4, <1>10 DEF Inv, ConnInv, OpeningAlone, ChangingOpened, Opening, Connecting
  <1>12. OneConnects' /\ FirstAsks'
    BY <1>1, <1>2, <1>4 DEF Inv, ConnInv, OneConnects, FirstAsks, Connecting
  <1>13. OrphanReleased' /\ HoldersLive'
    BY <1>1, <1>4, <1>10 DEF Inv, ConnInv, OrphanReleased, HoldersLive
  <1> QED  BY <1>8, <1>9, <1>11, <1>12, <1>13 DEF Inv, ConnInv

\* The facts about the lock and the counts that a sleeper's step to x starts from.
SleeperState(c, x) ==
    /\ lock \in LockRecord /\ Exact(lock) /\ GoodLock(lock)
    /\ lock.sem \in Nat /\ lock.waiting \in Nat
    /\ Count(pc, WaitPlaces) \in Nat /\ Count(pc, AsleepPlaces) \in Nat
    /\ Count(pc', WaitPlaces) \in Nat /\ Count(pc', AsleepPlaces) \in Nat
    /\ Count(pc', WaitPlaces) = Count(pc, WaitPlaces)
            + (IF x \in WaitPlaces THEN 1 ELSE 0) - (IF pc[c] \in WaitPlaces THEN 1 ELSE 0)
    /\ Count(pc', AsleepPlaces) = Count(pc, AsleepPlaces)
            + (IF x \in AsleepPlaces THEN 1 ELSE 0) - (IF pc[c] \in AsleepPlaces THEN 1 ELSE 0)
    /\ Waiters(lock, pc, orphaned)

\* They hold whenever a thread moves.
LEMMA SleeperFacts ==
    ASSUME Inv, NEW c \in Connections, NEW x \in Places, pc' = [pc EXCEPT ![c] = x]
    PROVE  SleeperState(c, x)
  <1>1. Moved(pc, pc', c, x)
    BY DEF Moved, Inv, StateTypes
  <1>2. /\ Count(pc', WaitPlaces) = Count(pc, WaitPlaces)
                   + (IF x \in WaitPlaces THEN 1 ELSE 0) - (IF pc[c] \in WaitPlaces THEN 1 ELSE 0)
        /\ Count(pc', AsleepPlaces) = Count(pc, AsleepPlaces)
                   + (IF x \in AsleepPlaces THEN 1 ELSE 0)
                   - (IF pc[c] \in AsleepPlaces THEN 1 ELSE 0)
    BY <1>1, PlaceChange
  <1>3. /\ Count(pc, WaitPlaces) \in Nat /\ Count(pc, AsleepPlaces) \in Nat
        /\ Count(pc', WaitPlaces) \in Nat /\ Count(pc', AsleepPlaces) \in Nat
    BY OutsideCounts
  <1>4. /\ lock \in LockRecord /\ Exact(lock) /\ GoodLock(lock) /\ Waiters(lock, pc, orphaned)
        /\ lock.sem \in Nat /\ lock.waiting \in Nat
    BY DEF Inv, LockInv, GoodLock, LockRecord
  <1> QED  BY <1>2, <1>3, <1>4 DEF SleeperState

\* A sleeper takes a token.
LEMMA WakeKeeps == ASSUME Inv, NEW c \in Connections, Wake(c) PROVE Inv'
  <1>1. /\ pc[c] = "wait" /\ lock.sem > 0 /\ lock' = [lock EXCEPT !.sem = @ - 1]
        /\ pc' = [pc EXCEPT ![c] = "woken"] /\ UNCHANGED <<conn, req, dpc, orphaned>>
    BY DEF Wake
  <1>2. /\ "woken" \in Places /\ "woken" \in InsidePlaces /\ pc[c] \in InsidePlaces
        /\ "woken" \notin WaitPlaces /\ "woken" \notin AsleepPlaces
        /\ pc[c] \in WaitPlaces /\ pc[c] \in AsleepPlaces
    BY <1>1 DEF Places, InsidePlaces, WaitPlaces, AsleepPlaces
  <1>3. /\ lock \in LockRecord /\ Exact(lock) /\ GoodLock(lock)
        /\ lock.sem \in Nat /\ lock.waiting \in Nat
        /\ Count(pc, WaitPlaces) \in Nat /\ Count(pc, AsleepPlaces) \in Nat
        /\ Count(pc', WaitPlaces) = Count(pc, WaitPlaces) - 1
        /\ Count(pc', AsleepPlaces) = Count(pc, AsleepPlaces) - 1
        /\ Waiters(lock, pc, orphaned)
    <2>1. SleeperState(c, "woken")
      BY <1>1, <1>2, SleeperFacts
    <2> QED  BY <1>1, <1>2, <2>1 DEF SleeperState
  <1>4. /\ lock' \in LockRecord /\ lock'.info = lock.info /\ lock'.exclusive = lock.exclusive
        /\ lock'.readLocks = lock.readLocks /\ lock'.holdLocks = lock.holdLocks
        /\ lock'.waiting = lock.waiting /\ lock'.sem = lock.sem - 1
        /\ lock'.present = lock.present /\ lock'.pending = lock.pending
    <2>1. lock.sem - 1 \in Nat
      BY <1>1, <1>3
    <2> QED  BY <1>1, <1>3, <2>1 DEF LockRecord
  <1>5. GoodLock(lock')
    BY <1>3, <1>4 DEF GoodLock, Exact
  <1>6. Waiters(lock', pc', orphaned)
    BY <1>3, <1>4 DEF Waiters
  <1> QED  BY <1>1, <1>2, <1>4, <1>5, <1>6, MoveInside

\* A sleeper's time is up before it takes a token.
LEMMA TimeoutKeeps == ASSUME Inv, NEW c \in Connections, Timeout(c) PROVE Inv'
  <1>1. /\ pc[c] = "wait" /\ lock' = lock
        /\ pc' = [pc EXCEPT ![c] = "timedout"] /\ UNCHANGED <<conn, req, dpc, orphaned>>
    BY DEF Timeout
  <1>2. /\ "timedout" \in Places /\ "timedout" \in InsidePlaces /\ pc[c] \in InsidePlaces
        /\ "timedout" \notin WaitPlaces /\ "timedout" \in AsleepPlaces
        /\ pc[c] \in WaitPlaces /\ pc[c] \in AsleepPlaces
    BY <1>1 DEF Places, InsidePlaces, WaitPlaces, AsleepPlaces
  <1>3. /\ GoodLock(lock) /\ lock.sem \in Nat
        /\ Count(pc, WaitPlaces) \in Nat /\ Count(pc, AsleepPlaces) \in Nat
        /\ Count(pc', WaitPlaces) = Count(pc, WaitPlaces) - 1
        /\ Count(pc', AsleepPlaces) = Count(pc, AsleepPlaces)
        /\ Waiters(lock, pc, orphaned)
    <2>1. SleeperState(c, "timedout")
      BY <1>1, <1>2, SleeperFacts
    <2> QED  BY <1>1, <1>2, <2>1 DEF SleeperState
  <1>4. Waiters(lock', pc', orphaned)
    BY <1>1, <1>3 DEF Waiters
  <1> QED  BY <1>1, <1>2, <1>3, <1>4, MoveInside

\* A thread inside the lock that may take the locks around it again.
LEMMA EnteredInside ==
    ASSUME Inv, NEW c \in Connections, pc[c] \in {"woken", "timedout", "validate"}, CanBlock(c)
    PROVE  Entered(c, lock, req[c])
  <1>1. pc[c] \in InsidePlaces /\ req[c] \in [mode : Modes, change : BOOLEAN]
    BY DEF InsidePlaces, Inv, StateTypes
  <1>2. /\ GoodLock(lock) /\ Waiters(lock, pc, orphaned) /\ lock.present
        /\ lock.pending = Count(pc, InsidePlaces) /\ Count(pc, InsidePlaces) \in Nat
    BY <1>1, OutsideCounts DEF Inv, LockInv, InUse
  <1>3. req[c].change => conn[c] # "temp"
    BY <1>1 DEF Inv, ConnInv, ChangingOpened
  <1>4. ~req[c].change => /\ conn[c] # "full" /\ dpc[c] = "idle"
                          /\ \A d \in Connections : ~Connecting(d)
    BY <1>1 DEF Inv, ConnInv, OpeningAlone, Opening, CanBlock, ConnectCritFree
  <1> QED  BY <1>1, <1>2, <1>3, <1>4 DEF Entered

\* After a timeout: the sleeper takes back its token, or itself from the waiters.
LEMMA SettleKeeps == ASSUME Inv, NEW c \in Connections, Settle(c) PROVE Inv'
  <1>1. pc[c] = "timedout" /\ CanBlock(c) /\ conn' = conn /\ dpc' = dpc
    BY DEF Settle
  <1>2. CASE orphaned /\ Fail(c, lock, req[c])
    BY <1>1, <1>2, EnteredInside, FailKeeps
  <1>3. CASE /\ ~orphaned /\ lock' = Uncount(lock) /\ pc' = [pc EXCEPT ![c] = "validate"]
             /\ UNCHANGED <<req, orphaned>>
    <2>1. /\ "validate" \in Places /\ "validate" \in InsidePlaces /\ pc[c] \in InsidePlaces
          /\ "validate" \notin WaitPlaces /\ "validate" \notin AsleepPlaces
          /\ pc[c] \notin WaitPlaces /\ pc[c] \in AsleepPlaces
      BY <1>1 DEF Places, InsidePlaces, WaitPlaces, AsleepPlaces
    <2>2. /\ lock \in LockRecord /\ Exact(lock) /\ GoodLock(lock)
          /\ lock.sem \in Nat /\ lock.waiting \in Nat
          /\ Count(pc, AsleepPlaces) \in Nat /\ Count(pc', AsleepPlaces) \in Nat
          /\ Count(pc', AsleepPlaces) = Count(pc, AsleepPlaces) - 1
          /\ Waiters(lock, pc, orphaned)
      <3>1. SleeperState(c, "validate")
        BY <1>3, <2>1, SleeperFacts
      <3> QED  BY <1>3, <2>1, <3>1 DEF SleeperState
    <2>3. lock.waiting + lock.sem = Count(pc', AsleepPlaces) + 1
      BY <1>3, <2>2 DEF Waiters
    <2>4. lock.sem = 0 => lock.waiting - 1 \in Nat
      BY <2>2, <2>3
    <2>5. /\ lock' \in LockRecord /\ lock'.info = lock.info /\ lock'.exclusive = lock.exclusive
          /\ lock'.readLocks = lock.readLocks /\ lock'.holdLocks = lock.holdLocks
          /\ lock'.present = lock.present /\ lock'.pending = lock.pending
          /\ lock'.waiting <= lock.waiting
          /\ lock'.waiting + lock'.sem = lock.waiting + lock.sem - 1
      <3>1. CASE lock.sem > 0
        <4>1. lock' = [lock EXCEPT !.sem = @ - 1] /\ lock.sem - 1 \in Nat
          BY <1>3, <2>2, <3>1 DEF Uncount
        <4> QED  BY <2>2, <4>1 DEF LockRecord
      <3>2. CASE ~(lock.sem > 0)
        <4>1. lock' = [lock EXCEPT !.waiting = @ - 1] /\ lock.waiting - 1 \in Nat
          BY <1>3, <2>2, <2>4, <3>2 DEF Uncount
        <4> QED  BY <2>2, <4>1 DEF LockRecord
      <3> QED  BY <3>1, <3>2
    <2>6. GoodLock(lock')
      <3>1. lock'.waiting \in Nat
        BY <2>5 DEF LockRecord
      <3> QED  BY <2>2, <2>5, <3>1 DEF GoodLock, Exact
    <2>7. Waiters(lock', pc', orphaned)
      BY <1>3, <2>2, <2>3, <2>5 DEF Waiters
    <2> QED  BY <1>1, <1>3, <2>1, <2>5, <2>6, <2>7, MoveInside
  <1> QED  BY <1>1, <1>2, <1>3 DEF Settle

\* The rest of the round.
LEMMA ResumeKeeps == ASSUME Inv, NEW c \in Connections, Resume(c) PROVE Inv'
  <1>1. pc[c] \in {"woken", "validate"} /\ CanBlock(c) /\ UNCHANGED <<conn, dpc>>
    BY DEF Resume
  <1>2. Entered(c, lock, req[c]) /\ pc[c] # "timedout"
    BY <1>1, EnteredInside
  <1>3. CASE ~orphaned /\ Attempt(c, lock, req[c])
    BY <1>1, <1>2, <1>3, AttemptKeeps
  <1>4. CASE Fail(c, lock, req[c])
    BY <1>1, <1>2, <1>4, FailKeeps
  <1> QED  BY <1>3, <1>4 DEF Resume

\* The table of holders after unlock(id): c is gone, and everyone with it when c
\* was the last.
LEMMA UnlockedHolders ==
    ASSUME NEW l, NEW p, NEW o \in BOOLEAN, LockInv(l, p, o), NEW c \in Connections
    PROVE  /\ \A b \in BOOLEAN : (o => b) => LockInv(Unlocked(l, c), p, b)
           /\ Unlocked(l, c).info[c] = Absent
           /\ \A d \in Connections \ {c} : Unlocked(l, c).info[d] = l.info[d]
           /\ LastUnlock(l, c) => \A d \in Connections : Unlocked(l, c).info[d] = Absent
  <1>1. /\ \A b \in BOOLEAN : (o => b) => LockInv(Unlocked(l, c), p, b)
        /\ Unlocked(l, c).info = [l.info EXCEPT ![c] = Absent]
    BY UnlockedKeeps
  <1>2. l.info \in [Connections -> Modes \cup {Absent}]
    BY DEF LockInv, GoodLock, LockRecord
  <1>3. LastUnlock(l, c) => \A d \in Connections \ {c} : l.info[d] = Absent
    BY DEF LastUnlock, Holders
  <1> QED  BY <1>1, <1>2, <1>3

\* The temporary connection becomes the real one, or is to be cleaned up.
LEMMA EstablishKeeps == ASSUME Inv, NEW c \in Connections, Establish(c) PROVE Inv'
  <1>1. /\ pc[c] = "locked" /\ StateTypes /\ LockInv(lock, pc, orphaned)
        /\ lock' = lock /\ req' = req /\ dpc' = dpc /\ orphaned' = orphaned
    BY DEF Establish, Inv
  <1>2. PICK x \in {"idle", "cleanup"} :
            /\ pc' = [pc EXCEPT ![c] = x]
            /\ x = "idle" => ~orphaned /\ conn' = [conn EXCEPT ![c] = "full"]
            /\ x = "cleanup" => conn' = conn
    BY DEF Establish
  <1>3. Moved(pc, pc', c, x) /\ pc[c] \notin InsidePlaces /\ x \notin InsidePlaces
    BY <1>1, <1>2 DEF Moved, StateTypes, Places, InsidePlaces
  <1>4. LockInv(lock', pc', orphaned')
    BY <1>1, <1>3, MoveOutside
  <1>5. StateTypes'
    BY <1>1, <1>2 DEF StateTypes, Places
  <1>6. /\ pc'[c] = x /\ (x = "idle" => conn'[c] = "full") /\ (x = "cleanup" => conn'[c] = conn[c])
        /\ \A d \in Connections \ {c} : pc'[d] = pc[d] /\ conn'[d] = conn[d]
    BY <1>1, <1>2 DEF StateTypes
  <1>7. OpeningAlone' /\ ChangingOpened'
    BY <1>1, <1>2, <1>6 DEF Inv, ConnInv, OpeningAlone, ChangingOpened, Opening, Connecting, InsidePlaces
  <1>8. OneConnects' /\ FirstAsks'
    BY <1>1, <1>2, <1>6 DEF Inv, ConnInv, OneConnects, FirstAsks, Connecting
  <1>9. OrphanReleased' /\ HoldersLive'
    BY <1>1, <1>2, <1>6 DEF Inv, ConnInv, OrphanReleased, HoldersLive
  <1> QED  BY <1>4, <1>5, <1>7, <1>8, <1>9 DEF Inv, ConnInv

\* A connect that failed releases what it has.
LEMMA CleanupKeeps == ASSUME Inv, NEW c \in Connections, Cleanup(c) PROVE Inv'
  <1>1. /\ pc[c] = "cleanup" /\ StateTypes /\ LockInv(lock, pc, orphaned)
        /\ lock' = Unlocked(lock, c) /\ req' = req /\ dpc' = dpc
        /\ orphaned' = (orphaned \/ LastUnlock(lock, c))
        /\ conn' = [conn EXCEPT ![c] = "none"] /\ pc' = [pc EXCEPT ![c] = "idle"]
        /\ orphaned \in BOOLEAN
    BY DEF Cleanup, Inv, StateTypes
  <1>2. /\ \A b \in BOOLEAN : (orphaned => b) => LockInv(lock', pc, b)
        /\ lock'.info[c] = Absent
        /\ \A d \in Connections \ {c} : lock'.info[d] = lock.info[d]
        /\ LastUnlock(lock, c) => \A d \in Connections : lock'.info[d] = Absent
    BY <1>1, UnlockedHolders
  <1>3. orphaned' \in BOOLEAN /\ (orphaned => orphaned')
    BY <1>1
  <1>4. LockInv(lock', pc, orphaned')
    BY <1>2, <1>3
  <1>5. Moved(pc, pc', c, "idle") /\ pc[c] \notin InsidePlaces /\ "idle" \notin InsidePlaces
    BY <1>1 DEF Moved, StateTypes, Places, InsidePlaces
  <1>6. LockInv(lock', pc', orphaned')
    BY <1>4, <1>5, MoveOutside
  <1>7. StateTypes'
    BY <1>1, <1>3 DEF StateTypes, Places
  <1>8. /\ pc'[c] = "idle" /\ conn'[c] = "none"
        /\ \A d \in Connections \ {c} : pc'[d] = pc[d] /\ conn'[d] = conn[d]
    BY <1>1 DEF StateTypes
  <1>9. OpeningAlone' /\ ChangingOpened'
    BY <1>1, <1>8 DEF Inv, ConnInv, OpeningAlone, ChangingOpened, Opening, Connecting, InsidePlaces
  <1>10. OneConnects' /\ FirstAsks'
    BY <1>1, <1>8 DEF Inv, ConnInv, OneConnects, FirstAsks, Connecting
  <1>11. OrphanReleased'
    BY <1>1, <1>2, <1>8 DEF Inv, ConnInv, OrphanReleased
  <1>12. HoldersLive'
    BY <1>1, <1>2, <1>8 DEF Inv, ConnInv, HoldersLive
  <1> QED  BY <1>6, <1>7, <1>9, <1>10, <1>11, <1>12 DEF Inv, ConnInv

\* A session that ends takes a temporary connection out of the table.
LEMMA AbortTemporaryKeeps == ASSUME Inv, NEW c \in Connections, AbortTemporary(c) PROVE Inv'
  <1>1. /\ conn[c] = "temp" /\ conn' = [conn EXCEPT ![c] = "none"] /\ StateTypes
        /\ lock' = lock /\ pc' = pc /\ req' = req /\ dpc' = dpc /\ orphaned' = orphaned
    BY DEF AbortTemporary, Inv
  <1>2. StateTypes' /\ LockInv(lock', pc', orphaned')
    BY <1>1 DEF Inv, StateTypes
  <1>3. conn'[c] = "none" /\ \A d \in Connections \ {c} : conn'[d] = conn[d]
    BY <1>1 DEF StateTypes
  <1>4. OpeningAlone' /\ ChangingOpened' /\ OneConnects' /\ FirstAsks'
    BY <1>1, <1>3 DEF Inv, ConnInv, OpeningAlone, ChangingOpened, OneConnects, FirstAsks,
       Opening, Connecting
  <1>5. OrphanReleased' /\ HoldersLive'
    BY <1>1, <1>3 DEF Inv, ConnInv, OrphanReleased, HoldersLive
  <1> QED  BY <1>2, <1>4, <1>5 DEF Inv, ConnInv

\* disconnect() takes an open connection out of the table.
LEMMA DisconnectKeeps == ASSUME Inv, NEW c \in Connections, Disconnect(c) PROVE Inv'
  <1> DEFINE x == IF c \in Deleters THEN "drolr" ELSE "unlock"
  <1>1. /\ conn[c] = "full" /\ conn' = [conn EXCEPT ![c] = "none"] /\ StateTypes
        /\ lock' = lock /\ pc' = pc /\ req' = req /\ dpc' = [dpc EXCEPT ![c] = x]
        /\ orphaned' = orphaned
    BY DEF Disconnect, Inv
  <1>2. x \in {"drolr", "unlock"}
    OBVIOUS
  <1> HIDE DEF x
  <1>3. StateTypes' /\ LockInv(lock', pc', orphaned')
    BY <1>1, <1>2 DEF Inv, StateTypes
  <1>4. /\ conn'[c] = "none" /\ dpc'[c] = x
        /\ \A d \in Connections \ {c} : conn'[d] = conn[d] /\ dpc'[d] = dpc[d]
    BY <1>1 DEF StateTypes
  <1>5. OpeningAlone' /\ ChangingOpened' /\ OneConnects' /\ FirstAsks'
    BY <1>1, <1>4 DEF Inv, ConnInv, OpeningAlone, ChangingOpened, OneConnects, FirstAsks,
       Opening, Connecting
  <1>6. OrphanReleased' /\ HoldersLive'
    BY <1>1, <1>2, <1>4 DEF Inv, ConnInv, OrphanReleased, HoldersLive
  <1> QED  BY <1>3, <1>5, <1>6 DEF Inv, ConnInv

\* A lock told to delete the node with its last release is otherwise the same.
LEMMA DrolrKeeps ==
    ASSUME Inv, lock.present, NEW b \in BOOLEAN
    PROVE  /\ LockInv([lock EXCEPT !.drolr = b], pc, orphaned)
           /\ [lock EXCEPT !.drolr = b].info = lock.info
           /\ [lock EXCEPT !.drolr = b].present
  <1> DEFINE l == [lock EXCEPT !.drolr = b]
  <1>1. lock \in LockRecord /\ LockInv(lock, pc, orphaned)
    BY DEF Inv, LockInv, GoodLock
  <1>2. /\ l \in LockRecord /\ l.info = lock.info /\ l.exclusive = lock.exclusive
        /\ l.readLocks = lock.readLocks /\ l.holdLocks = lock.holdLocks
        /\ l.waiting = lock.waiting /\ l.sem = lock.sem
        /\ l.present = lock.present /\ l.pending = lock.pending
    BY <1>1 DEF LockRecord
  <1> HIDE DEF l
  <1>3. GoodLock(l)
    BY <1>1, <1>2 DEF LockInv, GoodLock, Exact
  <1>4. Waiters(l, pc, orphaned)
    BY <1>1, <1>2 DEF LockInv, Waiters
  <1>5. InUse(l, pc)
    BY <1>1, <1>2 DEF LockInv, InUse
  <1> QED  BY <1>2, <1>3, <1>4, <1>5 DEF LockInv, l

\* disconnect() of a connection that deletes on disconnect.
LEMMA SetDROLRKeeps == ASSUME Inv, NEW c \in Connections, SetDROLR(c) PROVE Inv'
  <1>1. /\ dpc[c] = "drolr" /\ StateTypes /\ LockInv(lock, pc, orphaned)
        /\ conn' = conn /\ pc' = pc /\ req' = req /\ orphaned' = orphaned
    BY DEF SetDROLR, Inv
  <1>2. CASE /\ lock.present /\ lock' = [lock EXCEPT !.drolr = TRUE]
             /\ dpc' = [dpc EXCEPT ![c] = "unlock"]
    <2>1. LockInv(lock', pc, orphaned) /\ lock'.info = lock.info
      BY <1>2, DrolrKeeps
    <2>2. StateTypes' /\ dpc'[c] = "unlock" /\ \A d \in Connections \ {c} : dpc'[d] = dpc[d]
      BY <1>1, <1>2 DEF StateTypes
    <2>3. OpeningAlone' /\ ChangingOpened' /\ OneConnects' /\ FirstAsks'
      BY <1>1, <2>2 DEF Inv, ConnInv, OpeningAlone, ChangingOpened, OneConnects, FirstAsks,
         Opening, Connecting
    <2>4. OrphanReleased' /\ HoldersLive'
      BY <1>1, <2>1, <2>2 DEF Inv, ConnInv, OrphanReleased, HoldersLive
    <2> QED  BY <1>1, <2>1, <2>2, <2>3, <2>4 DEF Inv, ConnInv
  <1>3. CASE ~lock.present /\ dpc' = [dpc EXCEPT ![c] = "delete"] /\ lock' = lock
    <2>1. \A d \in Connections : lock'.info[d] = Absent
      BY <1>1, <1>3 DEF LockInv, InUse
    <2>2. StateTypes' /\ dpc'[c] = "delete" /\ \A d \in Connections \ {c} : dpc'[d] = dpc[d]
      BY <1>1, <1>3 DEF StateTypes
    <2>3. OpeningAlone' /\ ChangingOpened' /\ OneConnects' /\ FirstAsks'
      BY <1>1, <2>2 DEF Inv, ConnInv, OpeningAlone, ChangingOpened, OneConnects, FirstAsks,
         Opening, Connecting
    <2>4. OrphanReleased' /\ HoldersLive'
      BY <2>1 DEF OrphanReleased, HoldersLive
    <2> QED  BY <1>1, <1>3, <2>2, <2>3, <2>4 DEF Inv, ConnInv
  <1> QED  BY <1>2, <1>3 DEF SetDROLR

\* disconnect() releases the lock.
LEMMA DisconnectUnlockKeeps == ASSUME Inv, NEW c \in Connections, DisconnectUnlock(c) PROVE Inv'
  <1> DEFINE x == IF LastUnlock(lock, c) THEN "recheck" ELSE "idle"
  <1>1. /\ dpc[c] = "unlock" /\ StateTypes /\ LockInv(lock, pc, orphaned) /\ orphaned \in BOOLEAN
        /\ conn' = conn /\ pc' = pc /\ req' = req /\ orphaned' = orphaned
        /\ lock' = Unlocked(lock, c) /\ dpc' = [dpc EXCEPT ![c] = x]
    BY DEF DisconnectUnlock, Inv, StateTypes
  <1>2. x \in {"recheck", "idle"}
    OBVIOUS
  <1> HIDE DEF x
  <1>3. /\ LockInv(lock', pc, orphaned) /\ lock'.info[c] = Absent
        /\ \A d \in Connections \ {c} : lock'.info[d] = lock.info[d]
    <2>1. /\ \A b \in BOOLEAN : (orphaned => b) => LockInv(Unlocked(lock, c), pc, b)
          /\ Unlocked(lock, c).info[c] = Absent
          /\ \A d \in Connections \ {c} : Unlocked(lock, c).info[d] = lock.info[d]
      BY <1>1, UnlockedHolders
    <2> QED  BY <1>1, <2>1
  <1>4. StateTypes' /\ dpc'[c] = x /\ \A d \in Connections \ {c} : dpc'[d] = dpc[d]
    BY <1>1, <1>2 DEF StateTypes
  <1>5. OpeningAlone' /\ ChangingOpened' /\ OneConnects' /\ FirstAsks'
    BY <1>1, <1>4 DEF Inv, ConnInv, OpeningAlone, ChangingOpened, OneConnects, FirstAsks,
       Opening, Connecting
  <1>6. OrphanReleased' /\ HoldersLive'
    BY <1>1, <1>3, <1>4 DEF Inv, ConnInv, OrphanReleased, HoldersLive
  <1> QED  BY <1>1, <1>3, <1>4, <1>5, <1>6 DEF Inv, ConnInv

\* A disconnect that removes the node, or finds it locked again.
LEMMA DisconnectDeleteKeeps ==
    ASSUME Inv, NEW c \in Connections, DisconnectRecheck(c) \/ DisconnectDelete(c) PROVE Inv'
  <1>1. /\ dpc[c] \in {"recheck", "delete"} /\ StateTypes /\ LockInv(lock, pc, orphaned)
        /\ orphaned \in BOOLEAN /\ conn' = conn /\ pc' = pc /\ req' = req
        /\ dpc' = [dpc EXCEPT ![c] = "idle"]
        /\ RemoveTree(lock) \/ (lock' = lock /\ orphaned' = orphaned)
    BY DEF DisconnectRecheck, DisconnectDelete, Inv, StateTypes
  <1>2. /\ LockInv(lock', pc, orphaned') /\ orphaned' \in BOOLEAN
        /\ \A d \in Connections : lock'.info[d] # Absent => lock.info[d] # Absent
        /\ orphaned' => orphaned \/ \A d \in Connections : lock'.info[d] = Absent
    <2>1. CASE RemoveTree(lock)
      <3>1. /\ LockInv(lock', pc, orphaned') /\ orphaned' \in BOOLEAN /\ orphaned'
            /\ \A d \in Connections : lock'.info[d] # Absent => orphaned /\ lock.info[d] # Absent
        BY <1>1, <2>1, RemoveTreeKeeps
      <3> QED  BY <3>1
    <2>2. CASE lock' = lock /\ orphaned' = orphaned
      BY <1>1, <2>2
    <2> QED  BY <1>1, <2>1, <2>2
  <1>3. StateTypes' /\ dpc'[c] = "idle" /\ \A d \in Connections \ {c} : dpc'[d] = dpc[d]
    BY <1>1, <1>2 DEF StateTypes
  <1>4. OpeningAlone' /\ ChangingOpened' /\ OneConnects' /\ FirstAsks'
    BY <1>1, <1>3 DEF Inv, ConnInv, OpeningAlone, ChangingOpened, OneConnects, FirstAsks,
       Opening, Connecting
  <1>5. OrphanReleased' /\ HoldersLive'
    BY <1>1, <1>2, <1>3 DEF Inv, ConnInv, OrphanReleased, HoldersLive
  <1> QED  BY <1>1, <1>2, <1>3, <1>4, <1>5 DEF Inv, ConnInv

\* disconnect() under the write lock.
LEMMA DisconnectExclusiveKeeps ==
    ASSUME Inv, NEW c \in Connections, NEW b \in BOOLEAN, DisconnectExclusive(c, b) PROVE Inv'
  <1> DEFINE delete == b \/ c \in Deleters
             v == lock.drolr \/ delete
             set == [lock EXCEPT !.drolr = v]
  <1>1. /\ conn[c] = "full" /\ conn' = [conn EXCEPT ![c] = "none"]
        /\ \/ ~lock.present /\ RemoveTree(lock)
           \/ lock.present /\ LastUnlock(set, c) /\ RemoveTree(Unlocked(set, c))
           \/ /\ lock' = IF lock.present THEN Unlocked(set, c) ELSE lock
              /\ orphaned' = orphaned
        /\ pc' = pc /\ req' = req /\ dpc' = dpc
    BY DEF DisconnectExclusive
  <1>2. StateTypes /\ LockInv(lock, pc, orphaned) /\ orphaned \in BOOLEAN
    BY DEF Inv, StateTypes
  <1>3. v \in BOOLEAN
    BY <1>2 DEF LockInv, GoodLock, LockRecord
  <1> HIDE DEF v
  <1>4. lock.present => LockInv(set, pc, orphaned) /\ set.info = lock.info
    BY <1>3, DrolrKeeps
  <1> HIDE DEF set
  <1> DEFINE u == Unlocked(set, c)
  <1>5. lock.present => /\ LockInv(u, pc, orphaned) /\ u.info[c] = Absent
                        /\ \A d \in Connections \ {c} : u.info[d] = lock.info[d]
                        /\ LastUnlock(set, c) => \A d \in Connections : u.info[d] = Absent
    BY <1>2, <1>4, UnlockedHolders
  <1> HIDE DEF u
  <1>6. ~lock.present => \A d \in Connections : lock.info[d] = Absent
    BY <1>2 DEF LockInv, InUse
  <1>7. /\ LockInv(lock', pc, orphaned') /\ orphaned' \in BOOLEAN /\ lock'.info[c] = Absent
        /\ \A d \in Connections : lock'.info[d] # Absent => lock.info[d] # Absent
        /\ orphaned' => orphaned \/ \A d \in Connections : lock'.info[d] = Absent
    <2>1. CASE ~lock.present /\ RemoveTree(lock)
      <3>1. /\ LockInv(lock', pc, orphaned') /\ orphaned' \in BOOLEAN /\ orphaned'
            /\ \A d \in Connections : lock'.info[d] # Absent => orphaned /\ lock.info[d] # Absent
        BY <1>2, <2>1, RemoveTreeKeeps
      <3> QED  BY <1>6, <2>1, <3>1
    <2>2. CASE lock.present /\ LastUnlock(set, c) /\ RemoveTree(u)
      <3>1. LockInv(u, pc, orphaned) /\ \A d \in Connections : u.info[d] = Absent
        BY <1>5, <2>2
      <3>2. /\ LockInv(lock', pc, orphaned') /\ orphaned' \in BOOLEAN /\ orphaned'
            /\ \A d \in Connections : lock'.info[d] # Absent => orphaned /\ u.info[d] # Absent
        BY <1>2, <2>2, <3>1, RemoveTreeKeeps
      <3> QED  BY <3>1, <3>2
    <2>3. CASE lock.present /\ lock' = u /\ orphaned' = orphaned
      BY <1>2, <1>5, <2>3
    <2>4. CASE ~lock.present /\ lock' = lock /\ orphaned' = orphaned
      BY <1>2, <1>6, <2>4
    <2> QED  BY <1>1, <2>1, <2>2, <2>3, <2>4 DEF u
  <1>8. StateTypes' /\ conn'[c] = "none" /\ \A d \in Connections \ {c} : conn'[d] = conn[d]
    BY <1>1, <1>2, <1>7 DEF StateTypes
  <1>9. OpeningAlone' /\ ChangingOpened' /\ OneConnects' /\ FirstAsks'
    BY <1>1, <1>8 DEF Inv, ConnInv, OpeningAlone, ChangingOpened, OneConnects, FirstAsks,
       Opening, Connecting
  <1>10. OrphanReleased' /\ HoldersLive'
    BY <1>1, <1>7, <1>8 DEF Inv, ConnInv, OrphanReleased, HoldersLive
  <1> QED  BY <1>1, <1>7, <1>8, <1>9, <1>10 DEF Inv, ConnInv

\* unlock() by an operator.
LEMMA ForceUnlockKeeps == ASSUME Inv, NEW c \in Connections, ForceUnlock(c) PROVE Inv'
  <1>1. /\ lock' = Unlocked(lock, c) /\ orphaned' = (orphaned \/ LastUnlock(lock, c))
        /\ conn' = conn /\ pc' = pc /\ req' = req /\ dpc' = dpc
        /\ StateTypes /\ LockInv(lock, pc, orphaned) /\ orphaned \in BOOLEAN
    BY DEF ForceUnlock, Inv, StateTypes
  <1>2. /\ \A b \in BOOLEAN : (orphaned => b) => LockInv(lock', pc, b)
        /\ lock'.info[c] = Absent
        /\ \A d \in Connections \ {c} : lock'.info[d] = lock.info[d]
        /\ LastUnlock(lock, c) => \A d \in Connections : lock'.info[d] = Absent
    BY <1>1, UnlockedHolders
  <1>3. orphaned' \in BOOLEAN /\ (orphaned => orphaned')
    BY <1>1
  <1>4. LockInv(lock', pc', orphaned')
    BY <1>1, <1>2, <1>3
  <1>5. StateTypes'
    BY <1>1, <1>3 DEF StateTypes
  <1>6. OpeningAlone' /\ ChangingOpened' /\ OneConnects' /\ FirstAsks'
    BY <1>1 DEF Inv, ConnInv, OpeningAlone, ChangingOpened, OneConnects, FirstAsks,
       Opening, Connecting
  <1>7. OrphanReleased' /\ HoldersLive'
    BY <1>1, <1>2 DEF Inv, ConnInv, OrphanReleased, HoldersLive
  <1> QED  BY <1>4, <1>5, <1>6, <1>7 DEF Inv, ConnInv

\* Every step keeps the invariant.
LEMMA NextInv == Inv /\ [Next]_vars => Inv'
  <1> SUFFICES ASSUME Inv, [Next]_vars PROVE Inv'
    OBVIOUS
  <1>1. CASE UNCHANGED vars
    BY <1>1 DEF vars, Inv, StateTypes, ConnInv, OpeningAlone, ChangingOpened, OneConnects,
       FirstAsks, OrphanReleased, HoldersLive, Opening, Connecting
  <1>2. CASE Next
    <2>1. PICK c \in Connections : Step(c)
      BY <1>2 DEF Next
    <2> QED  BY <2>1, ConnectKeeps, ChangeModeKeeps, FirstTryKeeps, WakeKeeps, TimeoutKeeps,
                SettleKeeps, ResumeKeeps, EstablishKeeps, CleanupKeeps, AbortTemporaryKeeps,
                DisconnectKeeps, SetDROLRKeeps, DisconnectUnlockKeeps, DisconnectDeleteKeeps,
                DisconnectExclusiveKeeps, ForceUnlockKeeps DEF Step
  <1> QED  BY <1>1, <1>2

\* Inv holds in every reachable state.
THEOREM Invariance == Spec => []Inv
  BY InitInv, NextInv, PTL DEF Spec

-----------------------------------------------------------------------------
(* What the invariant says of the lock.                                       *)

\* The variables keep their types: no counter of the lock ever goes below zero.
THEOREM TypeCorrect == Spec => []TypeOK
  <1>1. Inv => TypeOK
    BY DEF Inv, StateTypes, Places, LockInv, GoodLock, LockRecord, TypeOK
  <1> QED  BY <1>1, Invariance, PTL

\* The counters that tryLock() decides by agree with the table of holders, and a
\* writer is alone, for any number of connections.
THEOREM LockIsExact == Spec => []LockExact
  <1>1. Inv => LockExact
    <2> SUFFICES ASSUME Inv PROVE LockExact
      OBVIOUS
    <2>1. /\ Using({"read", "hold"}) = Count(lock.info, {"read", "hold"})
          /\ Using({"hold"}) = Count(lock.info, {"hold"})
          /\ Using({"write"}) = Count(lock.info, {"write"})
      BY DEF Using, Count
    <2>2. Exact(lock) /\ lock.exclusive \in BOOLEAN
      BY DEF Inv, LockInv, GoodLock, LockRecord
    <2>3. lock.exclusive = (Using({"write"}) > 0)
      BY <2>1, <2>2 DEF Exact
    <2>4. Using({"write"}) + lock.readLocks <= 1 \/ ~lock.exclusive
      BY <2>1, <2>2 DEF Exact
    <2> QED  BY <2>1, <2>2, <2>3, <2>4 DEF LockExact, Exact
  <1> QED  BY <1>1, Invariance, PTL

\* A timeout that races a wake-up loses neither the token nor the count: every
\* sleeper is counted in waiting or has a token, for any number of sleepers.
THEOREM WaitersAreExact == Spec => []WaitersExact
  <1>1. Inv => WaitersExact
    <2> SUFFICES ASSUME Inv PROVE WaitersExact
      OBVIOUS
    <2>1. /\ Cardinality(Asleep) = Count(pc, AsleepPlaces)
          /\ Cardinality({c \in Connections : pc[c] = "wait"}) = Count(pc, WaitPlaces)
      <3>1. {c \in Connections : pc[c] = "wait"} = {c \in Connections : pc[c] \in WaitPlaces}
        BY DEF WaitPlaces
      <3> QED  BY <3>1 DEF Asleep, Count, AsleepPlaces
    <2> QED  BY <2>1 DEF Inv, LockInv, Waiters, WaitersExact
  <1> QED  BY <1>1, Invariance, PTL

\* No wake-up is lost: nobody is counted as waiting for a lock that is free.
THEOREM NobodyWaitsForFreeLock == Spec => []NoSleeperOnFreeLock
  <1>1. Inv => NoSleeperOnFreeLock
    BY DEF Inv, LockInv, GoodLock, NoSleeperOnFreeLock
  <1> QED  BY <1>1, Invariance, PTL

\* A lock is destroyed exactly when no thread is inside it and nobody holds it.
THEOREM LockStaysInUse == Spec => []LockInUseStays
  <1>1. Inv => LockInUseStays
    <2> SUFFICES ASSUME Inv PROVE LockInUseStays
      OBVIOUS
    <2>1. Cardinality(Inside) = Count(pc, InsidePlaces)
      BY DEF Inside, Count, InsidePlaces
    <2>2. lock.present <=> (Inside # {} \/ Holders(lock) # {})
      BY DEF Inv, LockInv, InUse, Inside, InsidePlaces, Holders
    <2>3. lock.present \in BOOLEAN /\ lock.pending = Count(pc, InsidePlaces)
      BY DEF Inv, LockInv, InUse, GoodLock, LockRecord
    <2> QED  BY <2>1, <2>2, <2>3 DEF LockInUseStays
  <1> QED  BY <1>1, Invariance, PTL

\* No lock is left to a connection that is gone and has no release before it.
THEOREM NoLockLeftBehind == Spec => []NoDeadHolder
  <1>1. Inv => NoDeadHolder
    BY DEF Inv, ConnInv, HoldersLive, NoDeadHolder, Holders
  <1> QED  BY <1>1, Invariance, PTL

\* The last to unlock a node deletes it only if no other connection has locked it
\* since, in the window in which changeToWrite() lets go of dataRWLock.
THEOREM LastDeletes == Spec => LastDeletesUnlocked
  <1> DEFINE Safe == \A c \in Connections :
                         DeletedBy(c) /\ dpc[c] # "delete" => Holders(lock) \subseteq {c}
  <1>1. ASSUME Inv, Next PROVE Safe
    <2>1. PICK e \in Connections : Step(e)
      BY <1>1 DEF Next
    <2> SUFFICES ASSUME NEW c \in Connections, DeletedBy(c), dpc[c] # "delete"
                 PROVE  Holders(lock) \subseteq {c}
      OBVIOUS
    <2>2. /\ ~orphaned /\ orphaned' /\ (dpc'[c] # dpc[c] \/ conn'[c] # conn[c])
          /\ StateTypes /\ LockInv(lock, pc, orphaned)
      BY <1>1 DEF DeletedBy, Inv
    <2>3. CASE Cleanup(e)
      <3>1. LastUnlock(lock, e) /\ c = e
        BY <2>2, <2>3 DEF Cleanup, StateTypes
      <3> QED  BY <3>1 DEF LastUnlock
    <2>4. CASE DisconnectRecheck(e)
      BY <2>2, <2>4 DEF DisconnectRecheck, StillLast
    <2>5. CASE DisconnectDelete(e)
      BY <2>2, <2>5 DEF DisconnectDelete, StateTypes
    <2>6. ASSUME NEW b \in BOOLEAN, DisconnectExclusive(e, b)
          PROVE  Holders(lock) \subseteq {c}
      <3> DEFINE set == [lock EXCEPT !.drolr = @ \/ (b \/ e \in Deleters)]
      <3>1. c = e /\ (~lock.present \/ LastUnlock(set, e))
        BY <2>2, <2>6 DEF DisconnectExclusive, StateTypes
      <3>2. CASE ~lock.present
        BY <2>2, <3>2 DEF LockInv, InUse, Holders
      <3>3. CASE LastUnlock(set, e)
        <4>1. set.info = lock.info
          BY <2>2 DEF LockInv, GoodLock, LockRecord
        <4> QED  BY <3>1, <3>3, <4>1 DEF LastUnlock, Holders
      <3> QED  BY <3>1, <3>2, <3>3
    <2>7. CASE \/ \E m \in Modes : Connect(e, m) \/ ChangeMode(e, m)
               \/ FirstTry(e) \/ Wake(e) \/ Timeout(e) \/ Settle(e) \/ Resume(e)
               \/ Establish(e) \/ AbortTemporary(e) \/ Disconnect(e) \/ SetDROLR(e)
               \/ DisconnectUnlock(e) \/ ForceUnlock(e)
      <3>1. orphaned' = orphaned \/ (dpc' = dpc /\ conn' = conn)
        BY <2>7 DEF Connect, ChangeMode, FirstTry, Wake, Timeout, Settle, Resume, Establish,
           AbortTemporary, Disconnect, SetDROLR, DisconnectUnlock, ForceUnlock
      <3> QED  BY <2>2, <3>1
    <2> QED  BY <2>1, <2>3, <2>4, <2>5, <2>6, <2>7 DEF Step
  <1>2. Inv /\ [Next]_vars => [Safe]_vars
    BY <1>1
  <1> QED  BY <1>2, Invariance, PTL DEF Spec, LastDeletesUnlocked
=============================================================================
