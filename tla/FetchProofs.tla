---------------------------- MODULE FetchProofs ----------------------------
(***************************************************************************)
(* The fetch keeps its types and its inductive invariant for every number  *)
(* of calls and coordinates, every capacity of the semaphore, and every    *)
(* mix of online and offline, strict and tolerant, sound and faulty calls. *)
(***************************************************************************)
EXTENDS FetchReplay, FiniteSetTheorems, WellFoundedInduction, TLAPS

USE FetchAssumption

\* The goroutines holding the semaphore are finitely many.
LEMMA FetchingFinite ==
    ASSUME NEW k \in Call
    PROVE  IsFiniteSet(Fetching(k)) /\ Cardinality(Fetching(k)) \in Nat
<1>1. IsFiniteSet(Coord)
  BY FS_Interval DEF Coord
<1>2. Fetching(k) \subseteq Coord
  BY DEF Fetching
<1>3. QED BY <1>1, <1>2, FS_Subset, FS_CardinalityType

LEMMA TornType == Torn \in Entry /\ ~GetRaw(Torn)
BY DEF Torn, Entry, GetRaw

\* A whole entry is a stored one.
LEMMA WholeIsStored ==
    ASSUME NEW e \in Entry, GetRaw(e)
    PROVE  e \in Stored /\ e.doc \in Coord
<1>1. e # Absent /\ e # Torn
  BY DEF GetRaw, Torn
<1>2. e \in Stored
  BY <1>1 DEF Entry
<1>3. QED BY <1>2 DEF Stored

\* Adding one to a counter that is below the number of coordinates.
LEMMA Bump ==
    ASSUME NEW s \in Counter
    PROVE  /\ s.cache < N => LET t == [s EXCEPT !.cache = s.cache + 1]
                             IN  /\ t \in Counter /\ t.cache = s.cache + 1 /\ t.net = s.net
                                 /\ t.notfound = s.notfound /\ t.gaps = s.gaps
           /\ s.net < N => LET t == [s EXCEPT !.net = s.net + 1]
                           IN  /\ t \in Counter /\ t.net = s.net + 1 /\ t.cache = s.cache
                               /\ t.notfound = s.notfound /\ t.gaps = s.gaps
           /\ s.notfound < N => LET t == [s EXCEPT !.notfound = s.notfound + 1]
                                IN  /\ t \in Counter /\ t.notfound = s.notfound + 1
                                    /\ t.cache = s.cache /\ t.net = s.net /\ t.gaps = s.gaps
           /\ s.gaps < N => LET t == [s EXCEPT !.gaps = s.gaps + 1]
                            IN  /\ t \in Counter /\ t.gaps = s.gaps + 1 /\ t.cache = s.cache
                                /\ t.net = s.net /\ t.notfound = s.notfound
BY DEF Counter

\* A step that starts and ends no request leaves the semaphore as it is.
LEMMA QuietWorkers ==
    ASSUME NEW k \in Call, SlotBound(k), worker'[k] = worker[k]
    PROVE  SlotBound(k)'
<1>1. Fetching(k)' = Fetching(k)
  BY DEF Fetching
<1>2. QED BY <1>1 DEF SlotBound


\* The state of one call, and that a step leaves it alone.
SameCall(j) ==
    /\ pc'[j] = pc[j] /\ at'[j] = at[j] /\ missed'[j] = missed[j]
    /\ worker'[j] = worker[j] /\ slot'[j] = slot[j] /\ out'[j] = out[j]
    /\ stats'[j] = stats[j] /\ errsBy'[j] = errsBy[j] /\ writing'[j] = writing[j]

\* No call writes another's state: only the cache is shared.
LEMMA Frame ==
    ASSUME TypeOK, NEW k \in Call, Start(k) \/ Progress(k) \/ Crash(k),
           NEW j \in Call \ {k}
    PROVE  SameCall(j)
<1>1. CASE Start(k)
  BY <1>1 DEF TypeOK, SameCall, Start
<1>2. CASE Crash(k)
  BY <1>2 DEF TypeOK, SameCall, Crash
<1>3. ASSUME NEW c \in Coord, Acquire(k, c) \/ Finish(k, c)
      PROVE  SameCall(j)
  BY <1>3 DEF TypeOK, SameCall, Acquire, Finish
<1>4. CASE LookupHit(k) \/ LookupMiss(k) \/ Spawn(k) \/ Wait(k)
  BY <1>4 DEF TypeOK, SameCall, LookupHit, LookupMiss, Spawn, Wait
<1>5. CASE FoldNotFound(k) \/ FoldFailed(k) \/ FoldSkip(k) \/ Write(k) \/ Return(k)
  BY <1>5 DEF TypeOK, SameCall, FoldNotFound, FoldFailed, FoldSkip, Write, Return
<1>6. CASE FoldOpen(k) \/ FoldUnwritten(k)
  BY <1>6 DEF TypeOK, SameCall, FoldOpen, FoldUnwritten, Fold
<1>7. QED BY <1>1, <1>2, <1>3, <1>4, <1>5, <1>6 DEF Progress

LEMMA SameCallInv ==
    ASSUME NEW j \in Call, SameCall(j), CallInv(j)
    PROVE  CallInv(j)'
<1> USE DEF SameCall
<1>1. Fetching(j)' = Fetching(j)
  BY DEF Fetching
<1>2. SlotBound(j)'
  BY <1>1 DEF CallInv, SlotBound
<1>3. \A c \in Coord : /\ Good(j, c)' = Good(j, c)
                       /\ Failed(j, c)' = Failed(j, c)
                       /\ Folded(j, c)' = Folded(j, c)
  BY DEF Good, Failed, Folded
<1>4. Joined(j)'
  BY DEF CallInv, Joined, AllDone
<1>5. NothingLost(j)'
  BY <1>3 DEF CallInv, NothingLost, Good, Failed, Folded
<1>6. OneFile(j)'
  BY <1>3 DEF CallInv, OneFile, Good, Failed
<1>7. Counting(j)'
  BY DEF CallInv, Counting
<1>8. QED BY <1>2, <1>4, <1>5, <1>6, <1>7 DEF CallInv

-----------------------------------------------------------------------------
\* A step of one call keeps everything if it keeps the types, the shared cache's
\* honesty and its own part of the invariant.
LEMMA OwnPartSuffices ==
    ASSUME IInv, NEW k \in Call, Start(k) \/ Progress(k) \/ Crash(k),
           TypeOK', Honest', CallInv(k)'
    PROVE  IInv'
BY Frame, SameCallInv DEF IInv

\* The serial pass over the cache (coordfetch.go:40-58).
LEMMA LookupStep ==
    ASSUME IInv, NEW k \in Call,
           Start(k) \/ LookupHit(k) \/ LookupMiss(k) \/ Spawn(k)
    PROVE  IInv'
<1>1. TypeOK /\ Honest /\ CallInv(k)
  BY DEF IInv
<1>2. CASE Start(k)
  <2>1. TypeOK'
    BY <1>1, <1>2, TornType DEF TypeOK, CallInv, Counting, Coord, Joined, OneFile, Place, Slot, Worker, Counter, Start
  <2>2. Honest'
    BY <1>1, <1>2, TornType, WholeIsStored DEF Honest, OneFile, CallInv, GetRaw, Entry, Stored, TypeOK, Start
  <2>3. SlotBound(k)'
    BY <1>1, <1>2, QuietWorkers DEF CallInv, Start
  <2>4. Joined(k)'
    BY <1>1, <1>2 DEF TypeOK, CallInv, Coord, Joined, AllDone, Start
  <2>5. NothingLost(k)'
    BY <1>1, <1>2 DEF TypeOK, CallInv, Coord, NothingLost, Folded, Failed, Good, Joined, AllDone, OneFile, Counting, Start
  <2>6. OneFile(k)'
    BY <1>1, <1>2 DEF TypeOK, CallInv, Coord, OneFile, Good, Failed, Start
  <2>7. Counting(k)'
    BY <1>1, <1>2 DEF TypeOK, CallInv, Coord, Counting, Joined, OneFile, Counter, Start
  <2>8. QED
    BY <1>1, <1>2, <2>1, <2>2, <2>3, <2>4, <2>5, <2>6, <2>7, OwnPartSuffices
       DEF CallInv, Progress
<1>3. CASE LookupHit(k)
  <2> DEFINE t == [stats[k] EXCEPT !.cache = stats[k].cache + 1]
  <2>a. stats[k] \in Counter /\ at[k] \in Nat /\ stats[k].cache < N
    BY <1>1, <1>3 DEF TypeOK, CallInv, Counting, Joined, Coord, Counter, LookupHit, Hit, Read, Key
  <2>b. stats' = [stats EXCEPT ![k] = t]
    BY <1>1, <1>3, <2>a DEF TypeOK, Counter, LookupHit, Hit, Read, Key
  <2>c. stats' \in [Call -> Counter] /\ stats'[k] = t /\ t \in Counter
    BY <1>1, <1>3, <2>a, <2>b, Bump DEF TypeOK
  <2>d. /\ t.cache = stats[k].cache + 1
        /\ t.net = stats[k].net /\ t.notfound = stats[k].notfound /\ t.gaps = stats[k].gaps
    BY <2>a, Bump
  <2> HIDE DEF t
  <2>e. Read(cache[Key(at[k])]) \in Coord \cup {None}
    BY <1>1, <1>3, <2>c, WholeIsStored DEF TypeOK, LookupHit, Hit, Read, Key, Coord, CallInv, Counting
  <2>1. TypeOK'
    BY <1>1, <1>3, <2>c, <2>e, TornType DEF TypeOK, CallInv, Counting, Coord, Joined, OneFile, Place, Slot, Worker, LookupHit, Key
  <2>2. Honest'
    BY <1>1, <1>3, <2>c, <2>e, TornType, WholeIsStored DEF Honest, OneFile, CallInv, GetRaw, Entry, Stored, TypeOK, LookupHit, Hit, Read, Key
  <2>3. SlotBound(k)'
    BY <1>1, <1>3, <2>c, <2>e, QuietWorkers DEF CallInv, LookupHit, Hit, Read, Key
  <2>4. Joined(k)'
    BY <1>1, <1>3, <2>c, <2>e DEF TypeOK, CallInv, Coord, Joined, AllDone, LookupHit, Hit, Read, Key
  <2>5. NothingLost(k)'
    BY <1>1, <1>3, <2>c, <2>e DEF TypeOK, CallInv, Coord, NothingLost, Folded, Failed, Good, Joined, AllDone, OneFile, Counting, LookupHit, Hit, Read, Key
  <2>6. OneFile(k)'
    BY <1>1, <1>3, <2>c, <2>e DEF TypeOK, CallInv, Coord, OneFile, Good, Failed, LookupHit, Hit, Read, Key
  <2>7. Counting(k)'
    BY <1>1, <1>3, <2>c, <2>e, <2>a, <2>d DEF TypeOK, CallInv, Coord, Counting, Joined, OneFile, Counter, LookupHit, Hit, Read, Key
  <2>8. QED
    BY <1>1, <1>3, <2>c, <2>e, <2>1, <2>2, <2>3, <2>4, <2>5, <2>6, <2>7, OwnPartSuffices
       DEF CallInv, Progress
<1>4. CASE LookupMiss(k)
  <2> DEFINE t == IF k \in Offline THEN [stats[k] EXCEPT !.gaps = stats[k].gaps + 1] ELSE stats[k]
  <2>a. stats[k] \in Counter /\ at[k] \in Nat /\ stats[k].gaps < N
    BY <1>1, <1>4 DEF TypeOK, CallInv, Counting, Joined, Coord, Counter, LookupMiss, Misses
  <2>b. stats' = [stats EXCEPT ![k] = t]
    BY <1>1, <1>4, <2>a DEF TypeOK, Counter, LookupMiss, Misses
  <2>c. stats' \in [Call -> Counter] /\ stats'[k] = t /\ t \in Counter
    BY <1>1, <1>4, <2>a, <2>b, Bump DEF TypeOK
  <2>d. /\ t.gaps = (IF k \in Offline THEN stats[k].gaps + 1 ELSE stats[k].gaps)
        /\ t.cache = stats[k].cache /\ t.net = stats[k].net /\ t.notfound = stats[k].notfound
    BY <2>a, Bump
  <2> HIDE DEF t
  <2>1. TypeOK'
    BY <1>1, <1>4, <2>c, TornType DEF TypeOK, CallInv, Counting, Coord, Joined, OneFile, Place, Slot, Worker, LookupMiss, Misses
  <2>2. Honest'
    BY <1>1, <1>4, <2>c, TornType, WholeIsStored DEF Honest, OneFile, CallInv, GetRaw, Entry, Stored, TypeOK, LookupMiss, Misses
  <2>3. SlotBound(k)'
    BY <1>1, <1>4, <2>c, QuietWorkers DEF CallInv, LookupMiss, Misses
  <2>4. Joined(k)'
    BY <1>1, <1>4, <2>c DEF TypeOK, CallInv, Coord, Joined, AllDone, LookupMiss, Misses
  <2>5. NothingLost(k)'
    BY <1>1, <1>4, <2>c DEF TypeOK, CallInv, Coord, NothingLost, Folded, Failed, Good, Joined, AllDone, OneFile, Counting, LookupMiss, Misses
  <2>6. OneFile(k)'
    BY <1>1, <1>4, <2>c DEF TypeOK, CallInv, Coord, OneFile, Good, Failed, LookupMiss, Misses
  <2>7. Counting(k)'
    BY <1>1, <1>4, <2>c, <2>a, <2>d DEF TypeOK, CallInv, Coord, Counting, Joined, OneFile, Counter, LookupMiss, Misses
  <2>8. QED
    BY <1>1, <1>4, <2>c, <2>1, <2>2, <2>3, <2>4, <2>5, <2>6, <2>7, OwnPartSuffices
       DEF CallInv, Progress
<1>5. CASE Spawn(k)
  <2>1. TypeOK'
    BY <1>1, <1>5, TornType DEF TypeOK, CallInv, Counting, Coord, Joined, OneFile, Place, Slot, Worker, Counter, Spawn
  <2>2. Honest'
    BY <1>1, <1>5, TornType, WholeIsStored DEF Honest, OneFile, CallInv, GetRaw, Entry, Stored, TypeOK, Spawn
  <2>3. SlotBound(k)'
    <3>1. Fetching(k)' = {}
      BY <1>1, <1>5 DEF TypeOK, Spawn, Fetching
    <3>2. QED BY <3>1, FS_EmptySet DEF SlotBound
  <2>4. Joined(k)'
    BY <1>1, <1>5 DEF TypeOK, CallInv, Coord, Joined, AllDone, Spawn
  <2>5. NothingLost(k)'
    BY <1>1, <1>5 DEF TypeOK, CallInv, Coord, NothingLost, Folded, Failed, Good, Joined, AllDone, OneFile, Counting, Spawn
  <2>6. OneFile(k)'
    BY <1>1, <1>5 DEF TypeOK, CallInv, Coord, OneFile, Good, Failed, Spawn
  <2>7. Counting(k)'
    BY <1>1, <1>5 DEF TypeOK, CallInv, Coord, Counting, Joined, OneFile, Counter, Spawn
  <2>8. QED
    BY <1>1, <1>5, <2>1, <2>2, <2>3, <2>4, <2>5, <2>6, <2>7, OwnPartSuffices
       DEF CallInv, Progress
<1>6. QED BY <1>2, <1>3, <1>4, <1>5

\* The goroutines and the wait for them (coordfetch.go:74-89).
LEMMA WorkerStep ==
    ASSUME IInv, NEW k \in Call,
           (\E c \in Coord : Acquire(k, c)) \/
           (\E c \in Coord : Finish(k, c)) \/ Wait(k)
    PROVE  IInv'
<1>1. TypeOK /\ Honest /\ CallInv(k)
  BY DEF IInv
<1>2. ASSUME NEW c \in Coord, Acquire(k, c) PROVE IInv'
  <2>1. TypeOK'
    BY <1>1, <1>2, TornType DEF TypeOK, CallInv, Counting, Coord, Joined, OneFile, Place, Slot, Worker, Counter, Acquire
  <2>2. Honest'
    BY <1>1, <1>2, TornType, WholeIsStored DEF Honest, OneFile, CallInv, GetRaw, Entry, Stored, TypeOK, Acquire
  <2>3. SlotBound(k)'
    <3>1. Fetching(k)' = Fetching(k) \cup {c} /\ c \notin Fetching(k)
      BY <1>1, <1>2 DEF TypeOK, Acquire, Fetching
    <3>2. Cardinality(Fetching(k)') = Cardinality(Fetching(k)) + 1
      BY <3>1, FetchingFinite, FS_AddElement
    <3>3. Cardinality(Fetching(k)) < Limit
      BY <1>2 DEF Acquire
    <3>4. QED BY <3>2, <3>3, FetchingFinite DEF SlotBound
  <2>4. Joined(k)'
    BY <1>1, <1>2 DEF TypeOK, CallInv, Coord, Joined, AllDone, Acquire
  <2>5. NothingLost(k)'
    BY <1>1, <1>2 DEF TypeOK, CallInv, Coord, NothingLost, Folded, Failed, Good, Joined, AllDone, OneFile, Counting, Acquire
  <2>6. OneFile(k)'
    BY <1>1, <1>2 DEF TypeOK, CallInv, Coord, OneFile, Good, Failed, Acquire
  <2>7. Counting(k)'
    BY <1>1, <1>2 DEF TypeOK, CallInv, Coord, Counting, Joined, OneFile, Counter, Acquire
  <2>8. QED
    BY <1>1, <1>2, <2>1, <2>2, <2>3, <2>4, <2>5, <2>6, <2>7, OwnPartSuffices
       DEF CallInv, Progress
<1>3. ASSUME NEW c \in Coord, Finish(k, c) PROVE IInv'
  <2>a. PICK r \in Outcomes(c) : slot' = [slot EXCEPT ![k][c] = r]
    BY <1>1, <1>3 DEF Finish
  <2>b. r \in Slot
    BY DEF Outcomes, Slot
  <2>c. slot' \in [Call -> [Coord -> Slot]]
    BY <1>1, <2>a, <2>b DEF TypeOK
  <2>1. TypeOK'
    BY <1>1, <1>3, <2>c, TornType DEF TypeOK, CallInv, Counting, Coord, Joined, OneFile, Place, Slot, Worker, Counter, Finish, Outcomes
  <2>2. Honest'
    BY <1>1, <1>3, <2>c, TornType, WholeIsStored DEF Honest, OneFile, CallInv, GetRaw, Entry, Stored, TypeOK, Finish, Outcomes
  <2>3. SlotBound(k)'
    <3>1. Fetching(k)' \subseteq Fetching(k)
      BY <1>1, <1>3 DEF TypeOK, Finish, Fetching
    <3>2. /\ IsFiniteSet(Fetching(k)') /\ Cardinality(Fetching(k)') \in Nat
          /\ Cardinality(Fetching(k)') <= Cardinality(Fetching(k))
      BY <3>1, FetchingFinite, FS_Subset, FS_CardinalityType
    <3>3. QED BY <1>1, <3>2, FetchingFinite DEF CallInv, SlotBound
  <2>4. Joined(k)'
    BY <1>1, <1>3, <2>c DEF TypeOK, CallInv, Coord, Joined, AllDone, Finish, Outcomes
  <2>5. NothingLost(k)'
    BY <1>1, <1>3, <2>c DEF TypeOK, CallInv, Coord, NothingLost, Folded, Failed, Good, Joined, AllDone, OneFile, Counting, Finish, Outcomes
  <2>6. OneFile(k)'
    BY <1>1, <1>3, <2>c DEF TypeOK, CallInv, Coord, OneFile, Good, Failed, Finish, Outcomes
  <2>7. Counting(k)'
    BY <1>1, <1>3, <2>c DEF TypeOK, CallInv, Coord, Counting, Joined, OneFile, Counter, Finish, Outcomes
  <2>8. QED
    BY <1>1, <1>3, <2>c, <2>1, <2>2, <2>3, <2>4, <2>5, <2>6, <2>7, OwnPartSuffices
       DEF CallInv, Progress
<1>4. CASE Wait(k)
  <2>1. TypeOK'
    BY <1>1, <1>4, TornType DEF TypeOK, CallInv, Counting, Coord, Joined, OneFile, Place, Slot, Worker, Counter, Wait
  <2>2. Honest'
    BY <1>1, <1>4, TornType, WholeIsStored DEF Honest, OneFile, CallInv, GetRaw, Entry, Stored, TypeOK, Wait
  <2>3. SlotBound(k)'
    BY <1>1, <1>4, QuietWorkers DEF CallInv, Wait
  <2>4. Joined(k)'
    BY <1>1, <1>4 DEF TypeOK, CallInv, Coord, Joined, AllDone, Wait
  <2>5. NothingLost(k)'
    BY <1>1, <1>4 DEF TypeOK, CallInv, Coord, NothingLost, Folded, Failed, Good, Joined, AllDone, OneFile, Counting, Wait
  <2>6. OneFile(k)'
    BY <1>1, <1>4 DEF TypeOK, CallInv, Coord, OneFile, Good, Failed, Wait
  <2>7. Counting(k)'
    BY <1>1, <1>4 DEF TypeOK, CallInv, Coord, Counting, Joined, OneFile, Counter, Wait
  <2>8. QED
    BY <1>1, <1>4, <2>1, <2>2, <2>3, <2>4, <2>5, <2>6, <2>7, OwnPartSuffices
       DEF CallInv, Progress
<1>5. QED BY <1>2, <1>3, <1>4

\* The fold of the result slots (coordfetch.go:91-107).
LEMMA FoldStep ==
    ASSUME IInv, NEW k \in Call,
           FoldNotFound(k) \/ FoldFailed(k) \/ FoldOpen(k) \/
           FoldUnwritten(k) \/ FoldSkip(k) \/ Write(k) \/ Return(k)
    PROVE  IInv'
<1>1. TypeOK /\ Honest /\ CallInv(k)
  BY DEF IInv
<1>2. CASE FoldNotFound(k)
  <2> DEFINE t == [stats[k] EXCEPT !.notfound = stats[k].notfound + 1]
  <2>a. stats[k] \in Counter /\ at[k] \in Nat /\ stats[k].notfound < N
    BY <1>1, <1>2 DEF TypeOK, CallInv, Counting, Joined, Coord, Counter, FoldNotFound
  <2>b. stats' = [stats EXCEPT ![k] = t]
    BY <1>1, <1>2, <2>a DEF TypeOK, Counter, FoldNotFound
  <2>c. stats' \in [Call -> Counter] /\ stats'[k] = t /\ t \in Counter
    BY <1>1, <1>2, <2>a, <2>b, Bump DEF TypeOK
  <2>d. /\ t.notfound = stats[k].notfound + 1
        /\ t.cache = stats[k].cache /\ t.net = stats[k].net /\ t.gaps = stats[k].gaps
    BY <2>a, Bump
  <2> HIDE DEF t
  <2>1. TypeOK'
    BY <1>1, <1>2, <2>c, TornType DEF TypeOK, CallInv, Counting, Coord, Joined, OneFile, Place, Slot, Worker, FoldNotFound
  <2>2. Honest'
    BY <1>1, <1>2, <2>c, TornType, WholeIsStored DEF Honest, OneFile, CallInv, GetRaw, Entry, Stored, TypeOK, FoldNotFound
  <2>3. SlotBound(k)'
    BY <1>1, <1>2, <2>c, QuietWorkers DEF CallInv, FoldNotFound
  <2>4. Joined(k)'
    BY <1>1, <1>2, <2>c DEF TypeOK, CallInv, Coord, Joined, AllDone, FoldNotFound
  <2>5. NothingLost(k)'
    BY <1>1, <1>2, <2>c DEF TypeOK, CallInv, Coord, NothingLost, Folded, Failed, Good, Joined, AllDone, OneFile, Counting, FoldNotFound
  <2>6. OneFile(k)'
    BY <1>1, <1>2, <2>c DEF TypeOK, CallInv, Coord, OneFile, Good, Failed, FoldNotFound
  <2>7. Counting(k)'
    BY <1>1, <1>2, <2>c, <2>a, <2>d DEF TypeOK, CallInv, Coord, Counting, Joined, OneFile, Counter, FoldNotFound
  <2>8. QED
    BY <1>1, <1>2, <2>c, <2>1, <2>2, <2>3, <2>4, <2>5, <2>6, <2>7, OwnPartSuffices
       DEF CallInv, Progress
<1>3. CASE FoldFailed(k)
  <2> DEFINE t == [stats[k] EXCEPT !.gaps = stats[k].gaps + 1]
  <2>a. stats[k] \in Counter /\ at[k] \in Nat /\ stats[k].gaps < N
    BY <1>1, <1>3 DEF TypeOK, CallInv, Counting, Joined, Coord, Counter, FoldFailed
  <2>b. stats' = [stats EXCEPT ![k] = t]
    BY <1>1, <1>3, <2>a DEF TypeOK, Counter, FoldFailed
  <2>c. stats' \in [Call -> Counter] /\ stats'[k] = t /\ t \in Counter
    BY <1>1, <1>3, <2>a, <2>b, Bump DEF TypeOK
  <2>d. /\ t.gaps = stats[k].gaps + 1
        /\ t.cache = stats[k].cache /\ t.net = stats[k].net /\ t.notfound = stats[k].notfound
    BY <2>a, Bump
  <2> HIDE DEF t
  <2>1. TypeOK'
    BY <1>1, <1>3, <2>c, TornType DEF TypeOK, CallInv, Counting, Coord, Joined, OneFile, Place, Slot, Worker, FoldFailed
  <2>2. Honest'
    BY <1>1, <1>3, <2>c, TornType, WholeIsStored DEF Honest, OneFile, CallInv, GetRaw, Entry, Stored, TypeOK, FoldFailed
  <2>3. SlotBound(k)'
    BY <1>1, <1>3, <2>c, QuietWorkers DEF CallInv, FoldFailed
  <2>4. Joined(k)'
    BY <1>1, <1>3, <2>c DEF TypeOK, CallInv, Coord, Joined, AllDone, FoldFailed
  <2>5. NothingLost(k)'
    BY <1>1, <1>3, <2>c DEF TypeOK, CallInv, Coord, NothingLost, Folded, Failed, Good, Joined, AllDone, OneFile, Counting, FoldFailed
  <2>6. OneFile(k)'
    BY <1>1, <1>3, <2>c DEF TypeOK, CallInv, Coord, OneFile, Good, Failed, FoldFailed
  <2>7. Counting(k)'
    BY <1>1, <1>3, <2>c, <2>a, <2>d DEF TypeOK, CallInv, Coord, Counting, Joined, OneFile, Counter, FoldFailed
  <2>8. QED
    BY <1>1, <1>3, <2>c, <2>1, <2>2, <2>3, <2>4, <2>5, <2>6, <2>7, OwnPartSuffices
       DEF CallInv, Progress
<1>4. CASE FoldOpen(k)
  <2> DEFINE t == [stats[k] EXCEPT !.net = stats[k].net + 1]
  <2>a. stats[k] \in Counter /\ at[k] \in Nat /\ stats[k].net < N
    BY <1>1, <1>4 DEF TypeOK, CallInv, Counting, Joined, Coord, Counter, FoldOpen, Fold, Key
  <2>b. stats' = [stats EXCEPT ![k] = t]
    BY <1>1, <1>4, <2>a DEF TypeOK, Counter, FoldOpen, Fold, Key
  <2>c. stats' \in [Call -> Counter] /\ stats'[k] = t /\ t \in Counter
    BY <1>1, <1>4, <2>a, <2>b, Bump DEF TypeOK
  <2>d. /\ t.net = stats[k].net + 1
        /\ t.cache = stats[k].cache /\ t.notfound = stats[k].notfound /\ t.gaps = stats[k].gaps
    BY <2>a, Bump
  <2> HIDE DEF t
  <2>1. TypeOK'
    BY <1>1, <1>4, <2>c, TornType DEF TypeOK, CallInv, Counting, Coord, Joined, OneFile, Place, Slot, Worker, FoldOpen, Fold, Key
  <2>2. Honest'
    BY <1>1, <1>4, <2>c, TornType, WholeIsStored DEF Honest, OneFile, CallInv, GetRaw, Entry, Stored, TypeOK, FoldOpen, Fold, Key
  <2>3. SlotBound(k)'
    BY <1>1, <1>4, <2>c, QuietWorkers DEF CallInv, FoldOpen, Fold, Key
  <2>4. Joined(k)'
    BY <1>1, <1>4, <2>c DEF TypeOK, CallInv, Coord, Joined, AllDone, FoldOpen, Fold, Key
  <2>5. NothingLost(k)'
    BY <1>1, <1>4, <2>c DEF TypeOK, CallInv, Coord, NothingLost, Folded, Failed, Good, Joined, AllDone, OneFile, Counting, FoldOpen, Fold, Key
  <2>6. OneFile(k)'
    BY <1>1, <1>4, <2>c DEF TypeOK, CallInv, Coord, OneFile, Good, Failed, FoldOpen, Fold, Key
  <2>7. Counting(k)'
    BY <1>1, <1>4, <2>c, <2>a, <2>d DEF TypeOK, CallInv, Coord, Counting, Joined, OneFile, Counter, FoldOpen, Fold, Key
  <2>8. QED
    BY <1>1, <1>4, <2>c, <2>1, <2>2, <2>3, <2>4, <2>5, <2>6, <2>7, OwnPartSuffices
       DEF CallInv, Progress
<1>5. CASE FoldUnwritten(k)
  <2> DEFINE t == [stats[k] EXCEPT !.net = stats[k].net + 1]
  <2>a. stats[k] \in Counter /\ at[k] \in Nat /\ stats[k].net < N
    BY <1>1, <1>5 DEF TypeOK, CallInv, Counting, Joined, Coord, Counter, FoldUnwritten, Fold
  <2>b. stats' = [stats EXCEPT ![k] = t]
    BY <1>1, <1>5, <2>a DEF TypeOK, Counter, FoldUnwritten, Fold
  <2>c. stats' \in [Call -> Counter] /\ stats'[k] = t /\ t \in Counter
    BY <1>1, <1>5, <2>a, <2>b, Bump DEF TypeOK
  <2>d. /\ t.net = stats[k].net + 1
        /\ t.cache = stats[k].cache /\ t.notfound = stats[k].notfound /\ t.gaps = stats[k].gaps
    BY <2>a, Bump
  <2> HIDE DEF t
  <2>1. TypeOK'
    BY <1>1, <1>5, <2>c, TornType DEF TypeOK, CallInv, Counting, Coord, Joined, OneFile, Place, Slot, Worker, FoldUnwritten, Fold
  <2>2. Honest'
    BY <1>1, <1>5, <2>c, TornType, WholeIsStored DEF Honest, OneFile, CallInv, GetRaw, Entry, Stored, TypeOK, FoldUnwritten, Fold
  <2>3. SlotBound(k)'
    BY <1>1, <1>5, <2>c, QuietWorkers DEF CallInv, FoldUnwritten, Fold
  <2>4. Joined(k)'
    BY <1>1, <1>5, <2>c DEF TypeOK, CallInv, Coord, Joined, AllDone, FoldUnwritten, Fold
  <2>5. NothingLost(k)'
    BY <1>1, <1>5, <2>c DEF TypeOK, CallInv, Coord, NothingLost, Folded, Failed, Good, Joined, AllDone, OneFile, Counting, FoldUnwritten, Fold
  <2>6. OneFile(k)'
    BY <1>1, <1>5, <2>c DEF TypeOK, CallInv, Coord, OneFile, Good, Failed, FoldUnwritten, Fold
  <2>7. Counting(k)'
    BY <1>1, <1>5, <2>c, <2>a, <2>d DEF TypeOK, CallInv, Coord, Counting, Joined, OneFile, Counter, FoldUnwritten, Fold
  <2>8. QED
    BY <1>1, <1>5, <2>c, <2>1, <2>2, <2>3, <2>4, <2>5, <2>6, <2>7, OwnPartSuffices
       DEF CallInv, Progress
<1>6. CASE FoldSkip(k)
  <2>1. TypeOK'
    BY <1>1, <1>6, TornType DEF TypeOK, CallInv, Counting, Coord, Joined, OneFile, Place, Slot, Worker, Counter, FoldSkip
  <2>2. Honest'
    BY <1>1, <1>6, TornType, WholeIsStored DEF Honest, OneFile, CallInv, GetRaw, Entry, Stored, TypeOK, FoldSkip
  <2>3. SlotBound(k)'
    BY <1>1, <1>6, QuietWorkers DEF CallInv, FoldSkip
  <2>4. Joined(k)'
    BY <1>1, <1>6 DEF TypeOK, CallInv, Coord, Joined, AllDone, FoldSkip
  <2>5. NothingLost(k)'
    BY <1>1, <1>6 DEF TypeOK, CallInv, Coord, NothingLost, Folded, Failed, Good, Joined, AllDone, OneFile, Counting, FoldSkip
  <2>6. OneFile(k)'
    BY <1>1, <1>6 DEF TypeOK, CallInv, Coord, OneFile, Good, Failed, FoldSkip
  <2>7. Counting(k)'
    BY <1>1, <1>6 DEF TypeOK, CallInv, Coord, Counting, Joined, OneFile, Counter, FoldSkip
  <2>8. QED
    BY <1>1, <1>6, <2>1, <2>2, <2>3, <2>4, <2>5, <2>6, <2>7, OwnPartSuffices
       DEF CallInv, Progress
<1>7. CASE Write(k)
  <2>a. writing[k] \in Coord /\ writing[k] = at[k]
    BY <1>1, <1>7 DEF TypeOK, CallInv, OneFile, Joined, Write
  <2> DEFINE full == [whole |-> TRUE, doc |-> writing[k], fresh |-> TRUE,
                      parses |-> slot[k][writing[k]] = "ok"]
  <2>b. full \in Stored /\ full.doc = writing[k]
    BY <2>a DEF Stored
  <2>c. PICK e \in {full, Torn} : cache' = [cache EXCEPT ![writing[k]] = e]
    BY <1>1, <1>7 DEF Write, Key
  <2>d. e \in Entry /\ (GetRaw(e) => e.doc = writing[k])
    BY <2>b, TornType DEF Entry
  <2> HIDE DEF full
  <2>e. cache' \in [Coord -> Entry]
    BY <1>1, <2>a, <2>c, <2>d DEF TypeOK
  <2>1. TypeOK'
    BY <1>1, <1>7, <2>e, <2>a, TornType DEF TypeOK, CallInv, Counting, Coord, Joined, OneFile, Place, Slot, Worker, Counter, Write, Key
  <2>2. Honest'
    <3>1. \A c \in Coord : GetRaw(cache'[c]) => cache'[c].doc = c
      BY <1>1, <2>a, <2>c, <2>d DEF Honest, TypeOK
    <3>2. out' = out
      BY <1>1, <1>7, <2>e, <2>a DEF Write
    <3>3. QED BY <1>1, <3>1, <3>2 DEF Honest, GetRaw
  <2>3. SlotBound(k)'
    BY <1>1, <1>7, <2>e, <2>a, QuietWorkers DEF CallInv, Write, Key
  <2>4. Joined(k)'
    BY <1>1, <1>7, <2>e, <2>a DEF TypeOK, CallInv, Coord, Joined, AllDone, Write, Key
  <2>5. NothingLost(k)'
    BY <1>1, <1>7, <2>e, <2>a DEF TypeOK, CallInv, Coord, NothingLost, Folded, Failed, Good, Joined, AllDone, OneFile, Counting, Write, Key
  <2>6. OneFile(k)'
    BY <1>1, <1>7, <2>e, <2>a DEF TypeOK, CallInv, Coord, OneFile, Good, Failed, Write, Key
  <2>7. Counting(k)'
    BY <1>1, <1>7, <2>e, <2>a DEF TypeOK, CallInv, Coord, Counting, Joined, OneFile, Counter, Write, Key
  <2>8. QED
    BY <1>1, <1>7, <2>e, <2>a, <2>1, <2>2, <2>3, <2>4, <2>5, <2>6, <2>7, OwnPartSuffices
       DEF CallInv, Progress
<1>8. CASE Return(k)
  <2>1. TypeOK'
    BY <1>1, <1>8, TornType DEF TypeOK, CallInv, Counting, Coord, Joined, OneFile, Place, Slot, Worker, Counter, Return
  <2>2. Honest'
    BY <1>1, <1>8, TornType, WholeIsStored DEF Honest, OneFile, CallInv, GetRaw, Entry, Stored, TypeOK, Return
  <2>3. SlotBound(k)'
    BY <1>1, <1>8, QuietWorkers DEF CallInv, Return
  <2>4. Joined(k)'
    BY <1>1, <1>8 DEF TypeOK, CallInv, Coord, Joined, AllDone, Return
  <2>5. NothingLost(k)'
    BY <1>1, <1>8 DEF TypeOK, CallInv, Coord, NothingLost, Folded, Failed, Good, Joined, AllDone, OneFile, Counting, Return
  <2>6. OneFile(k)'
    BY <1>1, <1>8 DEF TypeOK, CallInv, Coord, OneFile, Good, Failed, Return
  <2>7. Counting(k)'
    BY <1>1, <1>8 DEF TypeOK, CallInv, Coord, Counting, Joined, OneFile, Counter, Return
  <2>8. QED
    BY <1>1, <1>8, <2>1, <2>2, <2>3, <2>4, <2>5, <2>6, <2>7, OwnPartSuffices
       DEF CallInv, Progress
<1>9. QED BY <1>2, <1>3, <1>4, <1>5, <1>6, <1>7, <1>8

\* The death of a process.
LEMMA CrashStep ==
    ASSUME IInv, NEW k \in Call,
           Crash(k)
    PROVE  IInv'
<1>1. TypeOK /\ Honest /\ CallInv(k)
  BY DEF IInv
<1>2. CASE Crash(k)
  <2>1. TypeOK'
    BY <1>1, <1>2, TornType DEF TypeOK, CallInv, Counting, Coord, Joined, OneFile, Place, Slot, Worker, Counter, Crash
  <2>2. Honest'
    BY <1>1, <1>2, TornType, WholeIsStored DEF Honest, OneFile, CallInv, GetRaw, Entry, Stored, TypeOK, Crash
  <2>3. SlotBound(k)'
    BY <1>1, <1>2, QuietWorkers DEF CallInv, Crash
  <2>4. Joined(k)'
    BY <1>1, <1>2 DEF TypeOK, CallInv, Coord, Joined, AllDone, Crash
  <2>5. NothingLost(k)'
    BY <1>1, <1>2 DEF TypeOK, CallInv, Coord, NothingLost, Folded, Failed, Good, Joined, AllDone, OneFile, Counting, Crash
  <2>6. OneFile(k)'
    BY <1>1, <1>2 DEF TypeOK, CallInv, Coord, OneFile, Good, Failed, Crash
  <2>7. Counting(k)'
    BY <1>1, <1>2 DEF TypeOK, CallInv, Coord, Counting, Joined, OneFile, Counter, Crash
  <2>8. QED
    BY <1>1, <1>2, <2>1, <2>2, <2>3, <2>4, <2>5, <2>6, <2>7, OwnPartSuffices
       DEF CallInv, Progress
<1>3. QED BY <1>2

\* An entry that outlives its TTL is still the same document.
LEMMA ExpireStep ==
    ASSUME IInv, NEW c \in Coord, Expire(c)
    PROVE  IInv'
<1>1. TypeOK /\ Honest
  BY DEF IInv
<1>2. cache[c] \in Stored
  BY <1>1, WholeIsStored DEF Expire, TypeOK
<1>3. [cache[c] EXCEPT !.fresh = FALSE] \in Stored /\ [cache[c] EXCEPT !.fresh = FALSE].doc = cache[c].doc
  BY <1>2 DEF Stored
<1>4. TypeOK'
  BY <1>1, <1>3 DEF TypeOK, Expire, Entry
<1>5. Honest'
  BY <1>1, <1>2, <1>3 DEF Honest, Expire, TypeOK, GetRaw
<1>6. ASSUME NEW k \in Call PROVE CallInv(k)'
  <2>1. SameCall(k)
    BY DEF Expire, SameCall
  <2>2. QED BY <2>1, SameCallInv DEF IInv
<1>7. QED BY <1>4, <1>5, <1>6 DEF IInv

LEMMA InitIInv == Init => IInv
<1>1. SUFFICES ASSUME Init PROVE IInv
  OBVIOUS
<1>2. TypeOK
  <2>1. [cache |-> 0, net |-> 0, notfound |-> 0, gaps |-> 0] \in Counter
    BY DEF Counter
  <2>2. stats \in [Call -> Counter]
    BY <1>1, <2>1 DEF Init
  <2>3. QED BY <1>1, <2>2 DEF Init, TypeOK, Place, Worker, Slot, Coord
<1>3. Honest
  BY <1>1 DEF Init, Honest
<1>4. ASSUME NEW k \in Call PROVE CallInv(k)
  <2>1. SlotBound(k)
    <3>1. Fetching(k) = {}
      BY <1>1 DEF Init, Fetching
    <3>2. QED BY <3>1, FS_EmptySet DEF SlotBound
  <2>2. Joined(k)
    BY <1>1 DEF Init, Joined
  <2>3. NothingLost(k)
    BY <1>1 DEF Init, NothingLost
  <2>4. OneFile(k)
    BY <1>1 DEF Init, OneFile
  <2>5. Counting(k)
    BY <1>1 DEF Init, Counting
  <2>6. QED BY <2>1, <2>2, <2>3, <2>4, <2>5 DEF CallInv
<1>5. QED BY <1>2, <1>3, <1>4 DEF IInv

LEMMA NextIInv == IInv /\ [Next]_vars => IInv'
<1>1. SUFFICES ASSUME IInv, [Next]_vars PROVE IInv'
  OBVIOUS
<1>2. ASSUME NEW k \in Call, Start(k) \/ Progress(k) \/ Crash(k)
      PROVE  IInv'
  BY <1>1, <1>2, LookupStep, WorkerStep, FoldStep, CrashStep DEF Progress
<1>3. ASSUME NEW c \in Coord, Expire(c) PROVE IInv'
  BY <1>1, <1>3, ExpireStep
<1>4. CASE UNCHANGED vars
  <2> USE <1>4 DEF vars
  <2>1. TypeOK' /\ Honest'
    BY <1>1 DEF IInv, TypeOK, Honest, GetRaw
  <2>2. ASSUME NEW k \in Call PROVE CallInv(k)'
    <3>1. SameCall(k)
      BY DEF SameCall
    <3>2. QED BY <1>1, <3>1, SameCallInv DEF IInv
  <2>3. QED BY <2>1, <2>2 DEF IInv
<1>5. QED BY <1>1, <1>2, <1>3, <1>4 DEF Next

\* The semaphore's bound, the join of the goroutines, the honesty of answers and
\* cache entries, and that no result is lost or counted twice, along every behaviour
\* of every set of calls (coordfetch.go:34-117, cache.go:75-104).
THEOREM Invariance == Spec => []IInv
BY InitIInv, NextIInv, PTL DEF Spec

\* Every variable keeps its type; in particular every counter of datasource.Stats
\* stays within the number of coordinates asked about.
THEOREM TypeCorrect == Spec => []TypeOK
<1>1. IInv => TypeOK
  BY DEF IInv
<1>2. QED BY <1>1, Invariance, PTL

-----------------------------------------------------------------------------
(***************************************************************************)
(* The contract.  What a call has in hand is the contract's answer to the  *)
(* fates it has learnt; when it has learnt them all it returns.            *)
(***************************************************************************)
SoFar(k) == Contract!Possible(k) \cup {"pending"}

\* The contract's own instance of FiniteSets counts as this one does.
LEMMA SameCount ==
    ASSUME NEW S
    PROVE  Contract!Cardinality(S) = Cardinality(S)
BY DEF Contract!Cardinality, Cardinality

LEMMA CoordFinite == IsFiniteSet(Coord)
BY FS_Interval DEF Coord

LEMMA HavingFinite ==
    ASSUME NEW fate, NEW F
    PROVE  /\ IsFiniteSet(Contract!Having(fate, F))
           /\ Cardinality(Contract!Having(fate, F)) \in Nat
<1>1. Contract!Having(fate, F) \subseteq Coord
  BY DEF Contract!Having
<1>2. QED BY <1>1, CoordFinite, FS_Subset, FS_CardinalityType

\* A coordinate whose fate becomes known counts among those that have it, and
\* among no others.
LEMMA FateLearnt ==
    ASSUME NEW fate, NEW then, NEW c \in Coord, fate[c] = "pending",
           \A d \in Coord \ {c} : then[d] = fate[d],
           NEW F, "pending" \notin F
    PROVE  IF then[c] \in F
           THEN /\ Contract!Having(then, F) = Contract!Having(fate, F) \cup {c}
                /\ Cardinality(Contract!Having(then, F)) = Cardinality(Contract!Having(fate, F)) + 1
           ELSE Contract!Having(then, F) = Contract!Having(fate, F)
<1>1. c \notin Contract!Having(fate, F)
  BY DEF Contract!Having
<1>2. CASE then[c] \in F
  <2>1. Contract!Having(then, F) = Contract!Having(fate, F) \cup {c}
    BY <1>2 DEF Contract!Having
  <2>2. QED BY <1>1, <1>2, <2>1, HavingFinite, FS_AddElement
<1>3. CASE then[c] \notin F
  <2>1. Contract!Having(then, F) = Contract!Having(fate, F)
    BY <1>1, <1>3 DEF Contract!Having
  <2>2. QED BY <1>3, <2>1
<1>4. QED BY <1>2, <1>3

\* The counters once a coordinate has met its fate.
CountedAs(s, f) ==
    [cache    |-> IF f \in {"cached", "garbledCached"} THEN s.cache + 1 ELSE s.cache,
     net      |-> IF f \in {"net", "garbledNet"} THEN s.net + 1 ELSE s.net,
     notfound |-> IF f = "notfound" THEN s.notfound + 1 ELSE s.notfound,
     gaps     |-> IF f = "gap" THEN s.gaps + 1 ELSE s.gaps]

Fated(k) == pc[k] # "crashed" => \E fate \in [Coord -> SoFar(k)] : AnsweredSoFar(k, fate)

LEMMA AnswerParts ==
    ASSUME NEW k \in Call, NEW fate
    PROVE  /\ Contract!Answer(k, fate).out = Contract!Having(fate, {"cached", "net"})
           /\ Contract!Answer(k, fate).stats =
                [cache    |-> Cardinality(Contract!Having(fate, {"cached", "garbledCached"})),
                 net      |-> Cardinality(Contract!Having(fate, {"net", "garbledNet"})),
                 notfound |-> Cardinality(Contract!Having(fate, {"notfound"})),
                 gaps     |-> Cardinality(Contract!Having(fate, {"gap"}))]
BY SameCount DEF Contract!Answer

LEMMA FatesAreFated == FatesAreCounted <=> \A k \in Call : Fated(k)
BY DEF FatesAreCounted, Fated, SoFar

\* A step that learns nothing.
LEMMA FateKept ==
    ASSUME NEW k \in Call, Fated(k), pc[k] # "crashed", Pending(k)' = Pending(k),
           out'[k] = out[k], stats'[k] = stats[k], errsBy'[k] = errsBy[k]
    PROVE  Fated(k)'
<1>1. PICK fate \in [Coord -> SoFar(k)] : AnsweredSoFar(k, fate)
  BY DEF Fated
<1>2. AnsweredSoFar(k, fate)'
  BY <1>1 DEF AnsweredSoFar, Contract!Answer, Contract!Having
<1>3. QED BY <1>2 DEF Fated, SoFar

\* A step that learns the fate of one coordinate.
LEMMA FateMet ==
    ASSUME NEW k \in Call, Fated(k), pc[k] # "crashed",
           NEW c \in Pending(k), NEW f \in Contract!Possible(k),
           Pending(k)' = Pending(k) \ {c},
           out'[k][c] # None <=> f \in {"cached", "net"},
           \A d \in Coord \ {c} : out'[k][d] = out[k][d],
           stats'[k] = CountedAs(stats[k], f),
           errsBy'[k] = IF f = "gap" /\ k \notin Offline THEN errsBy[k] \cup {c} ELSE errsBy[k]
    PROVE  Fated(k)'
<1>1. PICK fate \in [Coord -> SoFar(k)] : AnsweredSoFar(k, fate)
  BY DEF Fated
<1>2. c \in Coord /\ fate[c] = "pending"
  BY <1>1 DEF AnsweredSoFar, Pending
<1> DEFINE then == [fate EXCEPT ![c] = f]
<1>3. f # "pending" /\ f \in SoFar(k)
  BY DEF Contract!Possible, SoFar
<1>4. then \in [Coord -> SoFar(k)]
  BY <1>3
<1>5. then[c] = f /\ \A d \in Coord \ {c} : then[d] = fate[d]
  BY <1>2
<1>a. /\ \A d \in Coord : fate[d] = "pending" <=> d \in Pending(k)
      /\ \A d \in Coord : out[k][d] # None <=> fate[d] \in {"cached", "net"}
      /\ errsBy[k] = IF k \in Offline THEN {} ELSE Contract!Having(fate, {"gap"})
      /\ stats[k] = [cache    |-> Cardinality(Contract!Having(fate, {"cached", "garbledCached"})),
                     net      |-> Cardinality(Contract!Having(fate, {"net", "garbledNet"})),
                     notfound |-> Cardinality(Contract!Having(fate, {"notfound"})),
                     gaps     |-> Cardinality(Contract!Having(fate, {"gap"}))]
  <2>1. {d \in Coord : out[k][d] # None} = Contract!Having(fate, {"cached", "net"})
    BY <1>1, AnswerParts DEF AnsweredSoFar
  <2>2. \A d \in Coord : out[k][d] # None <=> fate[d] \in {"cached", "net"}
    BY <2>1 DEF Contract!Having
  <2>3. stats[k] = Contract!Answer(k, fate).stats
    BY <1>1 DEF AnsweredSoFar
  <2>4. QED BY <1>1, <2>2, <2>3, AnswerParts DEF AnsweredSoFar
<1> HIDE DEF then
<1>b. ASSUME NEW F, "pending" \notin F
      PROVE  IF f \in F
             THEN /\ Contract!Having(then, F) = Contract!Having(fate, F) \cup {c}
                  /\ Cardinality(Contract!Having(then, F)) = Cardinality(Contract!Having(fate, F)) + 1
             ELSE Contract!Having(then, F) = Contract!Having(fate, F)
  BY <1>2, <1>5, <1>b, FateLearnt
<1>6. \A d \in Coord : then[d] = "pending" <=> d \in Pending(k)'
  BY <1>a, <1>2, <1>3, <1>5
<1>7. {d \in Coord : out'[k][d] # None} = Contract!Having(then, {"cached", "net"})
  BY <1>a, <1>2, <1>5 DEF Contract!Having
<1>8. errsBy'[k] = IF k \in Offline THEN {} ELSE Contract!Having(then, {"gap"})
  <2>1. f = "gap" => Contract!Having(then, {"gap"}) = Contract!Having(fate, {"gap"}) \cup {c}
    BY <1>b
  <2>2. f # "gap" => Contract!Having(then, {"gap"}) = Contract!Having(fate, {"gap"})
    BY <1>b
  <2>3. QED BY <1>a, <2>1, <2>2
<1>9. stats'[k] = [cache    |-> Cardinality(Contract!Having(then, {"cached", "garbledCached"})),
                   net      |-> Cardinality(Contract!Having(then, {"net", "garbledNet"})),
                   notfound |-> Cardinality(Contract!Having(then, {"notfound"})),
                   gaps     |-> Cardinality(Contract!Having(then, {"gap"}))]
  <2> DEFINE C(h, F) == Cardinality(Contract!Having(h, F))
  <2>1. ASSUME NEW F, "pending" \notin F
        PROVE  C(then, F) = IF f \in F THEN C(fate, F) + 1 ELSE C(fate, F)
    BY <1>b, <2>1
  <2>2. /\ stats[k].cache = C(fate, {"cached", "garbledCached"})
        /\ stats[k].net = C(fate, {"net", "garbledNet"})
        /\ stats[k].notfound = C(fate, {"notfound"}) /\ stats[k].gaps = C(fate, {"gap"})
    BY <1>a
  <2> HIDE DEF C
  <2>3. stats'[k] = [cache    |-> C(then, {"cached", "garbledCached"}),
                     net      |-> C(then, {"net", "garbledNet"}),
                     notfound |-> C(then, {"notfound"}), gaps |-> C(then, {"gap"})]
    <3>1. C(then, {"cached", "garbledCached"}) =
            IF f \in {"cached", "garbledCached"} THEN stats[k].cache + 1 ELSE stats[k].cache
      BY <2>1, <2>2
    <3>2. C(then, {"net", "garbledNet"}) =
            IF f \in {"net", "garbledNet"} THEN stats[k].net + 1 ELSE stats[k].net
      BY <2>1, <2>2
    <3>3. C(then, {"notfound"}) = IF f = "notfound" THEN stats[k].notfound + 1 ELSE stats[k].notfound
      BY <2>1, <2>2
    <3>4. C(then, {"gap"}) = IF f = "gap" THEN stats[k].gaps + 1 ELSE stats[k].gaps
      BY <2>1, <2>2
    <3>5. QED BY <3>1, <3>2, <3>3, <3>4 DEF CountedAs
  <2>4. QED BY <2>3 DEF C
<1>10. AnsweredSoFar(k, then)'
  BY <1>6, <1>7, <1>8, <1>9, AnswerParts DEF AnsweredSoFar
<1>11. QED BY <1>4, <1>10 DEF Fated, SoFar

\* A turn of the cache pass decides one coordinate, or sends for it.
LEMMA FatedLookup ==
    ASSUME IInv, NEW k \in Call, Fated(k), LookupHit(k) \/ LookupMiss(k)
    PROVE  Fated(k)'
<1>1. TypeOK /\ Honest /\ CallInv(k)
  BY DEF IInv
<1>2. /\ at[k] \in Coord /\ at[k] \notin missed[k] /\ at[k] \in Pending(k)
      /\ pc[k] = "lookup" /\ pc'[k] = "lookup" /\ at'[k] = at[k] + 1
  BY <1>1 DEF LookupHit, LookupMiss, TypeOK, Coord, CallInv, Joined, Pending
<1>3. stats[k] \in Counter
  BY <1>1 DEF TypeOK
<1>4. CASE LookupHit(k)
  <2> DEFINE e == cache[at[k]]
             f == IF e.parses THEN "cached" ELSE "garbledCached"
  <2>1. e \in Entry /\ Hit(k, e)
    BY <1>1, <1>2, <1>4 DEF LookupHit, Key, TypeOK
  <2>2. e \in Stored /\ e.doc = at[k] /\ e.parses \in BOOLEAN
    BY <1>1, <1>2, <2>1, WholeIsStored DEF Hit, Honest, Stored
  <2>3. f \in Contract!Possible(k)
    BY <2>1, <2>2 DEF Hit, Contract!Possible
  <2>4. Pending(k)' = Pending(k) \ {at[k]}
    BY <1>1, <1>2, <1>4 DEF Pending, Folded, LookupHit, TypeOK, Coord
  <2>5. out' = [out EXCEPT ![k][at[k]] = Read(e)]
    BY <1>4 DEF LookupHit, Key
  <2>6. /\ out'[k][at[k]] # None <=> f \in {"cached", "net"}
        /\ \A d \in Coord \ {at[k]} : out'[k][d] = out[k][d]
    BY <1>1, <1>2, <2>2, <2>5 DEF TypeOK, Read
  <2>7. stats'[k] = [stats[k] EXCEPT !.cache = stats[k].cache + 1]
    BY <1>1, <1>3, <1>4 DEF LookupHit, TypeOK
  <2>8. stats'[k] = CountedAs(stats[k], f)
    BY <1>3, <2>7 DEF CountedAs, Counter
  <2>9. errsBy'[k] = errsBy[k] /\ f # "gap"
    BY <1>4 DEF LookupHit
  <2> HIDE DEF f
  <2>10. QED BY <1>2, <2>3, <2>4, <2>6, <2>8, <2>9, FateMet
<1>5. CASE LookupMiss(k) /\ k \in Offline
  <2>1. "gap" \in Contract!Possible(k)
    BY DEF Contract!Possible
  <2>2. missed'[k] = missed[k]
    BY <1>1, <1>5 DEF LookupMiss, Misses, TypeOK
  <2>3. Pending(k)' = Pending(k) \ {at[k]}
    BY <1>1, <1>2, <2>2 DEF Pending, Folded, TypeOK, Coord
  <2>4. stats'[k] = [stats[k] EXCEPT !.gaps = stats[k].gaps + 1]
    BY <1>1, <1>3, <1>5 DEF LookupMiss, TypeOK
  <2>5. stats'[k] = CountedAs(stats[k], "gap")
    BY <1>3, <2>4 DEF CountedAs, Counter
  <2>6. out' = out /\ errsBy' = errsBy
    BY <1>5 DEF LookupMiss
  <2>7. out[k][at[k]] = None
    BY <1>1, <1>2 DEF CallInv, NothingLost, Coord
  <2>8. QED BY <1>2, <1>5, <2>1, <2>3, <2>5, <2>6, <2>7, FateMet
<1>6. CASE LookupMiss(k) /\ k \notin Offline
  <2>1. missed'[k] = missed[k] \cup {at[k]}
    BY <1>1, <1>6 DEF LookupMiss, Misses, TypeOK
  <2>2. Pending(k)' = Pending(k)
    BY <1>1, <1>2, <2>1 DEF Pending, Folded, TypeOK, Coord
  <2>3. stats'[k] = stats[k]
    <3>1. stats' = [stats EXCEPT ![k] = [stats[k] EXCEPT !.gaps = stats[k].gaps]]
      BY <1>1, <1>6 DEF LookupMiss, TypeOK
    <3>2. [stats[k] EXCEPT !.gaps = stats[k].gaps] = stats[k]
      BY <1>3 DEF Counter
    <3>3. QED BY <1>1, <3>1, <3>2 DEF TypeOK
  <2>4. out' = out /\ errsBy' = errsBy
    BY <1>6 DEF LookupMiss
  <2>5. QED BY <1>2, <2>2, <2>3, <2>4, FateKept
<1>7. QED BY <1>4, <1>5, <1>6

\* A turn of the fold decides one coordinate.
LEMMA FatedFold ==
    ASSUME IInv, NEW k \in Call, Fated(k),
           FoldNotFound(k) \/ FoldFailed(k) \/ FoldOpen(k) \/ FoldUnwritten(k)
    PROVE  Fated(k)'
<1>1. TypeOK /\ Honest /\ CallInv(k)
  BY DEF IInv
<1>2. /\ pc[k] = "fold" /\ at[k] \in Coord /\ at[k] \in missed[k] /\ at[k] \in Pending(k)
      /\ k \notin Offline /\ missed' = missed /\ out[k][at[k]] = None
  BY <1>1 DEF FoldNotFound, FoldFailed, FoldOpen, FoldUnwritten, Fold, TypeOK, Coord, CallInv,
              Joined, NothingLost, Pending, Folded
<1>3. stats[k] \in Counter
  BY <1>1 DEF TypeOK
<1>4. Pending(k)' = Pending(k) \ {at[k]}
  <2>1. \/ pc'[k] = "fold" /\ at'[k] = at[k] + 1
        \/ pc'[k] = "write" /\ at'[k] = at[k]
    BY <1>1, <1>2 DEF FoldNotFound, FoldFailed, FoldOpen, FoldUnwritten, TypeOK
  <2>2. \A c \in Coord : Folded(k, c)' <=> Folded(k, c) \/ c = at[k]
    BY <1>1, <1>2, <2>1 DEF Folded, TypeOK, Coord
  <2>3. QED BY <1>2, <2>1, <2>2 DEF Pending
<1>5. CASE FoldNotFound(k)
  <2>1. "notfound" \in Contract!Possible(k)
    BY <1>2 DEF Contract!Possible
  <2>2. stats'[k] = [stats[k] EXCEPT !.notfound = stats[k].notfound + 1]
    BY <1>1, <1>5 DEF FoldNotFound, TypeOK
  <2>3. stats'[k] = CountedAs(stats[k], "notfound")
    BY <1>3, <2>2 DEF CountedAs, Counter
  <2>4. out' = out /\ errsBy' = errsBy
    BY <1>5 DEF FoldNotFound
  <2>5. QED BY <1>2, <1>4, <2>1, <2>3, <2>4, FateMet
<1>6. CASE FoldFailed(k)
  <2>1. "gap" \in Contract!Possible(k)
    BY DEF Contract!Possible
  <2>2. stats'[k] = [stats[k] EXCEPT !.gaps = stats[k].gaps + 1]
    BY <1>1, <1>6 DEF FoldFailed, TypeOK
  <2>3. stats'[k] = CountedAs(stats[k], "gap")
    BY <1>3, <2>2 DEF CountedAs, Counter
  <2>4. out' = out /\ errsBy'[k] = errsBy[k] \cup {at[k]}
    BY <1>1, <1>6 DEF FoldFailed, TypeOK
  <2>5. QED BY <1>2, <1>4, <2>1, <2>3, <2>4, FateMet
<1>7. CASE FoldOpen(k) \/ FoldUnwritten(k)
  <2> DEFINE f == IF slot[k][at[k]] = "ok" THEN "net" ELSE "garbledNet"
  <2>1. Fold(k, at[k])
    BY <1>7 DEF FoldOpen, FoldUnwritten
  <2>2. Good(k, at[k]) /\ errsBy' = errsBy
    BY <2>1 DEF Fold
  <2>3. f \in Contract!Possible(k)
    BY <1>2, <2>2 DEF Good, Failed, Contract!Possible
  <2>4. out' = [out EXCEPT ![k][at[k]] = IF slot[k][at[k]] = "ok" THEN at[k] ELSE None]
    BY <2>1 DEF Fold
  <2>5. /\ out'[k][at[k]] # None <=> f \in {"cached", "net"}
        /\ \A d \in Coord \ {at[k]} : out'[k][d] = out[k][d]
    BY <1>1, <1>2, <2>4 DEF TypeOK
  <2>6. stats'[k] = [stats[k] EXCEPT !.net = stats[k].net + 1]
    BY <1>1, <2>1 DEF Fold, TypeOK
  <2>7. stats'[k] = CountedAs(stats[k], f)
    BY <1>3, <2>6 DEF CountedAs, Counter
  <2>8. f # "gap"
    OBVIOUS
  <2> HIDE DEF f
  <2>9. QED BY <1>2, <1>4, <2>2, <2>3, <2>5, <2>7, <2>8, FateMet
<1>8. QED BY <1>5, <1>6, <1>7

\* What the goroutines do, and the turns of the fold that decide nothing.
LEMMA FatedQuiet ==
    ASSUME IInv, NEW k \in Call, Fated(k),
           \/ Start(k) \/ Spawn(k) \/ Wait(k) \/ FoldSkip(k) \/ Write(k) \/ Return(k)
           \/ \E c \in Coord : Acquire(k, c) \/ Finish(k, c)
    PROVE  Fated(k)'
<1>1. TypeOK /\ CallInv(k)
  BY DEF IInv
<1>2. missed' = missed /\ out' = out /\ stats' = stats /\ errsBy' = errsBy /\ pc[k] # "crashed"
  BY DEF Start, Spawn, Wait, FoldSkip, Write, Return, Acquire, Finish
<1>3. Pending(k)' = Pending(k)
  <2>1. CASE Start(k) \/ \E c \in Coord : Acquire(k, c) \/ Finish(k, c)
    BY <1>1, <1>2, <2>1 DEF Start, Acquire, Finish, Pending, Folded, TypeOK, Coord
  <2>2. CASE Spawn(k)
    BY <1>1, <1>2, <2>2 DEF Spawn, Pending, Folded, TypeOK, Coord
  <2>3. CASE Wait(k)
    BY <1>1, <1>2, <2>3 DEF Wait, Pending, Folded, TypeOK, Coord
  <2>4. CASE FoldSkip(k)
    BY <1>1, <1>2, <2>4 DEF FoldSkip, Pending, Folded, TypeOK, Coord
  <2>5. CASE Write(k)
    BY <1>1, <1>2, <2>5 DEF Write, Pending, Folded, TypeOK, Coord
  <2>6. CASE Return(k)
    BY <1>1, <1>2, <2>6 DEF Return, Pending, Folded, TypeOK, Coord
  <2>7. QED BY <2>1, <2>2, <2>3, <2>4, <2>5, <2>6
<1>4. QED BY <1>2, <1>3, FateKept

LEMMA FatedStep ==
    ASSUME IInv, \A k \in Call : Fated(k), [Next]_vars
    PROVE  \A k \in Call : Fated(k)'
<1>1. SUFFICES ASSUME NEW k \in Call PROVE Fated(k)'
  OBVIOUS
<1>2. ASSUME SameCall(k) PROVE Fated(k)'
  <2>1. Pending(k)' = Pending(k)
    BY <1>2 DEF SameCall, Pending, Folded
  <2>2. CASE pc[k] = "crashed"
    BY <1>2, <2>2 DEF SameCall, Fated
  <2>3. CASE pc[k] # "crashed"
    BY <1>2, <2>1, <2>3, FateKept DEF SameCall
  <2>4. QED BY <2>2, <2>3
<1>3. ASSUME NEW j \in Call, Start(j) \/ Progress(j) \/ Crash(j) PROVE Fated(k)'
  <2>1. CASE j # k
    BY <1>2, <1>3, <2>1, Frame DEF IInv
  <2>2. CASE j = k /\ Crash(k)
    BY <2>2 DEF Fated, Crash, IInv, TypeOK
  <2>3. CASE j = k /\ (Start(k) \/ Progress(k))
    BY <2>3, FatedLookup, FatedFold, FatedQuiet DEF Progress
  <2>4. QED BY <1>3, <2>1, <2>2, <2>3
<1>4. CASE \E c \in Coord : Expire(c)
  BY <1>2, <1>4 DEF Expire, SameCall
<1>5. CASE UNCHANGED vars
  BY <1>2, <1>5 DEF vars, SameCall
<1>6. QED BY <1>3, <1>4, <1>5 DEF Next

LEMMA InitFated == Init => \A k \in Call : Fated(k)
<1>1. SUFFICES ASSUME Init, NEW k \in Call PROVE Fated(k)
  OBVIOUS
<1> DEFINE fate == [c \in Coord |-> "pending"]
<1>2. fate \in [Coord -> SoFar(k)] /\ \A c \in Coord : fate[c] = "pending"
  BY DEF SoFar
<1> HIDE DEF fate
<1>3. ASSUME NEW F, "pending" \notin F
      PROVE  Contract!Having(fate, F) = {} /\ Cardinality(Contract!Having(fate, F)) = 0
  <2>1. Contract!Having(fate, F) = {}
    BY <1>2, <1>3 DEF Contract!Having
  <2>2. QED BY <2>1, FS_EmptySet
<1>4. \A c \in Coord : c \in Pending(k)
  BY <1>1 DEF Init, Pending, Coord
<1>5. {c \in Coord : out[k][c] # None} = Contract!Having(fate, {"cached", "net"})
  BY <1>1, <1>3 DEF Init
<1>6. errsBy[k] = {} /\ Contract!Having(fate, {"gap"}) = {}
  BY <1>1, <1>3 DEF Init
<1>7. stats[k] = [cache    |-> Cardinality(Contract!Having(fate, {"cached", "garbledCached"})),
                  net      |-> Cardinality(Contract!Having(fate, {"net", "garbledNet"})),
                  notfound |-> Cardinality(Contract!Having(fate, {"notfound"})),
                  gaps     |-> Cardinality(Contract!Having(fate, {"gap"}))]
  <2>1. /\ Cardinality(Contract!Having(fate, {"cached", "garbledCached"})) = 0
        /\ Cardinality(Contract!Having(fate, {"net", "garbledNet"})) = 0
        /\ Cardinality(Contract!Having(fate, {"notfound"})) = 0
        /\ Cardinality(Contract!Having(fate, {"gap"})) = 0
    BY <1>3
  <2>2. QED BY <1>1, <2>1 DEF Init
<1>8. AnsweredSoFar(k, fate)
  BY <1>2, <1>4, <1>5, <1>6, <1>7, AnswerParts DEF AnsweredSoFar
<1>9. QED BY <1>2, <1>8 DEF Fated

\* A call's counters, answers and errors are at every moment those of the fates it
\* has met, each coordinate counted once (coordfetch.go:34-117).
THEOREM CountedByFate == Spec => []FatesAreCounted
<1>1. Init => IInv /\ \A k \in Call : Fated(k)
  BY InitIInv, InitFated
<1>2. (IInv /\ \A k \in Call : Fated(k)) /\ [Next]_vars => (IInv /\ \A k \in Call : Fated(k))'
  BY NextIInv, FatedStep
<1>3. IInv /\ (\A k \in Call : Fated(k)) => FatesAreCounted
  BY FatesAreFated
<1>4. QED BY <1>1, <1>2, <1>3, PTL DEF Spec

\* Of the failures of a call one sorts first.
LEMMA FirstErrorIs ==
    ASSUME NEW k \in Call, errsBy[k] \subseteq Coord
    PROVE  FirstError(k) \in Coord \cup {None}
<1>1. CASE errsBy[k] = {}
  BY <1>1 DEF FirstError
<1>2. CASE errsBy[k] # {}
  <2> DEFINE R == {Rank[c] : c \in errsBy[k]}
  <2>1. R \subseteq Nat /\ R # {}
    BY <1>2
  <2> DEFINE Below == {ss \in Nat \X Nat : ss[1] < ss[2]}
  <2>2. IsWellFoundedOn(Below, Nat)
    BY NatLessThanWellFounded DEF OpToRel
  <2>3. \E m \in R : \A n \in R : m <= n
    <3>1. \A n, m \in Nat : <<n, m>> \notin Below => m <= n
      OBVIOUS
    <3> HIDE DEF Below, R
    <3>2. PICK m \in R : \A n \in R : ~(<<n, m>> \in Below)
      BY <2>1, <2>2, WFMin
    <3>3. QED BY <2>1, <3>1, <3>2
  <2>4. \E c \in errsBy[k] : \A d \in errsBy[k] : Rank[c] <= Rank[d]
    BY <2>3
  <2>5. FirstError(k) \in errsBy[k]
    BY <1>2, <2>4 DEF FirstError
  <2>6. QED BY <2>5
<1>3. QED BY <1>1, <1>2

\* A call that has returned has a reply, and one that has not has none.
LEMMA ReplyIsSome ==
    ASSUME TypeOK, NEW k \in Call
    PROVE  Reply(k) = None <=> pc[k] # "returned"
<1>1. [out |-> {c \in Coord : out[k][c] # None}, stats |-> stats[k], err |-> FirstError(k)] \in Returned
  BY FirstErrorIs DEF TypeOK, Returned
<1>2. QED BY <1>1, SentinelAssumption DEF Reply

\* A call that has met every fate replies what the contract answers to them.
LEMMA ReplyIsAnswer ==
    ASSUME NEW k \in Call, Fated(k), pc[k] = "returned"
    PROVE  \E fate \in [Coord -> Contract!Possible(k)] : Reply(k) = Contract!Answer(k, fate)
<1>1. PICK fate \in [Coord -> SoFar(k)] : AnsweredSoFar(k, fate)
  BY DEF Fated
<1>2. Pending(k) = {}
  BY DEF Pending, Folded
<1>3. \A c \in Coord : fate[c] # "pending"
  BY <1>1, <1>2 DEF AnsweredSoFar
<1>4. fate \in [Coord -> Contract!Possible(k)]
  BY <1>3 DEF SoFar
<1>5. /\ {c \in Coord : out[k][c] # None} = Contract!Answer(k, fate).out
      /\ stats[k] = Contract!Answer(k, fate).stats
      /\ errsBy[k] = IF k \in Offline THEN {} ELSE Contract!Having(fate, {"gap"})
  BY <1>1 DEF AnsweredSoFar
<1>6. FirstError(k) = Contract!Answer(k, fate).err
  <2>1. CASE k \in Offline \/ Contract!Having(fate, {"gap"}) = {}
    BY <1>5, <2>1 DEF FirstError, Contract!Answer
  <2>2. CASE ~(k \in Offline \/ Contract!Having(fate, {"gap"}) = {})
    BY <1>5, <2>2 DEF FirstError, Contract!Answer
  <2>3. QED BY <2>1, <2>2
<1>7. Reply(k) = [out |-> Contract!Answer(k, fate).out, stats |-> Contract!Answer(k, fate).stats,
                  err |-> Contract!Answer(k, fate).err]
  BY <1>5, <1>6 DEF Reply
<1>8. Reply(k) = Contract!Answer(k, fate)
  BY <1>7 DEF Contract!Answer
<1>9. QED BY <1>4, <1>8

\* A call that has returned, or does not return now, keeps its reply.
LEMMA ReplyKept ==
    ASSUME TypeOK, [Next]_vars, NEW k \in Call, pc[k] = "returned" \/ pc'[k] # "returned"
    PROVE  Reply(k)' = Reply(k)
<1>1. ASSUME SameCall(k) PROVE Reply(k)' = Reply(k)
  BY <1>1 DEF SameCall, Reply, FirstError
<1>2. ASSUME NEW j \in Call, Start(j) \/ Progress(j) \/ Crash(j) PROVE Reply(k)' = Reply(k)
  <2>1. CASE j # k
    BY <1>1, <1>2, <2>1, Frame
  <2>2. CASE j = k
    <3>1. pc[k] # "returned"
      BY <1>2, <2>2 DEF Start, Progress, Crash, LookupHit, LookupMiss, Spawn, Acquire, Finish, Wait,
                        FoldNotFound, FoldFailed, FoldOpen, FoldUnwritten, Fold, FoldSkip, Write, Return
    <3>2. QED BY <3>1 DEF Reply
  <2>3. QED BY <2>1, <2>2
<1>3. CASE \E c \in Coord : Expire(c)
  BY <1>1, <1>3 DEF Expire, SameCall
<1>4. CASE UNCHANGED vars
  BY <1>1, <1>4 DEF vars, SameCall
<1>5. QED BY <1>2, <1>3, <1>4 DEF Next

\* At most one call returns in a step.
LEMMA OneReturns ==
    ASSUME TypeOK, [Next]_vars, NEW k \in Call, pc[k] # "returned", pc'[k] = "returned"
    PROVE  \A j \in Call \ {k} : pc[j] = "returned" \/ pc'[j] # "returned"
<1>1. PICK i \in Call : Start(i) \/ Progress(i) \/ Crash(i)
  BY DEF Next, Expire, vars
<1>2. i = k
  BY <1>1, Frame DEF SameCall
<1>3. QED BY <1>1, <1>2, Frame DEF SameCall

\* The fetch keeps its contract: the results, counters and error of each call are a
\* function of the fate of each coordinate, for any number of calls that interleave
\* over one cache, crash, and find each other's entries (decisions D-13 and D-24).
THEOREM Implementation == Spec => ImplementsContract
<1> DEFINE replies == [k \in Call |-> Reply(k)]
           Strong == IInv /\ \A k \in Call : Fated(k)
<1>1. Init => Contract!Init
  <2>1. ASSUME Init, NEW k \in Call PROVE Reply(k) = None
    BY <2>1 DEF Init, Reply
  <2>2. QED BY <2>1 DEF Contract!Init
<1>2. Strong /\ Strong' /\ [Next]_vars => [Contract!Next]_replies
  <2>1. SUFFICES ASSUME Strong, Strong', [Next]_vars PROVE Contract!Next \/ replies' = replies
    OBVIOUS
  <2>2. TypeOK /\ TypeOK'
    BY <2>1 DEF IInv
  <2>3. CASE \A k \in Call : pc[k] = "returned" \/ pc'[k] # "returned"
    <3>1. \A k \in Call : Reply(k)' = Reply(k)
      BY <2>1, <2>2, <2>3, ReplyKept
    <3>2. QED BY <3>1
  <2>4. CASE \E k \in Call : pc[k] # "returned" /\ pc'[k] = "returned"
    <3>1. PICK k \in Call : pc[k] # "returned" /\ pc'[k] = "returned"
      BY <2>4
    <3>2. Reply(k) = None
      BY <2>2, <3>1, ReplyIsSome
    <3>3. \A j \in Call \ {k} : Reply(j)' = Reply(j)
      BY <2>1, <2>2, <3>1, OneReturns, ReplyKept
    <3>4. Reply(k)' # None
      <4>1. (Reply(k) = None <=> pc[k] # "returned")'
        BY <2>2, ReplyIsSome, PTL
      <4>2. QED BY <3>1, <4>1
    <3>5. PICK fate \in [Coord -> Contract!Possible(k)] : Reply(k)' = Contract!Answer(k, fate)
      <4>1. (Fated(k) /\ pc[k] = "returned" =>
                \E fate \in [Coord -> Contract!Possible(k)] : Reply(k) = Contract!Answer(k, fate))'
        BY ReplyIsAnswer, PTL
      <4>2. QED BY <2>1, <3>1, <4>1
    <3>6. replies' = [replies EXCEPT ![k] = Contract!Answer(k, fate)]
      BY <3>3, <3>5
    <3>7. replies[k] = None /\ replies'[k] # None
      BY <3>2, <3>4
    <3>8. Contract!Return(k)
      BY <3>6, <3>7 DEF Contract!Return
    <3>9. QED BY <3>8 DEF Contract!Next
  <2>5. QED BY <2>3, <2>4
<1>3. Init => Strong
  BY InitIInv, InitFated
<1>4. Strong /\ [Next]_vars => Strong'
  BY NextIInv, FatedStep
<1>5. QED BY <1>1, <1>2, <1>3, <1>4, PTL DEF Spec, ImplementsContract, Contract!Spec

-----------------------------------------------------------------------------
(***************************************************************************)
(* What an online call answered, a later offline call answers too: for any *)
(* number of coordinates and of offline calls that overlap with it and     *)
(* with each other, whatever has expired in between (FetchReplay).         *)
(***************************************************************************)

\* The replay adds a history variable to the fetch and nothing else.
LEMMA ReplayIsFetch == [ReplayNext]_rvars => [Next]_vars
BY DEF ReplayNext, rvars, ReplayStart, Next

\* A call that has returned does nothing more.
LEMMA ReturnedStays ==
    ASSUME TypeOK, [Next]_vars, NEW j \in Call, pc[j] = "returned"
    PROVE  SameCall(j)
<1>1. ASSUME NEW k \in Call, Start(k) \/ Progress(k) \/ Crash(k) PROVE SameCall(j)
  <2>1. pc[k] # "returned"
    BY <1>1 DEF Start, Progress, Crash, LookupHit, LookupMiss, Spawn, Acquire, Finish, Wait,
                FoldNotFound, FoldFailed, FoldOpen, FoldUnwritten, Fold, FoldSkip, Write, Return
  <2>2. QED BY <1>1, <2>1, Frame
<1>2. QED BY <1>1 DEF Next, Expire, vars, SameCall

\* An offline call only reads: it looks up and returns.
LEMMA OfflineReads ==
    ASSUME IInv, NEW k \in Offline, Progress(k)
    PROVE  (LookupHit(k) \/ LookupMiss(k) \/ Spawn(k)) /\ cache' = cache
<1>1. k \in Call /\ pc[k] \notin {"wait", "fold", "write"}
  BY DEF IInv, CallInv, Counting
<1>2. LookupHit(k) \/ LookupMiss(k) \/ Spawn(k)
  BY <1>1 DEF Progress, Acquire, Finish, Wait, FoldNotFound, FoldFailed, FoldOpen, FoldUnwritten,
              Fold, FoldSkip, Write, Return
<1>3. QED BY <1>2 DEF LookupHit, LookupMiss, Spawn

-----------------------------------------------------------------------------
\* Nobody else touches the files of a call that is alone.
LEMMA OthersKeep ==
    ASSUME IInv, NEW j \in Call, Keeps(j), SameCall(j), cache' = cache
    PROVE  Keeps(j)'
BY DEF Keeps, SameCall, GetRaw, Key

\* Time takes nothing from an offline reader.
LEMMA ExpiryKeeps ==
    ASSUME IInv, NEW j \in Call, Keeps(j), NEW c \in Coord, Expire(c)
    PROVE  Keeps(j)'
<1>1. cache \in [Coord -> Entry] /\ at[j] \in Nat
  BY DEF IInv, TypeOK, Coord
<1>2. cache[c] \in Stored /\ cache[c] # Torn
  BY <1>1, WholeIsStored, TornType DEF Expire
<1>3. cache'[c] = [cache[c] EXCEPT !.fresh = FALSE] /\ \A d \in Coord \ {c} : cache'[d] = cache[d]
  BY <1>1 DEF Expire
<1>4. cache'[c].whole = cache[c].whole /\ cache'[c].parses = cache[c].parses
  BY <1>2, <1>3 DEF Stored
<1>5. cache'[c] # Absent
  BY <1>2, <1>3, SentinelAssumption DEF Stored
<1>6. QED
  BY <1>2, <1>3, <1>4, <1>5 DEF Expire, Keeps, GetRaw, Key

\* The cache pass of the call that is alone: it answers what its file says.
LEMMA LookupKeeps ==
    ASSUME IInv, NEW j \in Call, Keeps(j), Start(j) \/ LookupHit(j) \/ LookupMiss(j) \/ Spawn(j)
    PROVE  Keeps(j)'
<1>1. TypeOK /\ Honest /\ CallInv(j) /\ CallInv(j)'
  BY LookupStep DEF IInv
<1>2. cache' = cache /\ pc[j] # "write" /\ pc'[j] # "write" /\ writing' = writing
  BY <1>1 DEF Start, LookupHit, LookupMiss, Spawn, TypeOK
<1>3. CASE LookupHit(j)
  <2>1. at[j] \in Coord /\ cache[at[j]] \in Entry /\ GetRaw(cache[at[j]])
    BY <1>1, <1>3 DEF LookupHit, Hit, Key, TypeOK, Coord
  <2>2. out' = [out EXCEPT ![j][at[j]] = Read(cache[at[j]])]
    BY <1>3 DEF LookupHit, Key
  <2>3. \A c \in Coord : out'[j][c] = IF c = at[j] THEN Read(cache[at[j]]) ELSE out[j][c]
    BY <1>1, <2>1, <2>2 DEF TypeOK
  <2>4. Read(cache[at[j]]) \in Coord => cache[at[j]].parses
    BY DEF Read
  <2>5. QED BY <1>2, <2>1, <2>3, <2>4 DEF Keeps, Key
<1>4. CASE Start(j) \/ LookupMiss(j) \/ Spawn(j)
  <2>1. out' = out
    BY <1>4 DEF Start, LookupMiss, Spawn
  <2>2. QED BY <1>2, <2>1 DEF Keeps, Key
<1>5. QED BY <1>3, <1>4

\* The goroutines, and the turns of the fold that write nothing.
LEMMA QuietKeeps ==
    ASSUME IInv, NEW j \in Call, Keeps(j), Faulty = {},
           \/ Wait(j) \/ FoldNotFound(j) \/ FoldFailed(j) \/ FoldUnwritten(j) \/ FoldSkip(j) \/ Return(j)
           \/ \E c \in Coord : Acquire(j, c) \/ Finish(j, c)
    PROVE  Keeps(j)'
<1>1. TypeOK /\ CallInv(j)
  BY DEF IInv
<1>2. cache' = cache /\ pc[j] # "write" /\ pc'[j] # "write" /\ writing' = writing
  BY <1>1 DEF Wait, FoldNotFound, FoldFailed, FoldUnwritten, Fold, FoldSkip, Return, Acquire, Finish,
              TypeOK
<1>3. \A c \in Coord : out'[j][c] = c => out[j][c] = c
  <2>1. CASE FoldUnwritten(j)
    <3>1. Fold(j, at[j]) /\ slot[j][at[j]] = "junk"
      BY <2>1 DEF FoldUnwritten
    <3>2. out' = [out EXCEPT ![j][at[j]] = None]
      BY <3>1 DEF Fold
    <3>3. QED BY <1>1, <3>2 DEF TypeOK
  <2>2. CASE ~FoldUnwritten(j)
    BY <2>2 DEF Wait, FoldNotFound, FoldFailed, FoldSkip, Return, Acquire, Finish
  <2>3. QED BY <2>1, <2>2
<1>4. QED BY <1>2, <1>3 DEF Keeps, Key

\* The file is opened for the one answer that it does not hold yet,
LEMMA OpenKeeps ==
    ASSUME IInv, NEW j \in Call, Keeps(j), FoldOpen(j)
    PROVE  Keeps(j)'
<1>1. TypeOK
  BY DEF IInv
<1>2. at[j] \in Coord /\ Fold(j, at[j]) /\ writing[j] = None
  BY DEF IInv, CallInv, OneFile, FoldOpen, Fold, TypeOK
<1>3. /\ cache'[at[j]] = Torn /\ \A c \in Coord \ {at[j]} : cache'[c] = cache[c]
      /\ at' = at /\ writing'[j] = at[j]
  BY <1>1, <1>2 DEF FoldOpen, Key, TypeOK
<1>4. \A c \in Coord \ {at[j]} : out'[j][c] = out[j][c]
  BY <1>1, <1>2 DEF Fold, TypeOK
<1>5. QED BY <1>2, <1>3, <1>4 DEF Keeps, GetRaw, Key

\* and is filled with it.
LEMMA WriteKeeps ==
    ASSUME IInv, NEW j \in Call, Keeps(j), Alone(j), Write(j)
    PROVE  Keeps(j)'
<1>1. TypeOK /\ CallInv(j)
  BY DEF IInv
<1>2. pc[j] = "write" /\ writing[j] = at[j] /\ at[j] \in Coord /\ at[j] \in missed[j]
  BY <1>1 DEF Write, CallInv, OneFile, TypeOK
<1>3. \A i \in Call \ {j} : writing[i] = None
  BY DEF Alone, IInv, CallInv, OneFile, Joined
<1>4. ~Overlapped(j)
  BY <1>2, <1>3 DEF Overlapped, Keeps, Key
<1> DEFINE full == [whole |-> TRUE, doc |-> at[j], fresh |-> TRUE, parses |-> slot[j][at[j]] = "ok"]
<1>5. cache' = [cache EXCEPT ![at[j]] = full]
  BY <1>2, <1>4 DEF Write, Alone, Key
<1>6. full \in Stored /\ full # Absent
  <2>1. full \in Stored
    BY <1>2 DEF Stored
  <2>2. QED BY <2>1, SentinelAssumption
<1>7. full.whole /\ (full.parses <=> slot[j][at[j]] = "ok")
  OBVIOUS
<1>8. out[j][at[j]] = at[j] => slot[j][at[j]] = "ok"
  BY <1>1, <1>2 DEF CallInv, NothingLost, Folded, TypeOK, Coord
<1>9. pc'[j] # "write" /\ out' = out
  BY <1>1 DEF Write, TypeOK
<1> HIDE DEF full
<1>10. /\ cache'[at[j]] = full /\ \A c \in Coord \ {at[j]} : cache'[c] = cache[c]
  BY <1>1, <1>2, <1>5 DEF TypeOK
<1>11. QED BY <1>2, <1>6, <1>7, <1>8, <1>9, <1>10 DEF Keeps, GetRaw, Key

\* A call that is alone keeps its promise in every step of anyone.
LEMMA KeepsStep ==
    ASSUME ReplayInv, [ReplayNext]_rvars, NEW j \in Call, Alone(j)
    PROVE  Keeps(j)'
<1>1. IInv /\ TypeOK /\ Keeps(j) /\ [Next]_vars
  BY ReplayIsFetch DEF ReplayInv, IInv
<1>2. \A k \in Call : ~Crash(k)
  BY DEF Alone, Crash
<1>3. ASSUME NEW k \in Call \ {j}, Start(k) \/ Progress(k) PROVE Keeps(j)'
  <2>1. k \in Offline
    BY DEF Alone
  <2>2. cache' = cache
    BY <1>1, <1>3, <2>1, OfflineReads DEF Start
  <2>3. QED BY <1>1, <1>3, <2>2, Frame, OthersKeep
<1>4. CASE Start(j) \/ Progress(j)
  <2>1. Faulty = {}
    BY DEF Alone
  <2>2. QED
    BY <1>1, <1>4, <2>1, LookupKeeps, QuietKeeps, OpenKeeps, WriteKeeps DEF Progress
<1>5. CASE \E c \in Coord : Expire(c)
  BY <1>1, <1>5, ExpiryKeeps
<1>6. CASE UNCHANGED vars
  BY <1>1, <1>6, OthersKeep DEF vars, SameCall
<1>7. QED BY <1>1, <1>2, <1>3, <1>4, <1>5, <1>6 DEF Next

-----------------------------------------------------------------------------
\* An offline call finds what an earlier one answered.
LEMMA FindsStep ==
    ASSUME ReplayInv, [ReplayNext]_rvars, NEW j \in Call, Alone(j), NEW k \in Offline,
           j \in before'[k]
    PROVE  Finds(j, k)'
<1>1. IInv /\ TypeOK /\ Keeps(j) /\ [Next]_vars /\ k \in Call /\ j # k
  BY ReplayIsFetch DEF ReplayInv, IInv, Alone
<1>2. CASE ReplayStart(k)
  <2>1. at'[k] = 1
    BY <1>1, <1>2 DEF ReplayStart, Start, IInv, CallInv, Counting
  <2>2. QED BY <2>1 DEF Finds, Coord
<1>3. CASE ~ReplayStart(k)
  <2>1. before'[k] = before[k]
    BY <1>1, <1>3 DEF ReplayNext, rvars, ReplayStart, ReplayInv
  <2>2. pc[j] = "returned" /\ Finds(j, k)
    BY <1>1, <2>1 DEF ReplayInv
  <2>3. out'[j] = out[j] /\ writing[j] = None
    BY <1>1, <2>2, ReturnedStays DEF SameCall, IInv, CallInv, OneFile
  <2>4. CASE SameCall(k)
    BY <2>2, <2>3, <2>4 DEF SameCall, Finds
  <2>5. CASE Progress(k)
    <3>1. at[k] \in 1..(N + 1) /\ CallInv(k)
      BY <1>1 DEF TypeOK, IInv
    <3>2. CASE LookupHit(k)
      <4>1. at[k] \in Coord /\ at'[k] = at[k] + 1
        BY <1>1, <3>1, <3>2 DEF LookupHit, TypeOK, Coord
      <4>2. out' = [out EXCEPT ![k][at[k]] = Read(cache[at[k]])]
        BY <3>2 DEF LookupHit, Key
      <4>3. \A c \in Coord : out'[k][c] = IF c = at[k] THEN Read(cache[at[k]]) ELSE out[k][c]
        BY <1>1, <4>1, <4>2 DEF TypeOK
      <4>4. out[j][at[k]] = at[k] => GetRaw(cache[at[k]]) /\ cache[at[k]].parses
        BY <1>1, <2>3, <4>1 DEF Keeps, Key
      <4>5. out[j][at[k]] = at[k] => Read(cache[at[k]]) = at[k]
        BY <1>1, <4>1, <4>4 DEF Read, IInv, Honest
      <4>6. \A c \in Coord : c < at[k] + 1 => c < at[k] \/ c = at[k]
        BY <4>1 DEF Coord
      <4>7. QED BY <2>2, <2>3, <4>1, <4>3, <4>5, <4>6 DEF Finds
    <3>3. CASE LookupMiss(k)
      <4>1. at[k] \in Coord /\ at'[k] = at[k] + 1 /\ out' = out
        BY <1>1, <3>1, <3>3 DEF LookupMiss, TypeOK, Coord
      <4>2. out[j][at[k]] # at[k]
        BY <1>1, <2>3, <3>3, <4>1 DEF Keeps, Key, LookupMiss, Hit
      <4>3. \A c \in Coord : c < at[k] + 1 => c < at[k] \/ c = at[k]
        BY <4>1 DEF Coord
      <4>4. QED BY <2>2, <2>3, <4>1, <4>2, <4>3 DEF Finds
    <3>4. CASE Spawn(k)
      BY <2>2, <3>4 DEF Spawn, Finds
    <3>5. QED BY <1>1, <2>5, <3>2, <3>3, <3>4, OfflineReads
  <2>6. SameCall(k) \/ Progress(k)
    <3>1. \A i \in Call : ~Crash(i)
      BY DEF Alone, Crash
    <3>2. CASE \E i \in Call \ {k} : Start(i) \/ Progress(i)
      BY <1>1, <3>2, Frame
    <3>3. CASE (\E c \in Coord : Expire(c)) \/ UNCHANGED vars
      BY <3>3 DEF Expire, vars, SameCall
    <3>4. QED BY <1>3, <3>1, <3>2, <3>3 DEF ReplayNext, ReplayStart, rvars
  <2>7. QED BY <2>4, <2>5, <2>6
<1>4. QED BY <1>2, <1>3

\* What the history variable holds.
LEMMA BeforeStep ==
    ASSUME ReplayInv, [ReplayNext]_rvars
    PROVE  /\ (before \in [Call -> SUBSET Call])'
           /\ \A k \in Call : pc'[k] = "idle" => before'[k] = {}
           /\ \A k, j \in Call : j \in before'[k] => pc'[j] = "returned"
           /\ \A k \in Offline : pc'[k] = "returned" => at'[k] > N
<1>1. IInv /\ TypeOK /\ [Next]_vars /\ before \in [Call -> SUBSET Call]
  BY ReplayIsFetch DEF ReplayInv, IInv
<1>2. \/ before' = before
      \/ \E k \in Call : /\ Start(k)
                          /\ before' = [before EXCEPT ![k] = {j \in Call : pc[j] = "returned"}]
  BY DEF ReplayNext, rvars, ReplayStart
<1>3. \A j \in Call : pc[j] = "returned" => pc'[j] = "returned"
  BY <1>1, ReturnedStays DEF SameCall
<1>4. (before \in [Call -> SUBSET Call])'
  BY <1>1, <1>2
<1>5. ASSUME NEW k \in Call, NEW j \in Call, j \in before'[k] PROVE pc'[j] = "returned"
  <2>1. j \in before[k] => pc[j] = "returned"
    BY DEF ReplayInv
  <2>2. j \in before[k] \/ pc[j] = "returned"
    BY <1>1, <1>2, <1>5
  <2>3. QED BY <1>3, <2>1, <2>2
<1>6. ASSUME NEW k \in Call, pc'[k] = "idle" PROVE before'[k] = {}
  <2>1. pc[k] = "idle" /\ ~Start(k)
    <3>1. ASSUME NEW i \in Call, Start(i) \/ Progress(i) \/ Crash(i) PROVE i # k
      BY <1>1, <1>6, <3>1 DEF Start, Progress, Crash, LookupHit, LookupMiss, Spawn, Acquire, Finish,
           Wait, FoldNotFound, FoldFailed, FoldOpen, FoldUnwritten, Fold, FoldSkip, Write, Return, TypeOK
    <3>2. CASE \E i \in Call : Start(i) \/ Progress(i) \/ Crash(i)
      BY <1>1, <1>6, <3>1, <3>2, Frame DEF SameCall
    <3>3. CASE (\E c \in Coord : Expire(c)) \/ UNCHANGED vars
      BY <1>6, <3>1, <3>3 DEF Expire, vars
    <3>4. QED BY <1>1, <3>1, <3>2, <3>3 DEF Next
  <2>2. before[k] = {}
    BY <2>1 DEF ReplayInv
  <2>3. QED BY <1>1, <1>2, <2>1, <2>2
<1>7. ASSUME NEW k \in Offline, pc'[k] = "returned" PROVE at'[k] > N
  <2>1. CASE SameCall(k)
    BY <1>7, <2>1 DEF SameCall, ReplayInv
  <2>2. CASE Progress(k)
    <3>1. CASE LookupHit(k) \/ LookupMiss(k)
      BY <1>1, <1>7, <3>1 DEF LookupHit, LookupMiss
    <3>2. CASE Spawn(k)
      BY <3>2 DEF Spawn
    <3>3. QED BY <1>1, <2>2, <3>1, <3>2, OfflineReads
  <2>3. CASE Start(k) \/ Crash(k)
    BY <1>1, <1>7, <2>3 DEF Start, Crash, TypeOK
  <2>4. SameCall(k) \/ Progress(k) \/ Start(k) \/ Crash(k)
    <3>1. CASE \E i \in Call \ {k} : Start(i) \/ Progress(i) \/ Crash(i)
      BY <1>1, <3>1, Frame
    <3>2. CASE (\E c \in Coord : Expire(c)) \/ UNCHANGED vars
      BY <3>2 DEF Expire, vars, SameCall
    <3>3. QED BY <1>1, <3>1, <3>2 DEF Next
  <2>5. QED BY <2>1, <2>2, <2>3, <2>4
<1>8. QED BY <1>4, <1>5, <1>6, <1>7

LEMMA InitReplayInv == ReplayInit => ReplayInv
<1>1. SUFFICES ASSUME ReplayInit PROVE ReplayInv
  OBVIOUS
<1>2. IInv
  BY <1>1, InitIInv DEF ReplayInit
<1>3. \A k \in Call : before[k] = {} /\ pc[k] = "idle"
  BY <1>1 DEF ReplayInit, Init
<1>4. ASSUME NEW j \in Call PROVE Keeps(j)
  BY <1>1 DEF ReplayInit, Init, Keeps
<1>5. before \in [Call -> SUBSET Call]
  BY <1>1 DEF ReplayInit
<1>6. QED BY <1>2, <1>3, <1>4, <1>5 DEF ReplayInv

LEMMA NextReplayInv == ReplayInv /\ [ReplayNext]_rvars => ReplayInv'
<1>1. SUFFICES ASSUME ReplayInv, [ReplayNext]_rvars PROVE ReplayInv'
  OBVIOUS
<1>2. IInv'
  BY <1>1, ReplayIsFetch, NextIInv DEF ReplayInv
<1>3. \A j \in Call : Alone(j) =>
          Keeps(j)' /\ \A k \in Offline : j \in before'[k] => Finds(j, k)'
  BY <1>1, KeepsStep, FindsStep
<1>4. QED BY <1>1, <1>2, <1>3, BeforeStep DEF ReplayInv, Alone

\* What an online call answered lies in its file from the moment it is written, and
\* what an offline call has passed it has found there (coordfetch.go:40-58, 91-115).
THEOREM ReplayInvariance == ReplaySpec => []ReplayInv
BY InitReplayInv, NextReplayInv, PTL DEF ReplaySpec

\* With the cache directory to itself, an online call leaves every document it
\* answered from where every later offline call finds it, however old it is by then
\* (decision D-09).
THEOREM Replayed == ReplaySpec => []AnsweredReplays
<1>1. ReplayInv => AnsweredReplays
  <2>1. SUFFICES ASSUME ReplayInv, NEW j \in Call, NEW k \in Call, NEW c \in Coord,
                        Alone(j), Replays(j, k), out[j][c] = c
                 PROVE  out[k][c] = c
    BY DEF AnsweredReplays
  <2>2. Finds(j, k) /\ at[k] > N
    BY <2>1 DEF Replays, ReplayInv
  <2>3. at[k] \in Nat
    BY <2>1 DEF ReplayInv, IInv, TypeOK
  <2>4. QED BY <2>1, <2>2, <2>3 DEF Finds, Coord
<1>2. QED BY <1>1, ReplayInvariance, PTL

=============================================================================
