------------------------------- MODULE Fetch -------------------------------
(***************************************************************************)
(* The bounded-parallel fetch that every metadata client of                *)
(* internal/datasource runs (registry/coordfetch.go and its copies in      *)
(* registry.go, npmreg.go, nugetdeps.go and composerdeps.go), with the     *)
(* on-disk cache that concurrent and successive runs share.                *)
(*                                                                         *)
(* A call looks every coordinate up in the cache, starts one goroutine per *)
(* miss behind a semaphore, waits for all of them, and folds their result  *)
(* slots in input order, writing each good response back to the cache.     *)
(* A cache write truncates the file and then fills it (os.WriteFile), so a *)
(* crash, a full disk or a second writer can leave a torn entry.           *)
(***************************************************************************)
EXTENDS Naturals, FiniteSets

CONSTANTS
    Call, Offline, Tolerant, Rank, None,  \* see FetchContract
    N,          \* the number of coordinates
    Absent,     \* a cache key with no file
    Limit,      \* the capacity of the semaphore
    Faulty,     \* the calls whose process may crash or fail to write
    Published   \* the coordinates the registry knows

\* The coordinates, in the order the caller lists them.
Coord == 1..N

ASSUME FetchAssumption ==
    /\ N \in Nat
    /\ Limit \in Nat \ {0}
    /\ Offline \subseteq Call
    /\ Tolerant \subseteq Call
    /\ Faulty \subseteq Call
    /\ Published \subseteq Coord
    /\ Rank \in [Coord -> Nat]
    /\ \A c, d \in Coord : Rank[c] = Rank[d] => c = d
    /\ None \notin Coord

VARIABLES
    cache,      \* the entry stored under each key
    pc,         \* where each call is
    at,         \* the coordinate its serial loop has reached
    missed,     \* the coordinates it found in no usable cache entry
    worker,     \* the goroutine of each missed coordinate
    slot,       \* results[i]
    out,        \* the coordinates answered, with the document they were answered from
    stats,      \* the counters of datasource.Stats
    errsBy,     \* the coordinates that failed
    writing     \* the cache key the fold has truncated and not yet filled

vars == <<cache, pc, at, missed, worker, slot, out, stats, errsBy, writing>>

-----------------------------------------------------------------------------
\* datasource.Stats, and what a call returns: the coordinates it answers, its
\* counters and its error.
Counter == [cache: 0..N, net: 0..N, notfound: 0..N, gaps: 0..N]

Returned == [out: SUBSET Coord, stats: Counter, err: Coord \cup {None}]

-----------------------------------------------------------------------------
(***************************************************************************)
(* The cache.  A document is named by the coordinate it describes.         *)
(***************************************************************************)
\* What a whole file holds: a document, its age against the TTL, and whether it
\* has the shape the client parses.
Stored == [whole: {TRUE}, doc: Coord, fresh: BOOLEAN, parses: BOOLEAN]
Torn   == [whole |-> FALSE, doc |-> None, fresh |-> TRUE, parses |-> TRUE]
Entry  == Stored \cup {Absent, Torn}

\* What stands for no reply is no reply, and for no file no file.
ASSUME SentinelAssumption == None \notin Returned /\ Absent \notin Stored

\* The key is the source, the name and the version, so no two coordinates share
\* one. (KeyWithoutVersion is a fault: the cache forgets the version.)
KeyWithoutVersion(c) == 1
Key(c) == c

\* Cache.GetRaw: a missing file and one that is not JSON are both "no entry".
GetRaw(e) == e # Absent /\ e.whole

\* A hit: an entry within its TTL, or of any age when offline, that parses. The
\* NuGet and Composer clients take a document that does not parse for an empty one.
Hit(k, e) ==
    /\ GetRaw(e)
    /\ e.fresh \/ k \in Offline
    /\ e.parses \/ k \in Tolerant

-----------------------------------------------------------------------------
\* What a goroutine leaves in results[i]: a document, JSON of another shape, a body
\* that is not JSON, a 404, or a transport error.
Slot   == {"empty", "ok", "garbled", "junk", "notfound", "error"}
Place  == {"idle", "lookup", "wait", "fold", "write", "returned", "crashed"}
Worker == {"none", "blocked", "fetching", "done"}

Init ==
    /\ cache \in [Coord -> Entry]
    /\ \A c \in Coord : GetRaw(cache[c]) => cache[c].doc = c
    /\ pc = [k \in Call |-> "idle"]
    /\ at = [k \in Call |-> 1]
    /\ missed = [k \in Call |-> {}]
    /\ worker = [k \in Call |-> [c \in Coord |-> "none"]]
    /\ slot = [k \in Call |-> [c \in Coord |-> "empty"]]
    /\ out = [k \in Call |-> [c \in Coord |-> None]]
    /\ stats = [k \in Call |-> [cache |-> 0, net |-> 0, notfound |-> 0, gaps |-> 0]]
    /\ errsBy = [k \in Call |-> {}]
    /\ writing = [k \in Call |-> None]

Start(k) ==
    /\ pc[k] = "idle"
    /\ pc' = [pc EXCEPT ![k] = "lookup"]
    /\ UNCHANGED <<cache, at, missed, worker, slot, out, stats, errsBy, writing>>

\* The document an answer is read from: none when a tolerant client cannot parse it.
Read(e) == IF e.parses THEN e.doc ELSE None

\* What a miss adds to the list of fetches: offline it is a gap and nothing more.
\* (MissesFallingThrough is a fault: the `continue` of the offline branch is lost.)
MissesFallingThrough(k, c) == {c}
Misses(k, c) == IF k \in Offline THEN {} ELSE {c}

\* One turn of the cache pass.
LookupHit(k) ==
    LET e == cache[Key(at[k])]
    IN  /\ pc[k] = "lookup"
        /\ at[k] <= N
        /\ Hit(k, e)
        /\ out' = [out EXCEPT ![k][at[k]] = Read(e)]
        /\ stats' = [stats EXCEPT ![k].cache = @ + 1]
        /\ at' = [at EXCEPT ![k] = @ + 1]
        /\ UNCHANGED <<cache, pc, missed, worker, slot, errsBy, writing>>

LookupMiss(k) ==
    /\ pc[k] = "lookup"
    /\ at[k] <= N
    /\ ~Hit(k, cache[Key(at[k])])
    /\ stats' = [stats EXCEPT ![k].gaps = IF k \in Offline THEN @ + 1 ELSE @]
    /\ missed' = [missed EXCEPT ![k] = @ \cup Misses(k, at[k])]
    /\ at' = [at EXCEPT ![k] = @ + 1]
    /\ UNCHANGED <<cache, pc, worker, slot, out, errsBy, writing>>

\* wg.Add and go for every miss; with no miss the call returns at once.
Spawn(k) ==
    /\ pc[k] = "lookup"
    /\ at[k] > N
    /\ worker' = [worker EXCEPT ![k] = [c \in Coord |-> IF c \in missed[k] THEN "blocked"
                                                        ELSE "none"]]
    /\ pc' = [pc EXCEPT ![k] = IF missed[k] = {} THEN "returned" ELSE "wait"]
    /\ UNCHANGED <<cache, at, missed, slot, out, stats, errsBy, writing>>

\* The goroutines that hold a slot of the semaphore. (FetchingLeaking is a fault: an
\* early return on an error does not release the slot.)
FetchingLeaking(k) ==
    {c \in Coord : worker[k][c] = "fetching" \/ slot[k][c] = "error"}
Fetching(k) == {c \in Coord : worker[k][c] = "fetching"}

\* sem <- struct{}{}   (AcquireUnbounded is a fault: it does not wait for a slot.)
AcquireUnbounded(k, c) ==
    /\ pc[k] = "wait"
    /\ worker[k][c] = "blocked"
    /\ worker' = [worker EXCEPT ![k][c] = "fetching"]
    /\ UNCHANGED <<cache, pc, at, missed, slot, out, stats, errsBy, writing>>

Acquire(k, c) ==
    /\ Cardinality(Fetching(k)) < Limit
    /\ pc[k] = "wait"
    /\ worker[k][c] = "blocked"
    /\ worker' = [worker EXCEPT ![k][c] = "fetching"]
    /\ UNCHANGED <<cache, pc, at, missed, slot, out, stats, errsBy, writing>>

\* The response or its failure: a 404 for a name the registry does not know, a
\* body that parses or not for one it knows, a transport error or timeout for any.
Outcomes(c) == {"error"} \cup (IF c \in Published THEN {"ok", "garbled", "junk"} ELSE {"notfound"})

\* The slot is filled, then the deferred release and wg.Done run.
Finish(k, c) ==
    /\ pc[k] = "wait"
    /\ worker[k][c] = "fetching"
    /\ \E r \in Outcomes(c) : slot' = [slot EXCEPT ![k][c] = r]
    /\ worker' = [worker EXCEPT ![k][c] = "done"]
    /\ UNCHANGED <<cache, pc, at, missed, out, stats, errsBy, writing>>

\* wg.Wait
\* (StartedDone is a fault: wg.Add inside the goroutine, so that Wait can return
\* before a goroutine that has not run yet is counted.)
StartedDone(k) == \A c \in missed[k] : worker[k][c] # "fetching"
AllDone(k) == \A c \in missed[k] : worker[k][c] = "done"

Wait(k) ==
    /\ pc[k] = "wait"
    /\ AllDone(k)
    /\ pc' = [pc EXCEPT ![k] = "fold"]
    /\ at' = [at EXCEPT ![k] = 1]
    /\ UNCHANGED <<cache, missed, worker, slot, out, stats, errsBy, writing>>

\* A slot that reaches the fold as a failure: what does not parse fails a strict
\* client, and is an empty answer to a tolerant one.
Failed(k, c) ==
    \/ slot[k][c] = "error"
    \/ slot[k][c] \in {"garbled", "junk"} /\ k \notin Tolerant

Good(k, c) == slot[k][c] \in {"ok", "garbled", "junk"} /\ ~Failed(k, c)

\* One turn of the fold: a 404 is counted apart and is no gap. (FoldNotFoundAsGap is
\* a fault: it is one too.)
FoldNotFoundAsGap(k) ==
    /\ pc[k] = "fold"
    /\ at[k] \in missed[k]
    /\ slot[k][at[k]] = "notfound"
    /\ stats' = [stats EXCEPT ![k].notfound = @ + 1, ![k].gaps = @ + 1]
    /\ at' = [at EXCEPT ![k] = @ + 1]
    /\ UNCHANGED <<cache, pc, missed, worker, slot, out, errsBy, writing>>

FoldNotFound(k) ==
    /\ pc[k] = "fold"
    /\ at[k] \in missed[k]
    /\ slot[k][at[k]] = "notfound"
    /\ stats' = [stats EXCEPT ![k].notfound = @ + 1]
    /\ at' = [at EXCEPT ![k] = @ + 1]
    /\ UNCHANGED <<cache, pc, missed, worker, slot, out, errsBy, writing>>

FoldFailed(k) ==
    /\ pc[k] = "fold"
    /\ at[k] \in missed[k]
    /\ Failed(k, at[k])
    /\ stats' = [stats EXCEPT ![k].gaps = @ + 1]
    /\ errsBy' = [errsBy EXCEPT ![k] = @ \cup {at[k]}]
    /\ at' = [at EXCEPT ![k] = @ + 1]
    /\ UNCHANGED <<cache, pc, missed, worker, slot, out, writing>>

\* A good response is answered and counted.
Fold(k, c) ==
    /\ pc[k] = "fold"
    /\ c = at[k]
    /\ c \in missed[k]
    /\ Good(k, c)
    /\ out' = [out EXCEPT ![k][c] = IF slot[k][c] = "ok" THEN c ELSE None]
    /\ stats' = [stats EXCEPT ![k].net = @ + 1]
    /\ UNCHANGED <<missed, worker, slot, errsBy>>

\* Then its cache file is opened, which truncates it.
FoldOpen(k) ==
    /\ Fold(k, at[k])
    /\ slot[k][at[k]] # "junk"
    /\ cache' = [cache EXCEPT ![Key(at[k])] = Torn]
    /\ writing' = [writing EXCEPT ![k] = at[k]]
    /\ pc' = [pc EXCEPT ![k] = "write"]
    /\ UNCHANGED at

\* PutRaw fails before it opens the file, and its error is ignored: what is not JSON
\* cannot be wrapped in an entry, and the cache directory may refuse the file.
FoldUnwritten(k) ==
    /\ Fold(k, at[k])
    /\ slot[k][at[k]] = "junk" \/ k \in Faulty
    /\ at' = [at EXCEPT ![k] = @ + 1]
    /\ UNCHANGED <<cache, pc, writing>>

FoldSkip(k) ==
    /\ pc[k] = "fold"
    /\ at[k] \in Coord \ missed[k]
    /\ at' = [at EXCEPT ![k] = @ + 1]
    /\ UNCHANGED <<cache, pc, missed, worker, slot, out, stats, errsBy, writing>>

\* Somebody else has the same file open, or filled it after this call truncated it.
Overlapped(k) ==
    \/ \E j \in Call \ {k} : writing[j] # None /\ Key(writing[j]) = Key(writing[k])
    \/ cache[Key(writing[k])] # Torn

\* os.WriteFile fills the file. Two writers of different lengths leave a mixture,
\* and a write that fails is ignored by the caller and leaves what was truncated.
Write(k) ==
    LET c    == writing[k]
        full == [whole |-> TRUE, doc |-> c, fresh |-> TRUE,
                 parses |-> slot[k][c] = "ok"]
    IN  /\ pc[k] = "write"
        /\ \/ cache' = [cache EXCEPT ![Key(c)] = full]
           \/ /\ Overlapped(k) \/ k \in Faulty
              /\ cache' = [cache EXCEPT ![Key(c)] = Torn]
        /\ writing' = [writing EXCEPT ![k] = None]
        /\ pc' = [pc EXCEPT ![k] = "fold"]
        /\ at' = [at EXCEPT ![k] = @ + 1]
        /\ UNCHANGED <<missed, worker, slot, out, stats, errsBy>>

Return(k) ==
    /\ pc[k] = "fold"
    /\ at[k] > N
    /\ pc' = [pc EXCEPT ![k] = "returned"]
    /\ UNCHANGED <<cache, at, missed, worker, slot, out, stats, errsBy, writing>>

\* The error returned is the failure whose key sorts first. (LastError is a fault.)
LastError(k) ==
    IF errsBy[k] = {} THEN None
    ELSE CHOOSE c \in errsBy[k] : \A d \in errsBy[k] : Rank[c] >= Rank[d]

FirstError(k) ==
    IF errsBy[k] = {} THEN None
    ELSE CHOOSE c \in errsBy[k] : \A d \in errsBy[k] : Rank[c] <= Rank[d]

-----------------------------------------------------------------------------
(***************************************************************************)
(* The environment: a process dies, an entry outlives its TTL.             *)
(***************************************************************************)
Crash(k) ==
    /\ k \in Faulty
    /\ pc[k] \notin {"idle", "returned", "crashed"}
    /\ pc' = [pc EXCEPT ![k] = "crashed"]
    /\ writing' = [writing EXCEPT ![k] = None]
    /\ UNCHANGED <<cache, at, missed, worker, slot, out, stats, errsBy>>

Expire(c) ==
    /\ GetRaw(cache[c])
    /\ cache[c].fresh
    /\ cache' = [cache EXCEPT ![c].fresh = FALSE]
    /\ UNCHANGED <<pc, at, missed, worker, slot, out, stats, errsBy, writing>>

-----------------------------------------------------------------------------
Progress(k) ==
    \/ LookupHit(k)
    \/ LookupMiss(k)
    \/ Spawn(k)
    \/ \E c \in Coord : Acquire(k, c) \/ Finish(k, c)
    \/ Wait(k)
    \/ FoldNotFound(k)
    \/ FoldFailed(k)
    \/ FoldOpen(k)
    \/ FoldUnwritten(k)
    \/ FoldSkip(k)
    \/ Write(k)
    \/ Return(k)

Next ==
    \/ \E k \in Call : Start(k) \/ Progress(k) \/ Crash(k)
    \/ \E c \in Coord : Expire(c)

Spec == Init /\ [][Next]_vars

\* A goroutine that can run does: the Go scheduler starves none of them and the
\* HTTP client gives up after 30 seconds. Nothing makes a run start, or die.
FairSpec == Spec /\ \A k \in Call : WF_vars(Progress(k))

-----------------------------------------------------------------------------
(***************************************************************************)
(* Properties.                                                             *)
(***************************************************************************)
\* The state has its type; in particular no counter passes the number of
\* coordinates, whatever mix of hits, misses and failures a call meets.
TypeOK ==
    /\ cache \in [Coord -> Entry]
    /\ pc \in [Call -> Place]
    /\ at \in [Call -> 1..(N + 1)]
    /\ missed \in [Call -> SUBSET Coord]
    /\ worker \in [Call -> [Coord -> Worker]]
    /\ slot \in [Call -> [Coord -> Slot]]
    /\ out \in [Call -> [Coord -> Coord \cup {None}]]
    /\ stats \in [Call -> Counter]
    /\ errsBy \in [Call -> SUBSET Coord]
    /\ writing \in [Call -> Coord \cup {None}]

\* Never more requests in flight than the semaphore admits.
SlotBound(k) == Cardinality(Fetching(k)) <= Limit

\* A goroutine exists for exactly the misses, from Spawn on; it has filled its slot
\* when and only when it is done, and the fold runs only when every one is.
Joined(k) ==
    /\ k \in Offline => missed[k] = {}
    /\ pc[k] \in {"idle", "lookup"} => \A c \in Coord : worker[k][c] = "none"
    /\ pc[k] = "idle" => missed[k] = {}
    /\ pc[k] = "lookup" => \A c \in missed[k] : c < at[k]
    /\ \A c \in Coord : worker[k][c] # "none" => c \in missed[k]
    /\ \A c \in Coord : worker[k][c] = "done" <=> slot[k][c] # "empty"
    /\ pc[k] \in {"fold", "write", "returned"} => AllDone(k)

\* Whether the fold has passed a coordinate.
Folded(k, c) ==
    \/ pc[k] = "returned"
    \/ pc[k] = "fold" /\ c < at[k]
    \/ pc[k] = "write" /\ c <= at[k]

\* No result is lost or invented between the goroutine and the answer: a fetched
\* document is answered, a failure is an error, and a 404 is neither.
NothingLost(k) ==
    /\ pc[k] \in {"idle", "lookup"} =>
          errsBy[k] = {} /\ \A c \in Coord : c >= at[k] => out[k][c] = None
    /\ \A c \in missed[k] :
          /\ ~Folded(k, c) /\ pc[k] # "crashed" => out[k][c] = None /\ c \notin errsBy[k]
          /\ Folded(k, c) => /\ c \in errsBy[k] <=> Failed(k, c)
                             /\ out[k][c] = c <=> slot[k][c] = "ok"

\* An answer is the coordinate's own document, and so is a whole cache entry:
\* neither concurrent writers nor a crash can put one package's metadata under
\* another's key.
Honest ==
    /\ \A k \in Call, c \in Coord : out[k][c] \in {c, None}
    /\ \A c \in Coord : GetRaw(cache[c]) => cache[c].doc = c

\* The file a call has open is that of the coordinate it is folding.
OneFile(k) ==
    /\ pc[k] = "write" <=> writing[k] # None
    /\ pc[k] = "write" => /\ writing[k] = at[k]
                          /\ at[k] \in missed[k]
                          /\ Good(k, at[k])

\* How far each counter can have come: a pass over the coordinates moves each one at
\* most once per coordinate, and an offline call never reaches the second pass.
Counting(k) ==
    LET s == stats[k]
        idle == s.net = 0 /\ s.notfound = 0 /\ (k \notin Offline => s.gaps = 0)
    IN  /\ pc[k] = "idle" => idle /\ s.cache = 0 /\ s.gaps = 0 /\ at[k] = 1
        /\ pc[k] = "lookup" => idle /\ s.cache < at[k] /\ s.gaps < at[k]
        /\ pc[k] = "wait" => idle
        /\ pc[k] = "fold" => s.net < at[k] /\ s.notfound < at[k] /\ s.gaps < at[k]
        /\ pc[k] = "write" => s.net <= at[k] /\ s.notfound < at[k] /\ s.gaps < at[k]
        /\ pc[k] \in {"wait", "fold", "write"} => k \notin Offline

CallInv(k) == SlotBound(k) /\ Joined(k) /\ NothingLost(k) /\ OneFile(k) /\ Counting(k)

\* The safety of the fetch: the parts above, together inductive.
IInv ==
    /\ TypeOK
    /\ Honest
    /\ \A k \in Call : CallInv(k)

\* What a call returns, None while it runs or when its process died.
Reply(k) ==
    IF pc[k] = "returned"
    THEN [out |-> {c \in Coord : out[k][c] # None}, stats |-> stats[k], err |-> FirstError(k)]
    ELSE None

Contract == INSTANCE FetchContract WITH reply <- [k \in Call |-> Reply(k)]

\* The coordinates whose fate a call has yet to learn.
Pending(k) ==
    {c \in Coord : \/ pc[k] \in {"idle", "lookup"} /\ c >= at[k]
                   \/ c \in missed[k] /\ ~Folded(k, c)}

\* What a call has in hand is the contract's answer to the fates it has learnt: each
\* coordinate met so far shows in exactly one counter, and in the answers or the
\* errors if it should (coordfetch.go:34-117).
AnsweredSoFar(k, fate) ==
    LET answer == Contract!Answer(k, fate)
    IN  /\ \A c \in Coord : fate[c] = "pending" <=> c \in Pending(k)
        /\ {c \in Coord : out[k][c] # None} = answer.out
        /\ stats[k] = answer.stats
        /\ errsBy[k] = IF k \in Offline THEN {} ELSE Contract!Having(fate, {"gap"})

FatesAreCounted ==
    \A k \in Call : pc[k] # "crashed" =>
        \E fate \in [Coord -> Contract!Possible(k) \cup {"pending"}] : AnsweredSoFar(k, fate)

\* D-13, D-24: a call's results, counters and error are a function of the fate of
\* each coordinate. How the goroutines interleave, and what other runs do to the
\* shared cache files meanwhile, changes only whether a coordinate is a hit.
ImplementsContract == Contract!Spec

\* Every call that starts returns unless its process dies: the WaitGroup is always
\* released and the semaphore never wedges.
Returns == \A k \in Call : pc[k] = "lookup" ~> pc[k] \in {"returned", "crashed"}

=============================================================================
