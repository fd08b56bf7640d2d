----------------------------- MODULE ScanProofs -----------------------------
(***************************************************************************)
(* Proofs about Scan, for every set of packages, every bundled dataset,    *)
(* every size of request and any number of scans.  IInv is inductive; the  *)
(* invariants that MCScan checks follow from it.                           *)
(***************************************************************************)
EXTENDS Scan, FiniteSetTheorems, TLAPS

\* Sets of packages have cardinalities.
LEMMA Counting ==
    ASSUME NEW S, S \subseteq Package
    PROVE  IsFiniteSet(S) /\ Cardinality(S) \in Nat
  BY ScanAssumption, FS_Subset, FS_CardinalityType

\* Disjoint sets of packages count apart.
LEMMA CountingApart ==
    ASSUME NEW S, S \subseteq Package, NEW T, T \subseteq Package, S \cap T = {}
    PROVE  Cardinality(S \cup T) = Cardinality(S) + Cardinality(T)
  <1>1. IsFiniteSet(S) /\ Cardinality(S) \in Nat BY Counting
  <1>2. IsFiniteSet(T) /\ Cardinality(T) \in Nat BY Counting
  <1>3. Cardinality(S \cup T) = Cardinality(S) + Cardinality(T) - Cardinality(S \cap T)
    BY <1>1, <1>2, FS_Union
  <1>4. Cardinality(S \cap T) = 0
    BY FS_EmptySet
  <1> QED BY <1>1, <1>2, <1>3, <1>4

-----------------------------------------------------------------------------
\* Falling back for a set of packages counts those among them that no source
\* covers, and asks about nothing more.
LEMMA FallenBackCounts ==
    ASSUME NEW st \in Stats, NEW S, S \subseteq Package
    PROVE  /\ FallenBack(st, S) \in Stats
           /\ FallenBack(st, S).queried = st.queried
           /\ FallenBack(st, S).gaps = st.gaps + Cardinality(S \ Covering(S))
  <1>1. Covering(S) \subseteq Package /\ S \ Covering(S) \subseteq Package
    BY DEF Covering
  <1>2. {p \in S : Bundle[p] \notin {Absent, "malicious"}} \subseteq Package
    OBVIOUS
  <1>3. /\ Cardinality(Covering(S)) \in Nat
        /\ Cardinality(S \ Covering(S)) \in Nat
        /\ Cardinality({p \in S : Bundle[p] \notin {Absent, "malicious"}}) \in Nat
    BY <1>1, <1>2, Counting
  <1> DEFINE a == Cardinality(Covering(S))
             b == Cardinality({p \in S : Bundle[p] \notin {Absent, "malicious"}})
             c == Cardinality(S \ Covering(S))
  <1>4. FallenBack(st, S) = [st EXCEPT !.fromBundled = st.fromBundled + a,
                                       !.nonMalicious = st.nonMalicious + b, !.gaps = st.gaps + c]
    BY DEF FallenBack
  <1>5. a \in Nat /\ b \in Nat /\ c \in Nat
    BY <1>3
  <1> HIDE DEF a, b, c
  <1>6. /\ FallenBack(st, S) \in Stats
        /\ FallenBack(st, S).queried = st.queried
        /\ FallenBack(st, S).gaps = st.gaps + c
    <2>1. /\ st.queried \in Nat /\ st.fromCache \in Nat /\ st.fromNet \in Nat
          /\ st.fromBundled \in Nat /\ st.nonMalicious \in Nat /\ st.gaps \in Nat
      BY DEF Stats
    <2>2. FallenBack(st, S) = [queried |-> st.queried, fromCache |-> st.fromCache,
                               fromNet |-> st.fromNet, fromBundled |-> st.fromBundled + a,
                               nonMalicious |-> st.nonMalicious + b, gaps |-> st.gaps + c]
      BY <1>4 DEF Stats
    <2>3. /\ st.fromBundled + a \in Nat
          /\ st.nonMalicious + b \in Nat
          /\ st.gaps + c \in Nat
      BY <2>1, <1>5
    <2> QED BY <2>1, <2>2, <2>3 DEF Stats
  <1> QED BY <1>6 DEF c

\* Merging answers.
LEMMA WithTypes ==
    ASSUME NEW f, NEW g, NEW A,
           \A p \in DOMAIN f : f[p] \in A,
           \A p \in DOMAIN g : g[p] \in A
    PROVE  /\ DOMAIN With(f, g) = DOMAIN f \cup DOMAIN g
           /\ \A p \in DOMAIN With(f, g) : With(f, g)[p] \in A
           /\ \A p \in DOMAIN g : With(f, g)[p] = g[p]
           /\ \A p \in DOMAIN f \ DOMAIN g : With(f, g)[p] = f[p]
  BY DEF With

-----------------------------------------------------------------------------
(***************************************************************************)
(* What the parts of a QueryBatch call do.                                 *)
(***************************************************************************)

\* The serial loop over the cache.
LEMMA LookupFacts ==
    ASSUME TypeOK, NEW S, S \subseteq graph, Lookup(S)
    PROVE  /\ asked' = S /\ missing' \subseteq S /\ failed' = FALSE
           /\ \A p \in missing' : ~Usable(p)
           /\ DOMAIN advisories' = DOMAIN advisories \cup (S \ missing')
           /\ \A p \in DOMAIN advisories' : advisories'[p] \in Advice \cup {Absent}
           /\ \A p \in DOMAIN advisories \ S : advisories'[p] = advisories[p]
           /\ \A p \in S \ missing' :
                  Usable(p) => advisories'[p] = cache[p].advice /\ p \in covered'
           /\ ~flags.offline => \A p \in S \ missing' : Usable(p)
           /\ covered \subseteq covered' /\ covered' \subseteq covered \cup (S \ missing')
           /\ stats' \in Stats /\ stats'.queried = Cardinality(S)
           /\ S \cap covered = {} => stats'.gaps = Cardinality((S \ missing') \ covered')
  <1> DEFINE hits == {p \in S : Usable(p)}
             lost == IF flags.offline THEN S \ hits ELSE {}
             base == [Zero EXCEPT !.queried = Cardinality(S), !.fromCache = Cardinality(hits)]
             kept == [p \in hits |-> cache[p].advice]
             found == With(kept, Fallback(lost))
  <1>1. /\ asked' = S /\ missing' = (S \ hits) \ lost /\ failed' = FALSE
        /\ stats' = FallenBack(base, lost)
        /\ advisories' = With(advisories, found)
        /\ covered' = covered \cup hits \cup Covering(lost)
    BY DEF Lookup
  <1>2. S \subseteq Package /\ hits \subseteq S /\ lost \subseteq S /\ hits \cap lost = {}
    BY DEF TypeOK
  <1>3. \A p \in hits : cache[p].advice \in Advice
    BY <1>2 DEF TypeOK, Usable
  <1>4. \A p \in lost : Bundle[p] \in Advice \cup {Absent}
    BY <1>2, ScanAssumption
  <1>5. /\ DOMAIN kept = hits /\ \A p \in hits : kept[p] = cache[p].advice
        /\ DOMAIN Fallback(lost) = lost /\ \A p \in lost : Fallback(lost)[p] = Bundle[p]
    BY DEF Fallback
  <1>6. Covering(lost) \subseteq lost
    BY DEF Covering
  <1>7. S \ missing' = hits \cup lost
    BY <1>1, <1>2
  <1> HIDE DEF hits, lost, kept
  <1>8. /\ DOMAIN found = hits \cup lost
        /\ \A p \in hits : found[p] = cache[p].advice
        /\ \A p \in DOMAIN found : found[p] \in Advice \cup {Absent}
    BY <1>2, <1>3, <1>4, <1>5 DEF With
  <1> HIDE DEF found
  <1>9. /\ DOMAIN advisories' = DOMAIN advisories \cup (S \ missing')
        /\ \A p \in DOMAIN advisories' : advisories'[p] \in Advice \cup {Absent}
        /\ \A p \in DOMAIN advisories \ S : advisories'[p] = advisories[p]
        /\ \A p \in hits : advisories'[p] = cache[p].advice
    BY <1>1, <1>2, <1>7, <1>8 DEF With, TypeOK
  <1>10. /\ \A p \in missing' : ~Usable(p)
         /\ \A p \in S : Usable(p) <=> p \in hits
         /\ ~flags.offline => lost = {}
    BY <1>1 DEF hits, lost
  <1>11. base \in Stats /\ base.queried = Cardinality(S) /\ base.gaps = 0
    <2>1. Cardinality(S) \in Nat /\ Cardinality(hits) \in Nat
      BY <1>2, Counting
    <2> QED BY <2>1 DEF Stats, Zero
  <1> HIDE DEF base
  <1>12. /\ stats' \in Stats /\ stats'.queried = Cardinality(S)
         /\ stats'.gaps = Cardinality(lost \ Covering(lost))
    <2>1. Cardinality(lost \ Covering(lost)) \in Nat
      BY <1>2, Counting
    <2> QED BY <1>1, <1>2, <1>11, <2>1, FallenBackCounts
  <1>13. S \cap covered = {} => lost \ Covering(lost) = (S \ missing') \ covered'
    BY <1>1, <1>2, <1>6, <1>7
  <1> QED BY <1>1, <1>2, <1>6, <1>7, <1>9, <1>10, <1>12, <1>13

\* A request that is answered.
LEMMA PostFacts ==
    ASSUME TypeOK, NEW written, Post(written)
    PROVE  /\ Chunk \subseteq missing
           /\ DOMAIN advisories' = DOMAIN advisories \cup Chunk
           /\ \A p \in Chunk : advisories'[p] = live[p] /\ live[p] \in Advice
           /\ \A p \in DOMAIN advisories \ Chunk : advisories'[p] = advisories[p]
           /\ stats' \in Stats /\ stats'.queried = stats.queried /\ stats'.gaps = stats.gaps
  <1>1. Chunk \subseteq missing
    BY DEF Chunk
  <1>2. Chunk \subseteq Package
    BY <1>1 DEF TypeOK
  <1>3. Cardinality(Chunk) \in Nat
    BY <1>2, Counting
  <1>4. advisories' = With(advisories, [p \in Chunk |-> live[p]])
    BY DEF Post
  <1>5. stats' = [stats EXCEPT !.fromNet = stats.fromNet + Cardinality(Chunk)]
    BY DEF Post
  <1> DEFINE n == Cardinality(Chunk)
  <1>6. n \in Nat /\ stats' = [stats EXCEPT !.fromNet = stats.fromNet + n]
    BY <1>3, <1>5
  <1> HIDE DEF n
  <1>7. /\ stats' \in Stats /\ stats'.queried = stats.queried /\ stats'.gaps = stats.gaps
    BY <1>6 DEF TypeOK, Stats
  <1>8. \A p \in Chunk : live[p] \in Advice
    BY <1>2 DEF TypeOK
  <1> QED BY <1>1, <1>4, <1>7, <1>8 DEF With

\* A request that fails.
LEMMA PostFailsFacts ==
    ASSUME TypeOK, PostFails
    PROVE  /\ DOMAIN advisories' = DOMAIN advisories \cup missing
           /\ \A p \in DOMAIN advisories' : advisories'[p] \in Advice \cup {Absent}
           /\ \A p \in DOMAIN advisories \ missing : advisories'[p] = advisories[p]
           /\ covered' = covered \cup Covering(missing) /\ Covering(missing) \subseteq missing
           /\ stats' \in Stats /\ stats'.queried = stats.queried
           /\ stats'.gaps = stats.gaps + Cardinality(missing \ Covering(missing))
  <1>1. missing \subseteq Package /\ stats \in Stats
    BY DEF TypeOK
  <1>2. stats' = FallenBack(stats, missing) /\ advisories' = With(advisories, Fallback(missing))
    BY DEF PostFails, Abandoned
  <1>3. \A p \in missing : Bundle[p] \in Advice \cup {Absent}
    BY <1>1, ScanAssumption
  <1>4. /\ DOMAIN advisories' = DOMAIN advisories \cup missing
        /\ \A p \in DOMAIN advisories' : advisories'[p] \in Advice \cup {Absent}
        /\ \A p \in DOMAIN advisories \ missing : advisories'[p] = advisories[p]
    BY <1>2, <1>3 DEF With, Fallback, TypeOK
  <1>5. covered' = covered \cup Covering(missing) /\ Covering(missing) \subseteq missing
    BY DEF PostFails, Abandoned, Covering
  <1> QED BY <1>1, <1>2, <1>4, <1>5, FallenBackCounts

\* Folding the second call into the report.
LEMMA FoldedFacts ==
    ASSUME TypeOK
    PROVE  /\ Folded \in [stats: Stats, error: BOOLEAN]
           /\ Folded.stats.queried = report.stats.queried + stats.queried
           /\ Folded.stats.gaps = report.stats.gaps + stats.gaps
  <1> DEFINE first == report.stats
             a == first.queried + stats.queried
             b == first.fromCache + stats.fromCache
             c == first.fromNet + stats.fromNet
             d == first.gaps + stats.gaps
             sum == [first EXCEPT !.queried = a, !.fromCache = b, !.fromNet = c, !.gaps = d]
  <1>1. first \in Stats /\ stats \in Stats /\ report.error \in BOOLEAN /\ failed \in BOOLEAN
    BY DEF TypeOK
  <1>2. Folded = [stats |-> sum, error |-> report.error \/ failed]
    BY DEF Folded
  <1>3. a \in Nat /\ b \in Nat /\ c \in Nat /\ d \in Nat
    BY <1>1 DEF Stats
  <1> HIDE DEF first, a, b, c, d
  <1>4. sum \in Stats /\ sum.queried = a /\ sum.gaps = d
    BY <1>1, <1>3 DEF Stats
  <1> HIDE DEF sum
  <1> QED BY <1>1, <1>2, <1>4 DEF a, d, first

-----------------------------------------------------------------------------
(***************************************************************************)
(* The types, and what has been asked about at each stage.                 *)
(***************************************************************************)
\* An entry whose time-to-live has passed.
LEMMA ExpiredEntry ==
    ASSUME NEW e, e \in {NoEntry} \cup [advice: Advice, fresh: BOOLEAN]
    PROVE  LET x == [e EXCEPT !.fresh = FALSE]
           IN  /\ x \in {NoEntry} \cup [advice: Advice, fresh: BOOLEAN]
               /\ x # NoEntry => e # NoEntry /\ x.advice = e.advice
  <1> DEFINE x == [e EXCEPT !.fresh = FALSE]
  <1>1. CASE e = NoEntry
    <2>1. e \in [advice: {Absent}, fresh: BOOLEAN] /\ e.advice = Absent
      BY <1>1 DEF NoEntry
    <2>2. x \in [advice: {Absent}, fresh: BOOLEAN] /\ x.fresh = FALSE /\ x.advice = Absent
      BY <2>1
    <2> HIDE DEF x
    <2>3. x = NoEntry
      BY <2>2 DEF NoEntry
    <2> QED BY <2>3 DEF x
  <1>2. CASE e \in [advice: Advice, fresh: BOOLEAN]
    <2>1. x \in [advice: Advice, fresh: BOOLEAN] /\ x.advice = e.advice
      BY <1>2
    <2>2. e # NoEntry
      BY <1>2 DEF NoEntry, Absent, Advice
    <2> QED BY <2>1, <2>2
  <1> QED BY <1>1, <1>2

LEMMA TypeInit == Init => TypeOK /\ Phased
  <1> SUFFICES ASSUME Init PROVE TypeOK /\ Phased
    OBVIOUS
  <1>1. [p \in Package |-> NoEntry] \in [Package -> {NoEntry} \cup [advice: Advice, fresh: BOOLEAN]]
    OBVIOUS
  <1>2. Zero \in Stats /\ [stats |-> Zero, error |-> FALSE] \in [stats: Stats, error: BOOLEAN]
    BY DEF Zero, Stats
  <1>3. DOMAIN advisories = {} /\ DOMAIN snapshot = {}
    BY DEF Init
  <1> QED BY <1>1, <1>2, <1>3, ScanAssumption DEF Init, TypeOK, Phased, Flags, Stage, ExitClean

LEMMA TypeStep ==
    ASSUME TypeOK, Phased, [Next]_vars
    PROVE  TypeOK'
  <1> USE DEF stores, setup, call, result
  <1>1. ASSUME NEW f \in Flags, NEW lock \in Locks, Begin(f, lock)
        PROVE  TypeOK'
    <2>1. lock \subseteq Package
      BY ScanAssumption
    <2>2. Imported \in [Package -> {NoEntry} \cup [advice: Advice, fresh: BOOLEAN]]
      BY DEF Imported, TypeOK
    <2>3. DOMAIN advisories = {} /\ covered = {} /\ asked = {} /\ missing = {}
      BY <1>1 DEF Begin, Phased
    <2>4. cache' \in [Package -> {NoEntry} \cup [advice: Advice, fresh: BOOLEAN]]
      BY <1>1, <2>2 DEF Begin, TypeOK
    <2>5. scans' \in Nat
      BY <1>1 DEF Begin, TypeOK
    <2>6. /\ flags' = f /\ stage' = "pinned" /\ pinned' = lock /\ graph' = lock
          /\ UNCHANGED <<live, snapshot, said, advisories, call, covered, result>>
      BY <1>1 DEF Begin
    <2> QED BY <2>1, <2>3, <2>4, <2>5, <2>6 DEF TypeOK, Stage
  <1>2. CASE AskPinned
    <2>1. Lookup(graph) /\ stage' = "first" /\ UNCHANGED <<stores, setup, graph, result>>
      BY <1>2 DEF AskPinned
    <2>2. /\ asked' = graph /\ missing' \subseteq graph /\ failed' = FALSE
          /\ DOMAIN advisories' = DOMAIN advisories \cup (graph \ missing')
          /\ \A p \in DOMAIN advisories' : advisories'[p] \in Advice \cup {Absent}
          /\ covered' \subseteq covered \cup (graph \ missing')
          /\ stats' \in Stats
      BY <2>1, LookupFacts
    <2> QED BY <2>1, <2>2 DEF TypeOK, Stage
  <1>3. ASSUME NEW written \in SUBSET Chunk, Post(written)
        PROVE  TypeOK'
    <2>1. /\ Chunk \subseteq missing
          /\ DOMAIN advisories' = DOMAIN advisories \cup Chunk
          /\ \A p \in Chunk : advisories'[p] = live[p] /\ live[p] \in Advice
          /\ \A p \in DOMAIN advisories \ Chunk : advisories'[p] = advisories[p]
          /\ stats' \in Stats
      BY <1>3, PostFacts
    <2>2. cache' \in [Package -> {NoEntry} \cup [advice: Advice, fresh: BOOLEAN]]
      <3>1. cache' = [p \in Package |-> IF p \in written THEN [advice |-> live[p], fresh |-> TRUE]
                                        ELSE cache[p]]
        BY <1>3 DEF Post
      <3> QED BY <3>1 DEF TypeOK
    <2>3. /\ covered' = covered \cup Chunk
          /\ said' = said \cup {<<p, live[p]>> : p \in Chunk}
          /\ missing' = missing \ Chunk
          /\ UNCHANGED <<live, snapshot, setup, stage, graph, asked, failed, result>>
      BY <1>3 DEF Post
    <2>4. said' \subseteq Package \X Advice
      BY <2>1, <2>3 DEF TypeOK
    <2>5. Chunk \subseteq graph
      BY <2>1 DEF TypeOK
    <2>6. /\ DOMAIN advisories' \subseteq graph'
          /\ \A p \in DOMAIN advisories' : advisories'[p] \in Advice \cup {Absent}
          /\ covered' \subseteq DOMAIN advisories'
          /\ missing' \subseteq asked'
      BY <2>1, <2>3, <2>5 DEF TypeOK
    <2> QED BY <2>1, <2>2, <2>3, <2>4, <2>6 DEF TypeOK
  <1>4. CASE PostFails
    <2>1. /\ DOMAIN advisories' = DOMAIN advisories \cup missing
          /\ \A p \in DOMAIN advisories' : advisories'[p] \in Advice \cup {Absent}
          /\ covered' \subseteq covered \cup missing
          /\ stats' \in Stats
      BY <1>4, PostFailsFacts
    <2>2. /\ missing' = {} /\ failed' = TRUE
          /\ UNCHANGED <<stores, setup, stage, graph, asked, result>>
      BY <1>4 DEF PostFails, Stored
    <2> QED BY <2>1, <2>2 DEF TypeOK
  <1>5. CASE FinishFirst
    <2>1. /\ snapshot' = Exported
          /\ report' = [stats |-> stats, error |-> failed]
          /\ gapListed' = Listed
          /\ stage' = "grow" /\ stage = "first" /\ missing = {}
          /\ UNCHANGED <<live, cache, said, setup, graph, advisories, call, covered, elsewhere, exit>>
      BY <1>5 DEF FinishFirst, Answered
    <2>2. asked \subseteq DOMAIN advisories /\ asked \subseteq Package
      BY <2>1 DEF TypeOK, Phased
    <2>3. DOMAIN Exported \subseteq Package /\ \A p \in DOMAIN Exported : Exported[p] \in Advice
      BY <2>2 DEF Exported, TypeOK, Advice
    <2>4. Listed \in BOOLEAN
      BY DEF Listed, TypeOK
    <2> QED BY <2>1, <2>3, <2>4 DEF TypeOK, Stage
  <1>6. ASSUME NEW found \in SUBSET (Package \ pinned), NEW gap \in BOOLEAN, Grow(found, gap)
        PROVE  TypeOK'
    BY <1>6 DEF Grow, TypeOK, Stage
  <1>7. CASE AskRest
    <2>1. Lookup(Rest) /\ stage' = "second" /\ UNCHANGED <<stores, setup, graph, result>>
      BY <1>7 DEF AskRest
    <2>2. Rest \subseteq graph
      BY DEF Rest
    <2>3. /\ asked' = Rest /\ missing' \subseteq Rest /\ failed' = FALSE
          /\ DOMAIN advisories' = DOMAIN advisories \cup (Rest \ missing')
          /\ \A p \in DOMAIN advisories' : advisories'[p] \in Advice \cup {Absent}
          /\ covered' \subseteq covered \cup (Rest \ missing')
          /\ stats' \in Stats
      BY <2>1, <2>2, LookupFacts
    <2> QED BY <2>1, <2>2, <2>3 DEF TypeOK, Stage
  <1>8. CASE FinishSecond
    <2>1. /\ report' = Folded /\ stage' = "judge"
          /\ UNCHANGED <<stores, setup, graph, advisories, call, covered, gapListed, elsewhere, exit>>
      BY <1>8 DEF FinishSecond
    <2>2. Folded \in [stats: Stats, error: BOOLEAN]
      BY FoldedFacts
    <2> QED BY <2>1, <2>2 DEF TypeOK, Stage
  <1>9. CASE Judge
    BY <1>9 DEF Judge, TypeOK, Stage
  <1>10. CASE Close
    <2>1. DOMAIN advisories' = {}
      BY <1>10 DEF Close
    <2>2. /\ Zero \in Stats
          /\ [stats |-> Zero, error |-> FALSE] \in [stats: Stats, error: BOOLEAN]
          /\ [offline |-> FALSE, imports |-> FALSE, exports |-> FALSE] \in Flags
      BY DEF Zero, Stats, Flags
    <2> QED BY <1>10, <2>1, <2>2 DEF Close, TypeOK, Stage
  <1>11. ASSUME NEW p \in Package, Publish(p)
         PROVE  TypeOK'
    <2>1. live' \in [Package -> Advice]
      BY <1>11 DEF Publish, TypeOK, Advice
    <2> QED BY <1>11, <2>1 DEF Publish, TypeOK
  <1>12. CASE Expire
    <2>1. \A p \in Package :
              [cache[p] EXCEPT !.fresh = FALSE] \in {NoEntry} \cup [advice: Advice, fresh: BOOLEAN]
      BY ExpiredEntry DEF TypeOK
    <2>2. cache' \in [Package -> {NoEntry} \cup [advice: Advice, fresh: BOOLEAN]]
      BY <1>12, <2>1 DEF Expire
    <2> QED BY <1>12, <2>2 DEF Expire, TypeOK
  <1>13. CASE Move
    <2>1. cache' \in [Package -> {NoEntry} \cup [advice: Advice, fresh: BOOLEAN]]
      BY <1>13 DEF Move
    <2> QED BY <1>13, <2>1 DEF Move, TypeOK
  <1>14. CASE UNCHANGED vars
    BY <1>14 DEF vars, TypeOK
  <1> QED
    BY <1>1, <1>2, <1>3, <1>4, <1>5, <1>6, <1>7, <1>8, <1>9, <1>10, <1>11, <1>12, <1>13, <1>14
    DEF Next, Step

LEMMA PhasedStep ==
    ASSUME TypeOK, Phased, [Next]_vars
    PROVE  Phased'
  <1> USE DEF stores, setup, call, result
  <1>1. ASSUME NEW f \in Flags, NEW lock \in Locks, Begin(f, lock)
        PROVE  Phased'
    BY <1>1 DEF Begin, Phased
  <1>2. CASE AskPinned
    <2>1. /\ Lookup(graph) /\ stage = "pinned" /\ stage' = "first"
          /\ UNCHANGED <<stores, setup, graph, result>>
      BY <1>2 DEF AskPinned
    <2>2. /\ asked' = graph /\ DOMAIN advisories' = DOMAIN advisories \cup (graph \ missing')
      BY <2>1, LookupFacts
    <2> QED BY <2>1, <2>2 DEF Phased
  <1>3. ASSUME NEW written \in SUBSET Chunk, Post(written)
        PROVE  Phased'
    <2>1. Chunk \subseteq missing /\ DOMAIN advisories' = DOMAIN advisories \cup Chunk
      BY <1>3, PostFacts
    <2>2. /\ stage \in {"first", "second"} /\ missing' = missing \ Chunk
          /\ UNCHANGED <<live, snapshot, setup, stage, graph, asked, failed, result>>
      BY <1>3 DEF Post
    <2> QED BY <2>1, <2>2 DEF Phased, TypeOK
  <1>4. CASE PostFails
    <2>1. DOMAIN advisories' = DOMAIN advisories \cup missing
      BY <1>4, PostFailsFacts
    <2>2. /\ stage \in {"first", "second"} /\ missing' = {}
          /\ UNCHANGED <<stores, setup, stage, graph, asked, result>>
      BY <1>4 DEF PostFails, Stored
    <2> QED BY <2>1, <2>2 DEF Phased, TypeOK
  <1>5. CASE FinishFirst
    BY <1>5 DEF FinishFirst, Answered, Phased
  <1>6. ASSUME NEW found \in SUBSET (Package \ pinned), NEW gap \in BOOLEAN, Grow(found, gap)
        PROVE  Phased'
    BY <1>6 DEF Grow, Phased
  <1>7. CASE AskRest
    <2>1. /\ Lookup(Rest) /\ stage = "grown" /\ stage' = "second"
          /\ UNCHANGED <<stores, setup, graph, result>>
      BY <1>7 DEF AskRest
    <2>2. DOMAIN advisories = pinned /\ Rest = graph \ pinned /\ pinned \subseteq graph
      BY <2>1 DEF Phased, Rest, TypeOK
    <2>3. /\ asked' = Rest /\ missing' \subseteq Rest
          /\ DOMAIN advisories' = DOMAIN advisories \cup (Rest \ missing')
      BY <2>1, <2>2, LookupFacts
    <2> QED BY <2>1, <2>2, <2>3 DEF Phased
  <1>8. CASE FinishSecond
    BY <1>8 DEF FinishSecond, Answered, Phased
  <1>9. CASE Judge
    BY <1>9 DEF Judge, Phased
  <1>10. CASE Close
    <2>1. DOMAIN advisories' = {}
      BY <1>10 DEF Close
    <2> QED BY <1>10, <2>1 DEF Close, Phased
  <1>11. ASSUME NEW p \in Package, Publish(p)
         PROVE  Phased'
    BY <1>11 DEF Publish, Phased
  <1>12. CASE Expire
    BY <1>12 DEF Expire, Phased
  <1>13. CASE Move
    BY <1>13 DEF Move, Phased
  <1>14. CASE UNCHANGED vars
    BY <1>14 DEF vars, Phased
  <1> QED
    BY <1>1, <1>2, <1>3, <1>4, <1>5, <1>6, <1>7, <1>8, <1>9, <1>10, <1>11, <1>12, <1>13, <1>14
    DEF Next, Step

\* Every variable of the scans keeps its type: the tiers, the chunked call and
\* the two passes of cmd/depsnort touch only what they should.
THEOREM TypeCorrect == Spec => []TypeOK
  <1>1. TypeOK /\ Phased /\ [Next]_vars => TypeOK' /\ Phased'
    BY TypeStep, PhasedStep
  <1> QED BY TypeInit, <1>1, PTL DEF Spec

-----------------------------------------------------------------------------
(***************************************************************************)
(* The counts.                                                             *)
(***************************************************************************)
LEMMA CountedStep ==
    ASSUME TypeOK, Phased, Counted, [Next]_vars
    PROVE  Counted'
  <1> USE DEF stores, setup, call, result
  <1>1. ASSUME NEW f \in Flags, NEW lock \in Locks, Begin(f, lock)
        PROVE  Counted'
    BY <1>1 DEF Begin, Counted
  <1>2. CASE AskPinned
    <2>1. /\ Lookup(graph) /\ stage = "pinned" /\ stage' = "first"
      BY <1>2 DEF AskPinned
    <2>2. covered = {}
      BY <2>1 DEF Phased
    <2>3. /\ asked' = graph /\ stats'.queried = Cardinality(graph)
          /\ stats'.gaps = Cardinality((graph \ missing') \ covered')
      BY <2>1, <2>2, LookupFacts
    <2> QED BY <2>1, <2>3 DEF Counted
  <1>3. ASSUME NEW written \in SUBSET Chunk, Post(written)
        PROVE  Counted'
    <2>1. Chunk \subseteq missing /\ stats'.queried = stats.queried /\ stats'.gaps = stats.gaps
      BY <1>3, PostFacts
    <2>2. /\ covered' = covered \cup Chunk /\ missing' = missing \ Chunk
          /\ stage \in {"first", "second"}
          /\ UNCHANGED <<live, snapshot, setup, stage, graph, asked, failed, result>>
      BY <1>3 DEF Post
    <2>3. (asked \ missing') \ covered' = (asked \ missing) \ covered
      BY <2>1, <2>2 DEF TypeOK
    <2>4. stage = "second" => pinned \ covered' = pinned \ covered
      BY <2>1, <2>2 DEF TypeOK, Phased
    <2> QED BY <2>1, <2>2, <2>3, <2>4 DEF Counted
  <1>4. CASE PostFails
    <2>1. /\ covered' = covered \cup Covering(missing) /\ Covering(missing) \subseteq missing
          /\ stats'.queried = stats.queried
          /\ stats'.gaps = stats.gaps + Cardinality(missing \ Covering(missing))
      BY <1>4, PostFailsFacts
    <2>2. /\ missing' = {} /\ stage \in {"first", "second"}
          /\ UNCHANGED <<stores, setup, stage, graph, asked, result>>
      BY <1>4 DEF PostFails, Stored
    <2>3. missing \cap covered = {}
      BY <2>2 DEF Phased, TypeOK
    <2>4. (asked \ missing') \ covered'
            = ((asked \ missing) \ covered) \cup (missing \ Covering(missing))
      BY <2>1, <2>2, <2>3 DEF TypeOK
    <2>5. Cardinality((asked \ missing') \ covered')
            = Cardinality((asked \ missing) \ covered) + Cardinality(missing \ Covering(missing))
      BY <2>4, CountingApart DEF TypeOK
    <2>6. stage = "second" => pinned \ covered' = pinned \ covered
      BY <2>1, <2>2 DEF TypeOK, Phased
    <2> QED BY <2>1, <2>2, <2>5, <2>6 DEF Counted
  <1>5. CASE FinishFirst
    <2>1. /\ stage = "first" /\ missing = {} /\ stage' = "grow"
          /\ report' = [stats |-> stats, error |-> failed]
          /\ UNCHANGED <<pinned, covered>>
      BY <1>5 DEF FinishFirst, Answered
    <2>2. asked = pinned /\ (asked \ missing) \ covered = pinned \ covered
      BY <2>1 DEF Phased
    <2> QED BY <2>1, <2>2 DEF Counted
  <1>6. ASSUME NEW found \in SUBSET (Package \ pinned), NEW gap \in BOOLEAN, Grow(found, gap)
        PROVE  Counted'
    BY <1>6 DEF Grow, Counted
  <1>7. CASE AskRest
    <2>1. /\ Lookup(Rest) /\ stage = "grown" /\ stage' = "second"
          /\ UNCHANGED <<pinned, report>>
      BY <1>7 DEF AskRest
    <2>2. /\ DOMAIN advisories = pinned /\ Rest = graph \ pinned /\ covered \subseteq pinned
          /\ Rest \subseteq graph /\ Rest \cap covered = {}
      BY <2>1 DEF Phased, Rest, TypeOK
    <2>3. /\ asked' = Rest /\ stats'.queried = Cardinality(Rest)
          /\ stats'.gaps = Cardinality((Rest \ missing') \ covered')
          /\ covered \subseteq covered' /\ covered' \subseteq covered \cup (Rest \ missing')
      BY <2>1, <2>2, LookupFacts
    <2>4. pinned \ covered' = pinned \ covered
      BY <2>2, <2>3
    <2> QED BY <2>1, <2>3, <2>4 DEF Counted
  <1>8. CASE FinishSecond
    <2>1. /\ stage = "second" /\ missing = {} /\ stage' = "judge" /\ report' = Folded
          /\ UNCHANGED <<graph, covered>>
      BY <1>8 DEF FinishSecond, Answered
    <2>2. /\ asked = graph \ pinned /\ pinned \subseteq graph /\ graph \subseteq Package
          /\ graph = pinned \cup asked
          /\ graph \ covered = (pinned \ covered) \cup ((asked \ missing) \ covered)
      BY <2>1 DEF Phased, TypeOK
    <2>3. /\ Cardinality(graph) = Cardinality(pinned) + Cardinality(asked)
          /\ Cardinality(graph \ covered)
               = Cardinality(pinned \ covered) + Cardinality((asked \ missing) \ covered)
      <3>1. pinned \subseteq Package /\ asked \subseteq Package /\ pinned \cap asked = {}
        BY <2>2
      <3>2. Cardinality(pinned \cup asked) = Cardinality(pinned) + Cardinality(asked)
        BY <3>1, CountingApart
      <3>3. Cardinality((pinned \ covered) \cup ((asked \ missing) \ covered))
              = Cardinality(pinned \ covered) + Cardinality((asked \ missing) \ covered)
        BY <3>1, CountingApart
      <3> QED BY <2>2, <3>2, <3>3
    <2>4. /\ Folded.stats.queried = report.stats.queried + stats.queried
          /\ Folded.stats.gaps = report.stats.gaps + stats.gaps
      BY FoldedFacts
    <2> QED BY <2>1, <2>3, <2>4 DEF Counted
  <1>9. CASE Judge
    BY <1>9 DEF Judge, Counted
  <1>10. CASE Close
    BY <1>10 DEF Close, Counted
  <1>11. ASSUME NEW p \in Package, Publish(p)
         PROVE  Counted'
    BY <1>11 DEF Publish, Counted
  <1>12. CASE Expire
    BY <1>12 DEF Expire, Counted
  <1>13. CASE Move
    BY <1>13 DEF Move, Counted
  <1>14. CASE UNCHANGED vars
    BY <1>14 DEF vars, Counted
  <1> QED
    BY <1>1, <1>2, <1>3, <1>4, <1>5, <1>6, <1>7, <1>8, <1>9, <1>10, <1>11, <1>12, <1>13, <1>14
    DEF Next, Step

LEMMA GatingStep ==
    ASSUME TypeOK, Phased, Counted, Gating, [Next]_vars
    PROVE  Gating'
  <1> USE DEF stores, setup, call, result
  <1>1. ASSUME NEW f \in Flags, NEW lock \in Locks, Begin(f, lock)
        PROVE  Gating'
    BY <1>1 DEF Begin, Gating
  <1>2. CASE AskPinned
    BY <1>2 DEF AskPinned, Gating
  <1>3. ASSUME NEW written \in SUBSET Chunk, Post(written)
        PROVE  Gating'
    <2>1. /\ covered \subseteq covered' /\ stage \in {"first", "second"}
          /\ UNCHANGED <<pinned, stage, result>>
      BY <1>3 DEF Post
    <2> QED BY <2>1 DEF Gating
  <1>4. CASE PostFails
    <2>1. /\ covered \subseteq covered' /\ stage \in {"first", "second"}
          /\ UNCHANGED <<pinned, stage, result>>
      BY <1>4 DEF PostFails
    <2> QED BY <2>1 DEF Gating
  <1>5. CASE FinishFirst
    <2>1. /\ stage = "first" /\ missing = {} /\ stage' = "grow" /\ gapListed' = Listed
          /\ UNCHANGED <<pinned, covered, exit>>
      BY <1>5 DEF FinishFirst, Answered
    <2>2. stats.gaps = Cardinality(pinned \ covered) /\ stats.gaps \in Nat
      <3>1. (asked \ missing) \ covered = pinned \ covered
        BY <2>1 DEF Phased
      <3> QED BY <2>1, <3>1 DEF Counted, TypeOK, Stats
    <2>3. ~Listed => stats.gaps = 0
      BY <2>2 DEF Listed
    <2>4. ~Listed => pinned \ covered = {}
      <3>1. IsFiniteSet(pinned \ covered)
        BY Counting DEF TypeOK
      <3> QED BY <3>1, <2>2, <2>3, FS_EmptySet
    <2> QED BY <2>1, <2>4 DEF Gating
  <1>6. ASSUME NEW found \in SUBSET (Package \ pinned), NEW gap \in BOOLEAN, Grow(found, gap)
        PROVE  Gating'
    BY <1>6 DEF Grow, Gating
  <1>7. CASE AskRest
    <2>1. /\ Lookup(Rest) /\ stage = "grown" /\ stage' = "second" /\ UNCHANGED <<pinned, result>>
      BY <1>7 DEF AskRest
    <2>2. covered \subseteq covered'
      BY <2>1, LookupFacts DEF Rest
    <2> QED BY <2>1, <2>2 DEF Gating
  <1>8. CASE FinishSecond
    BY <1>8 DEF FinishSecond, Gating
  <1>9. CASE Judge
    BY <1>9 DEF Judge, Gating, ExitClean, ExitBlock, ExitIncomplete
  <1>10. CASE Close
    BY <1>10 DEF Close, Gating
  <1>11. ASSUME NEW p \in Package, Publish(p)
         PROVE  Gating'
    BY <1>11 DEF Publish, Gating
  <1>12. CASE Expire
    BY <1>12 DEF Expire, Gating
  <1>13. CASE Move
    BY <1>13 DEF Move, Gating
  <1>14. CASE UNCHANGED vars
    BY <1>14 DEF vars, Gating
  <1> QED
    BY <1>1, <1>2, <1>3, <1>4, <1>5, <1>6, <1>7, <1>8, <1>9, <1>10, <1>11, <1>12, <1>13, <1>14
    DEF Next, Step

-----------------------------------------------------------------------------
(***************************************************************************)
(* What the cache and the snapshot hold.                                   *)
(***************************************************************************)
LEMMA HonestStep ==
    ASSUME TypeOK, Phased, Honest, [Next]_vars
    PROVE  Honest'
  <1> USE DEF stores, setup, call, result
  <1>1. ASSUME NEW f \in Flags, NEW lock \in Locks, Begin(f, lock)
        PROVE  Honest'
    <2>1. /\ ~(f.exports /\ f.offline) /\ flags' = f /\ stage' = "pinned"
          /\ cache' = (IF f.imports THEN Imported ELSE cache)
          /\ UNCHANGED <<snapshot, said>>
      BY <1>1 DEF Begin
    <2>2. ASSUME NEW p \in Package, cache'[p] # NoEntry
          PROVE  <<p, cache'[p].advice>> \in said
      <3>1. CASE f.imports /\ p \in DOMAIN snapshot
        <4>1. cache'[p] = [advice |-> snapshot[p], fresh |-> TRUE]
          BY <2>1, <3>1 DEF Imported
        <4> QED BY <3>1, <4>1 DEF Honest, StoresAreHonest
      <3>2. CASE ~(f.imports /\ p \in DOMAIN snapshot)
        <4>1. cache'[p] = cache[p]
          BY <2>1, <3>2 DEF Imported
        <4> QED BY <2>2, <4>1 DEF Honest, StoresAreHonest
      <3> QED BY <3>1, <3>2
    <2> QED BY <2>1, <2>2 DEF Honest, StoresAreHonest
  <1>2. CASE AskPinned
    <2>1. /\ Lookup(graph) /\ stage' = "first" /\ UNCHANGED <<cache, snapshot, said, flags>>
      BY <1>2 DEF AskPinned
    <2>2. /\ asked' = graph
          /\ \A p \in graph \ missing' : Usable(p) => advisories'[p] = cache[p].advice
          /\ ~flags.offline => \A p \in graph \ missing' : Usable(p)
      BY <2>1, LookupFacts
    <2>3. ASSUME ~flags.offline, NEW p \in graph \ missing'
          PROVE  <<p, advisories'[p]>> \in said
      <3>1. Usable(p) /\ p \in Package
        BY <2>2, <2>3 DEF TypeOK
      <3>2. cache[p] # NoEntry
        BY <3>1 DEF Usable
      <3> QED BY <2>2, <3>1, <3>2 DEF Honest, StoresAreHonest
    <2> QED BY <2>1, <2>2, <2>3 DEF Honest, StoresAreHonest
  <1>3. ASSUME NEW written \in SUBSET Chunk, Post(written)
        PROVE  Honest'
    <2>1. /\ Chunk \subseteq missing
          /\ \A p \in Chunk : advisories'[p] = live[p]
          /\ \A p \in DOMAIN advisories \ Chunk : advisories'[p] = advisories[p]
      BY <1>3, PostFacts
    <2>2. /\ missing' = missing \ Chunk
          /\ said' = said \cup {<<p, live[p]>> : p \in Chunk}
          /\ cache' = [p \in Package |-> IF p \in written THEN [advice |-> live[p], fresh |-> TRUE]
                                         ELSE cache[p]]
          /\ UNCHANGED <<snapshot, flags, stage, asked, failed>>
      BY <1>3 DEF Post
    <2>3. ASSUME NEW p \in Package, cache'[p] # NoEntry
          PROVE  <<p, cache'[p].advice>> \in said'
      <3>1. CASE p \in written
        <4>1. cache'[p] = [advice |-> live[p], fresh |-> TRUE]
          BY <2>2, <3>1
        <4> QED BY <2>2, <3>1, <4>1
      <3>2. CASE p \notin written
        <4>1. cache'[p] = cache[p]
          BY <2>2, <3>2
        <4> QED BY <2>2, <2>3, <4>1 DEF Honest, StoresAreHonest
      <3> QED BY <3>1, <3>2
    <2>4. ASSUME stage = "first", ~failed, ~flags.offline, NEW p \in asked \ missing'
          PROVE  <<p, advisories'[p]>> \in said'
      <3>1. CASE p \in Chunk
        BY <2>1, <2>2, <3>1
      <3>2. CASE p \notin Chunk
        <4>1. p \in asked \ missing /\ p \in DOMAIN advisories
          BY <2>2, <2>4, <3>2 DEF Phased
        <4> QED BY <2>1, <2>2, <2>4, <3>2, <4>1 DEF Honest
      <3> QED BY <3>1, <3>2
    <2> QED BY <2>2, <2>3, <2>4 DEF Honest, StoresAreHonest
  <1>4. CASE PostFails
    BY <1>4 DEF PostFails, Stored, Honest, StoresAreHonest
  <1>5. CASE FinishFirst
    <2>1. /\ stage = "first" /\ missing = {} /\ stage' = "grow" /\ snapshot' = Exported
          /\ UNCHANGED <<cache, said, flags>>
      BY <1>5 DEF FinishFirst, Answered
    <2>2. ASSUME NEW p \in DOMAIN Exported
          PROVE  <<p, Exported[p]>> \in said
      <3>1. CASE flags.exports /\ ~failed
        <4>1. p \in asked
          BY <3>1 DEF Exported
        <4>2. <<p, advisories[p]>> \in said
          BY <2>1, <3>1, <4>1 DEF Honest
        <4>3. advisories[p] # Absent
          BY <4>2 DEF TypeOK, Advice, Absent
        <4> QED BY <3>1, <4>1, <4>2, <4>3 DEF Exported
      <3>2. CASE ~(flags.exports /\ ~failed)
        <4>1. Exported = snapshot
          BY <3>2 DEF Exported
        <4> QED BY <4>1 DEF Honest, StoresAreHonest
      <3> QED BY <3>1, <3>2
    <2> QED BY <2>1, <2>2 DEF Honest, StoresAreHonest
  <1>6. ASSUME NEW found \in SUBSET (Package \ pinned), NEW gap \in BOOLEAN, Grow(found, gap)
        PROVE  Honest'
    BY <1>6 DEF Grow, Honest, StoresAreHonest
  <1>7. CASE AskRest
    BY <1>7 DEF AskRest, Honest, StoresAreHonest
  <1>8. CASE FinishSecond
    BY <1>8 DEF FinishSecond, Honest, StoresAreHonest
  <1>9. CASE Judge
    BY <1>9 DEF Judge, Honest, StoresAreHonest
  <1>10. CASE Close
    BY <1>10 DEF Close, Honest, StoresAreHonest
  <1>11. ASSUME NEW p \in Package, Publish(p)
         PROVE  Honest'
    BY <1>11 DEF Publish, Honest, StoresAreHonest
  <1>12. CASE Expire
    <2>1. /\ cache' = [p \in Package |-> [cache[p] EXCEPT !.fresh = FALSE]]
          /\ UNCHANGED <<snapshot, said, flags, stage, asked, missing, failed, advisories>>
      BY <1>12 DEF Expire
    <2>2. ASSUME NEW p \in Package, cache'[p] # NoEntry
          PROVE  <<p, cache'[p].advice>> \in said
      <3>1. cache'[p] = [cache[p] EXCEPT !.fresh = FALSE]
        BY <2>1
      <3>2. cache[p] # NoEntry /\ cache'[p].advice = cache[p].advice
        BY <2>2, <3>1, ExpiredEntry DEF TypeOK
      <3> QED BY <3>2 DEF Honest, StoresAreHonest
    <2> QED BY <2>1, <2>2 DEF Honest, StoresAreHonest
  <1>13. CASE Move
    BY <1>13 DEF Move, Honest, StoresAreHonest
  <1>14. CASE UNCHANGED vars
    BY <1>14 DEF vars, Honest, StoresAreHonest
  <1> QED
    BY <1>1, <1>2, <1>3, <1>4, <1>5, <1>6, <1>7, <1>8, <1>9, <1>10, <1>11, <1>12, <1>13, <1>14
    DEF Next, Step

\* A call that asks about nothing already answered keeps the snapshot's answers.
LEMMA LookedUp ==
    ASSUME TypeOK, Bootstrapped, flags.imports, ~flags.exports,
           NEW S, S \subseteq graph, S \cap DOMAIN advisories = {}, Lookup(S)
    PROVE  \A p \in DOMAIN snapshot :
               /\ p \notin missing'
               /\ p \in DOMAIN advisories' => advisories'[p] = snapshot[p] /\ p \in covered'
  <1>1. /\ missing' \subseteq S /\ \A p \in missing' : ~Usable(p)
        /\ DOMAIN advisories' = DOMAIN advisories \cup (S \ missing')
        /\ \A p \in DOMAIN advisories \ S : advisories'[p] = advisories[p]
        /\ \A p \in S \ missing' : Usable(p) => advisories'[p] = cache[p].advice /\ p \in covered'
        /\ covered \subseteq covered'
    BY LookupFacts
  <1>2. ASSUME NEW p \in DOMAIN snapshot
        PROVE  Usable(p) /\ cache[p].advice = snapshot[p]
    <2>1. cache[p] = [advice |-> snapshot[p], fresh |-> TRUE]
      BY DEF Bootstrapped
    <2>2. cache[p].fresh = TRUE /\ cache[p].advice = snapshot[p]
      BY <2>1
    <2>3. cache[p] # NoEntry
      BY <2>2 DEF NoEntry
    <2> QED BY <2>2, <2>3 DEF Usable
  <1>3. \A p \in DOMAIN snapshot :
            p \in DOMAIN advisories => advisories[p] = snapshot[p] /\ p \in covered
    BY DEF Bootstrapped
  <1> QED BY <1>1, <1>2, <1>3

LEMMA BootstrappedStep ==
    ASSUME TypeOK, Phased, Bootstrapped, [Next]_vars
    PROVE  Bootstrapped'
  <1> USE DEF stores, setup, call, result
  <1>1. ASSUME NEW f \in Flags, NEW lock \in Locks, Begin(f, lock)
        PROVE  Bootstrapped'
    <2>1. /\ flags' = f /\ stage = "idle" /\ stage' = "pinned"
          /\ cache' = (IF f.imports THEN Imported ELSE cache)
          /\ UNCHANGED <<snapshot, missing, advisories, covered>>
      BY <1>1 DEF Begin
    <2>2. DOMAIN advisories = {} /\ missing = {} /\ DOMAIN snapshot \subseteq Package
      BY <2>1 DEF Phased, TypeOK
    <2>3. \A p \in DOMAIN snapshot : Imported[p] = [advice |-> snapshot[p], fresh |-> TRUE]
      BY <2>2 DEF Imported
    <2> QED BY <2>1, <2>2, <2>3 DEF Bootstrapped
  <1>2. CASE AskPinned
    <2>1. /\ Lookup(graph) /\ stage' = "first" /\ UNCHANGED <<cache, snapshot, flags>>
          /\ DOMAIN advisories = {}
      BY <1>2 DEF AskPinned, Phased
    <2> QED BY <2>1, LookedUp DEF Bootstrapped
  <1>3. ASSUME NEW written \in SUBSET Chunk, Post(written)
        PROVE  Bootstrapped'
    <2>1. /\ Chunk \subseteq missing
          /\ DOMAIN advisories' = DOMAIN advisories \cup Chunk
          /\ \A p \in DOMAIN advisories \ Chunk : advisories'[p] = advisories[p]
      BY <1>3, PostFacts
    <2>2. /\ cache' = [p \in Package |-> IF p \in written THEN [advice |-> live[p], fresh |-> TRUE]
                                         ELSE cache[p]]
          /\ missing' = missing \ Chunk /\ covered' = covered \cup Chunk
          /\ UNCHANGED <<snapshot, flags, stage>>
      BY <1>3 DEF Post
    <2>3. ASSUME NEW p \in Package, p \notin missing
          PROVE  cache'[p] = cache[p] /\ p \notin Chunk
      BY <2>1, <2>2, <2>3
    <2>4. DOMAIN snapshot \subseteq Package
      BY DEF TypeOK
    <2> QED BY <2>1, <2>2, <2>3, <2>4 DEF Bootstrapped
  <1>4. CASE PostFails
    <2>1. /\ DOMAIN advisories' = DOMAIN advisories \cup missing
          /\ \A p \in DOMAIN advisories \ missing : advisories'[p] = advisories[p]
      BY <1>4, PostFailsFacts
    <2>2. /\ missing' = {} /\ covered \subseteq covered'
          /\ UNCHANGED <<cache, snapshot, flags, stage>>
      BY <1>4 DEF PostFails, Stored
    <2> QED BY <2>1, <2>2 DEF Bootstrapped
  <1>5. CASE FinishFirst
    <2>1. /\ stage' = "grow" /\ snapshot' = Exported
          /\ UNCHANGED <<cache, flags, missing, advisories, covered>>
      BY <1>5 DEF FinishFirst
    <2>2. ~flags.exports => snapshot' = snapshot
      BY <2>1 DEF Exported
    <2> QED BY <2>1, <2>2 DEF Bootstrapped
  <1>6. ASSUME NEW found \in SUBSET (Package \ pinned), NEW gap \in BOOLEAN, Grow(found, gap)
        PROVE  Bootstrapped'
    BY <1>6 DEF Grow, Bootstrapped
  <1>7. CASE AskRest
    <2>1. /\ Lookup(Rest) /\ stage' = "second" /\ UNCHANGED <<cache, snapshot, flags>>
          /\ Rest \subseteq graph /\ Rest \cap DOMAIN advisories = {}
      BY <1>7 DEF AskRest, Rest
    <2> QED BY <2>1, LookedUp DEF Bootstrapped
  <1>8. CASE FinishSecond
    BY <1>8 DEF FinishSecond, Bootstrapped
  <1>9. CASE Judge
    BY <1>9 DEF Judge, Bootstrapped
  <1>10. CASE Close
    BY <1>10 DEF Close, Bootstrapped
  <1>11. ASSUME NEW p \in Package, Publish(p)
         PROVE  Bootstrapped'
    BY <1>11 DEF Publish, Bootstrapped
  <1>12. CASE Expire
    BY <1>12 DEF Expire, Bootstrapped
  <1>13. CASE Move
    BY <1>13 DEF Move, Bootstrapped
  <1>14. CASE UNCHANGED vars
    BY <1>14 DEF vars, Bootstrapped
  <1> QED
    BY <1>1, <1>2, <1>3, <1>4, <1>5, <1>6, <1>7, <1>8, <1>9, <1>10, <1>11, <1>12, <1>13, <1>14
    DEF Next, Step

-----------------------------------------------------------------------------
(***************************************************************************)
(* The theorems.                                                           *)
(***************************************************************************)
\* The inductive invariant of the advisory tier: what each of the two QueryBatch
\* calls has asked, counted, listed and stored at every stage of a scan.
THEOREM Invariance == Spec => []IInv
  <1>1. Init => IInv
    <2> SUFFICES ASSUME Init PROVE IInv
      OBVIOUS
    <2>1. TypeOK /\ Phased
      BY TypeInit
    <2>2. Counted /\ Gating
      BY DEF Init, Counted, Gating
    <2>3. DOMAIN snapshot = {}
      BY DEF Init
    <2>4. Honest
      <3>1. \A p \in Package : cache[p] = NoEntry
        BY DEF Init
      <3>2. ~flags.exports /\ stage = "idle"
        BY DEF Init
      <3> QED BY <2>3, <3>1, <3>2 DEF Honest, StoresAreHonest
    <2>5. ~flags.imports
      BY DEF Init
    <2> QED BY <2>1, <2>2, <2>4, <2>5 DEF IInv, Bootstrapped
  <1>2. IInv /\ [Next]_vars => IInv'
    <2> SUFFICES ASSUME IInv, [Next]_vars PROVE IInv'
      OBVIOUS
    <2>1. TypeOK /\ Phased /\ Counted /\ Gating /\ Honest /\ Bootstrapped
      BY DEF IInv
    <2> QED
      BY <2>1, TypeStep, PhasedStep, CountedStep, GatingStep, HonestStep, BootstrappedStep DEF IInv
  <1> QED BY <1>1, <1>2, PTL DEF Spec

\* The report's gap count, over both calls, is the number of packages that no
\* source checked for malware (DS-REV-01 in osv.go, the fold in main.go).
THEOREM GapsAreCounted == Spec => []ReportCountsEveryGap
  <1>1. IInv => ReportCountsEveryGap
    BY DEF IInv, Phased, Counted, ReportCountsEveryGap
  <1> QED BY <1>1, Invariance, PTL

\* A scan that exits clean checked every package its lockfiles pin (the gap rule
\* after the first call in main.go).
THEOREM CleanIsChecked == Spec => []PinnedGapsGate
  <1>1. IInv => PinnedGapsGate
    BY DEF IInv, Gating, PinnedGapsGate
  <1> QED BY <1>1, Invariance, PTL

\* No gap and no bundled answer is ever stored as an answer of OSV, through any
\* sequence of exports, moves and imports (resolveFromBundledOrGap, snapshot.go).
THEOREM HonestStores == Spec => []StoresAreHonest
  <1>1. IInv => StoresAreHonest
    BY DEF IInv, Honest
  <1> QED BY <1>1, Invariance, PTL

\* A scan that imports a snapshot answers what it records (ImportSnapshot dates
\* its entries with the time of the import).
THEOREM SnapshotsReplay == Spec => []SnapshotReplays
  <1>1. IInv => SnapshotReplays
    BY DEF IInv, Phased, Bootstrapped, SnapshotReplays
  <1> QED BY <1>1, Invariance, PTL

\* No answer is replaced during a scan: the second call asks about nothing that
\* the first one did (the queried check of the post-expansion pass).
THEOREM AnswersKept == Spec => AnswersStand
  <1> DEFINE Stand == stage' # "idle" => \A p \in DOMAIN advisories :
                                            p \in DOMAIN advisories' /\ advisories'[p] = advisories[p]
  <1>1. IInv /\ [Next]_vars => [Stand]_vars
    <2> USE DEF stores, setup, call, result
    <2> SUFFICES ASSUME TypeOK, Phased, Next PROVE Stand
      BY DEF IInv
    <2>1. ASSUME NEW f \in Flags, NEW lock \in Locks, Begin(f, lock)
          PROVE  Stand
      BY <2>1 DEF Begin
    <2>2. CASE AskPinned
      <3>1. DOMAIN advisories = {}
        BY <2>2 DEF AskPinned, Phased
      <3> QED BY <3>1
    <2>3. ASSUME NEW written \in SUBSET Chunk, Post(written)
          PROVE  Stand
      <3>1. /\ Chunk \subseteq missing
            /\ DOMAIN advisories' = DOMAIN advisories \cup Chunk
            /\ \A p \in DOMAIN advisories \ Chunk : advisories'[p] = advisories[p]
        BY <2>3, PostFacts
      <3>2. stage \in {"first", "second"}
        BY <2>3 DEF Post
      <3>3. missing \cap DOMAIN advisories = {}
        BY <3>2 DEF Phased
      <3> QED BY <3>1, <3>3
    <2>4. CASE PostFails
      <3>1. /\ DOMAIN advisories' = DOMAIN advisories \cup missing
            /\ \A p \in DOMAIN advisories \ missing : advisories'[p] = advisories[p]
        BY <2>4, PostFailsFacts
      <3>2. stage \in {"first", "second"}
        BY <2>4 DEF PostFails
      <3>3. missing \cap DOMAIN advisories = {}
        BY <3>2 DEF Phased
      <3> QED BY <3>1, <3>3
    <2>5. CASE FinishFirst
      BY <2>5 DEF FinishFirst
    <2>6. ASSUME NEW found \in SUBSET (Package \ pinned), NEW gap \in BOOLEAN, Grow(found, gap)
          PROVE  Stand
      BY <2>6 DEF Grow
    <2>7. CASE AskRest
      <3>1. Lookup(Rest) /\ Rest \subseteq graph /\ Rest \cap DOMAIN advisories = {}
        BY <2>7 DEF AskRest, Rest
      <3>2. /\ DOMAIN advisories' = DOMAIN advisories \cup (Rest \ missing')
            /\ \A p \in DOMAIN advisories \ Rest : advisories'[p] = advisories[p]
        BY <3>1, LookupFacts
      <3> QED BY <3>1, <3>2
    <2>8. CASE FinishSecond
      BY <2>8 DEF FinishSecond
    <2>9. CASE Judge
      BY <2>9 DEF Judge
    <2>10. CASE Close
      BY <2>10 DEF Close
    <2>11. ASSUME NEW p \in Package, Publish(p)
           PROVE  Stand
      BY <2>11 DEF Publish
    <2>12. CASE Expire
      BY <2>12 DEF Expire
    <2>13. CASE Move
      BY <2>13 DEF Move
    <2> QED
      BY <2>1, <2>2, <2>3, <2>4, <2>5, <2>6, <2>7, <2>8, <2>9, <2>10, <2>11, <2>12, <2>13
      DEF Next, Step
  <1> QED BY <1>1, Invariance, PTL DEF Spec, AnswersStand

=============================================================================
