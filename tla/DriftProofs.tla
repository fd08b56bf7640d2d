----------------------------- MODULE DriftProofs -----------------------------
(***************************************************************************)
(* Proofs about Drift, for every tree, every history of releases and every *)
(* choice of failing requests.                                             *)
(***************************************************************************)
EXTENDS Drift, FiniteSetTheorems, WellFoundedInduction, TLAPS

-----------------------------------------------------------------------------
(***************************************************************************)
(* Finite sets, and their elements in the order of a rank.                 *)
(***************************************************************************)
LEMMA ImageFinite ==
    ASSUME NEW S, IsFiniteSet(S), NEW f
    PROVE  /\ IsFiniteSet({f[x] : x \in S})
           /\ Cardinality({f[x] : x \in S}) <= Cardinality(S)
<1>. DEFINE g == [x \in S |-> f[x]]
            T == {f[x] : x \in S}
<1>1. g \in Surjection(S, T)
    BY DEF Surjection
<1>. QED
    BY <1>1, FS_Surjection

\* Among the subsets of a finite set in a collection one holds no other: what
\* stands for an induction over finite sets.
LEMMA SmallestSubset ==
    ASSUME NEW S, IsFiniteSet(S), NEW C, C \subseteq SUBSET S, C # {}
    PROVE  \E T \in C : \A U \in C : U \subseteq T => U = T
<1>1. IsWellFoundedOn(StrictSubsetOrdering(S), SUBSET S)
    BY FS_FiniteSubsetsOfFinite, FS_StrictSubsetOrderingWellFounded
<1>2. PICK T \in C : \A U \in C : <<U, T>> \notin StrictSubsetOrdering(S)
    BY <1>1, WFMin
<1>. QED
    BY <1>2 DEF StrictSubsetOrdering

LEMMA GreatestExists ==
    ASSUME NEW S, IsFiniteSet(S), NEW r \in [S -> Nat], S # {}
    PROVE  \E x \in S : \A y \in S : r[y] <= r[x]
<1>. DEFINE Without == {T \in SUBSET S : T # {} /\ \A x \in T : \E y \in T : ~(r[y] <= r[x])}
<1>1. SUFFICES ASSUME Without # {} PROVE FALSE
  <2>1. S \notin Without
      BY <1>1
  <2>. QED
      BY <2>1
<1>2. PICK T \in Without : \A U \in Without : U \subseteq T => U = T
  <2>1. Without \subseteq SUBSET S
      OBVIOUS
  <2>. HIDE DEF Without
  <2>. QED
      BY <1>1, <2>1, SmallestSubset
<1>3. PICK x \in T : TRUE
    BY <1>2
<1>4. CASE T = {x}
  <2>1. r[x] \in Nat
      BY <1>2, <1>3
  <2>. QED
      BY <1>2, <1>4, <2>1
<1>5. CASE T # {x}
  <2>. DEFINE U == T \ {x}
  <2>1. U # {} /\ U \subseteq T /\ U # T /\ U \in SUBSET S
      BY <1>2, <1>3, <1>5
  <2>2. U \notin Without
      BY <1>2, <2>1
  <2>3. PICK y \in U : \A z \in U : r[z] <= r[y]
      BY <2>1, <2>2
  <2>4. /\ r[x] \in Nat /\ r[y] \in Nat
        /\ \A z \in T : z = x \/ z \in U
      BY <1>2, <1>3, <2>3
  <2>5. \E z \in {x, y} : \A w \in T : r[w] <= r[z]
    <3>1. CASE r[x] <= r[y]
        BY <2>3, <2>4, <3>1
    <3>2. CASE ~(r[x] <= r[y])
      <4>1. \A z \in U : r[z] \in Nat
          BY <2>1
      <4>. QED
          BY <2>3, <2>4, <3>2, <4>1
    <3>. QED
        BY <3>1, <3>2
  <2>. QED
      BY <1>2, <1>3, <2>3, <2>5
<1>. QED
    BY <1>4, <1>5

LEMMA OrderExists ==
    ASSUME NEW S, IsFiniteSet(S), NEW r \in [S -> Nat]
    PROVE  \E s \in [1..Cardinality(S) -> S] :
              /\ \A i, j \in 1..Cardinality(S) : i # j => s[i] # s[j]
              /\ \A i, j \in 1..Cardinality(S) : i < j => r[s[i]] <= r[s[j]]
<1>. DEFINE Orders(T) == {s \in [1..Cardinality(T) -> T] :
                            /\ \A i, j \in 1..Cardinality(T) : i # j => s[i] # s[j]
                            /\ \A i, j \in 1..Cardinality(T) : i < j => r[s[i]] <= r[s[j]]}
            Without   == {T \in SUBSET S : Orders(T) = {}}
<1>1. SUFFICES ASSUME Without # {} PROVE FALSE
    OBVIOUS
<1>2. PICK T \in Without : \A U \in Without : U \subseteq T => U = T
  <2>1. Without \subseteq SUBSET S
      OBVIOUS
  <2>. HIDE DEF Without
  <2>. QED
      BY <1>1, <2>1, SmallestSubset
<1>3. T \subseteq S /\ IsFiniteSet(T) /\ Orders(T) = {}
    BY <1>2, FS_Subset
<1>4. T # {}
  <2>1. SUFFICES ASSUME T = {} PROVE Orders(T) # {}
      BY <1>3
  <2>2. Cardinality(T) = 0
      BY <2>1, FS_EmptySet
  <2>3. [i \in 1..0 |-> 0] \in [1..0 -> T] /\ 1..0 = {}
      OBVIOUS
  <2>. QED
      BY <2>2, <2>3
<1>5. PICK x \in T : \A y \in T : r[y] <= r[x]
  <2>. DEFINE q == [y \in T |-> r[y]]
  <2>1. q \in [T -> Nat]
      BY <1>3
  <2>2. \E x \in T : \A y \in T : q[y] <= q[x]
      BY <1>3, <1>4, <2>1, GreatestExists
  <2>. QED
      BY <2>2
<1>. DEFINE U == T \ {x}
            n == Cardinality(U)
<1>6. IsFiniteSet(U) /\ n \in Nat /\ Cardinality(T) = n + 1
  <2>1. IsFiniteSet(T)
      BY <1>3
  <2>. HIDE DEF Orders, Without
  <2>2. IsFiniteSet(U) /\ Cardinality(U) = Cardinality(T) - 1
      BY <1>5, <2>1, FS_RemoveElement
  <2>3. Cardinality(T) \in Nat /\ Cardinality(U) \in Nat
      BY <2>1, <2>2, FS_CardinalityType
  <2>. QED
      BY <2>2, <2>3
<1>7. PICK s \in Orders(U) : TRUE
  <2>1. U \notin Without
      BY <1>2, <1>5
  <2>. QED
      BY <1>3, <2>1
<1>8. /\ s \in [1..n -> U]
      /\ \A i, j \in 1..n : i # j => s[i] # s[j]
      /\ \A i, j \in 1..n : i < j => r[s[i]] <= r[s[j]]
    BY <1>7
<1>. DEFINE t == [i \in 1..(n + 1) |-> IF i = n + 1 THEN x ELSE s[i]]
<1>9. t \in Orders(T)
  <2>. HIDE DEF n
  <2>1. \A i \in 1..(n + 1) : i # n + 1 => i \in 1..n
      BY <1>6
  <2>2. t \in [1..(n + 1) -> T]
      BY <1>5, <1>8, <2>1
  <2>3. ASSUME NEW i \in 1..(n + 1), NEW j \in 1..(n + 1), i # j PROVE t[i] # t[j]
    <3>1. \A k \in 1..n : s[k] # x
        BY <1>8
    <3>. QED
        BY <1>8, <2>1, <2>3, <3>1
  <2>4. ASSUME NEW i \in 1..(n + 1), NEW j \in 1..(n + 1), i < j PROVE r[t[i]] <= r[t[j]]
    <3>0. i \in 1..n /\ i # n + 1
        BY <1>6, <2>4
    <3>1. i \in 1..n /\ t[i] = s[i] /\ s[i] \in T
      <4>1. t[i] = s[i]
          BY <3>0
      <4>2. s[i] \in U
          BY <1>8, <3>0
      <4>. QED
          BY <3>0, <4>1, <4>2
    <3>2. CASE j = n + 1
        BY <1>5, <3>1, <3>2
    <3>3. CASE j # n + 1
        BY <1>8, <2>1, <2>4, <3>1, <3>3
    <3>. QED
        BY <3>2, <3>3
  <2>. QED
      BY <1>6, <2>2, <2>3, <2>4
<1>. QED
    BY <1>3, <1>9

-----------------------------------------------------------------------------
(***************************************************************************)
(* Trees, documents and histories.                                         *)
(***************************************************************************)
LEMMA NodeOfId ==
    ASSUME tree \in Tree, NEW m \in Nodes(tree)
    PROVE  m \in Node /\ m.id \in Ids(tree) /\ NodeOf(m.id) = m
<1>1. PICK p \in tree : m = p.node
    BY DEF Nodes
<1>2. m \in Node
    BY <1>1, DriftAssumption
<1>3. \A k \in Nodes(tree) : k.id = m.id => k = m
  <2>1. \A q \in tree : q.node.id = p.node.id => q.node = p.node
      BY DriftAssumption
  <2>. QED
      BY <1>1, <2>1 DEF Nodes
<1>. QED
    BY <1>2, <1>3 DEF NodeOf, Ids

LEMMA IdIsOfNode ==
    ASSUME tree \in Tree, NEW i \in Ids(tree)
    PROVE  NodeOf(i) \in Nodes(tree) /\ NodeOf(i).id = i
<1>1. PICK m \in Nodes(tree) : m.id = i
    BY DEF Ids
<1>. QED
    BY <1>1, NodeOfId

LEMMA SurfaceOnDisk ==
    ASSUME NEW m \in Node
    PROVE  ReadFrom(m) \subseteq Item
    BY DEF ReadFrom, Node

LEMMA UnavailableFinite ==
    ASSUME tree \in Tree
    PROVE  IsFiniteSet(Unavailable) /\ \A u \in Unavailable : u[2] \in Ids(tree)
<1>. DEFINE P == {q \in tree : ~q.onDisk /\ q.node.eco = "cargo"}
            f == [p \in P |-> <<p.project, p.node.id>>]
<1>1. IsFiniteSet(P)
    BY DriftAssumption, FS_Subset
<1>2. Unavailable = {f[p] : p \in P}
    BY DEF Unavailable
<1>3. \A p \in P : p.node.id \in Ids(tree)
    BY DEF Ids, Nodes
<1>. HIDE DEF f
<1>4. IsFiniteSet(Unavailable)
    BY <1>1, <1>2, ImageFinite
<1>. QED
    BY <1>3, <1>4 DEF Unavailable

LEMMA VisibleFacts ==
    ASSUME NEW p
    PROVE  /\ Visible(p) \subseteq Published /\ IsFiniteSet(Visible(p))
           /\ \A r, q \in Visible(p) : r.ver = q.ver => r = q
<1>1. CASE p \in DOMAIN Timeline
  <2>1. /\ Timeline[p] \subseteq Published /\ IsFiniteSet(Timeline[p])
        /\ \A r, q \in Timeline[p] : r.ver = q.ver => r = q
      BY <1>1, DriftAssumption
  <2>2. Visible(p) \subseteq Timeline[p]
      BY <1>1 DEF Visible
  <2>. QED
      BY <2>1, <2>2, FS_Subset
<1>2. CASE p \notin DOMAIN Timeline
    BY <1>2, FS_EmptySet DEF Visible
<1>. QED
    BY <1>1, <1>2

LEMMA DatedFacts ==
    ASSUME NEW p
    PROVE  /\ Dated(p) \subseteq Published /\ IsFiniteSet(Dated(p))
           /\ \A r, q \in Dated(p) : r.ver = q.ver => r = q
<1>1. Dated(p) \subseteq Visible(p)
    BY DEF Dated
<1>. QED
    BY <1>1, VisibleFacts, FS_Subset

LEMMA DocumentFacts ==
    ASSUME NEW p
    PROVE  Document(p) \subseteq Release /\ IsFiniteSet(Document(p))
<1>. DEFINE f == [r \in Dated(p) |-> [ver |-> r.ver, at |-> r.at, yanked |-> YankedIn(p, r),
                                        publisher |-> PublisherIn(p, r)]]
<1>1. Document(p) = {f[r] : r \in Dated(p)}
    BY DEF Document
<1>2. ASSUME NEW r \in Dated(p) PROVE f[r] \in Release
  <2>1. r \in Published
      BY DatedFacts
  <2>2. YankedIn(p, r) \in BOOLEAN /\ PublisherIn(p, r) \in Account \cup {NoAccount}
      BY <2>1 DEF YankedIn, PublisherIn, Published
  <2>. QED
      BY <2>1, <2>2 DEF Release, Published
<1>3. IsFiniteSet(Dated(p))
    BY DatedFacts
<1>. HIDE DEF f
<1>. QED
    BY <1>1, <1>2, <1>3, ImageFinite

LEMMA GoDocumentFacts ==
    ASSUME NEW p, NEW failed
    PROVE  /\ GoDocument(p, failed) \subseteq Release /\ IsFiniteSet(GoDocument(p, failed))
           /\ \A d \in GoDocument(p, failed) : d.publisher = NoAccount
<1>. DEFINE files == {<<p[2], q[3]>> : q \in ModRequest(p) \ failed} \cap DOMAIN ModFile
            specs == UNION {Retractions(ModFile[c]) : c \in files}
            dated == {r \in Dated(p) : <<p, "info", r.ver>> \notin failed}
            f == [r \in dated |-> [ver |-> r.ver, at |-> r.at, yanked |-> IsRetracted(r.ver, specs, Versions(p)),
                                   publisher |-> NoAccount]]
<1>1. GoDocument(p, failed) = {f[r] : r \in dated}
  <2>. HIDE DEF specs
  <2>1. GoDocument(p, failed) =
            {[ver |-> r.ver, at |-> r.at, yanked |-> IsRetracted(r.ver, specs, Versions(p)),
              publisher |-> NoAccount] : r \in dated}
      BY Zenon DEF GoDocument, specs, files
  <2>. QED
      BY <2>1
<1>2. ASSUME NEW r \in dated PROVE f[r] \in Release /\ f[r].publisher = NoAccount
  <2>. HIDE DEF specs
  <2>1. r \in Published
      BY DatedFacts
  <2>2. IsRetracted(r.ver, specs, Versions(p)) \in BOOLEAN
      BY DEF IsRetracted
  <2>. QED
      BY <2>1, <2>2 DEF Release, Published
<1>3. IsFiniteSet(dated)
    BY DatedFacts, FS_Subset
<1>. HIDE DEF f, dated
<1>. QED
    BY <1>1, <1>2, <1>3, ImageFinite

\* A sorted history holds each release of the document once, by time.
LEMMA SortedFacts ==
    ASSUME NEW R, R \subseteq Release, IsFiniteSet(R), NEW h \in Sorted(R)
    PROVE  /\ h \in Seq(Release) /\ DOMAIN h = 1..Len(h) /\ Len(h) = Cardinality(R)
           /\ \A i \in 1..Len(h) : h[i] \in R
           /\ \A d \in R : \E i \in 1..Len(h) : h[i] = d
           /\ \A i, j \in 1..Len(h) : i # j => h[i] # h[j]
           /\ \A i, j \in 1..Len(h) : i < j => h[i].at <= h[j].at
<1>. DEFINE n == Cardinality(R)
<1>1. n \in Nat
    BY FS_CardinalityType
<1>2. /\ h \in [1..n -> R]
      /\ \A i, j \in DOMAIN h : i # j => h[i] # h[j]
      /\ \A i, j \in DOMAIN h : i < j => h[i].at <= h[j].at
    BY DEF Sorted
<1>. HIDE DEF n
<1>3. h \in Seq(Release) /\ Len(h) = n /\ DOMAIN h = 1..n
    BY <1>1, <1>2
<1>4. h \in Injection(1..n, R) /\ IsFiniteSet(1..n) /\ Cardinality(1..n) = n
    BY <1>1, <1>2, FS_Interval DEF Injection, IsInjective
<1>5. h \in Surjection(1..n, R)
    BY <1>4, FS_Injection DEF n
<1>6. \A d \in R : \E i \in 1..n : h[i] = d
    BY <1>5 DEF Surjection
<1>. QED
    BY <1>2, <1>3, <1>6 DEF n

-----------------------------------------------------------------------------
(***************************************************************************)
(* The invariant, action by action.                                        *)
(***************************************************************************)
LEMMA FindingFields ==
    ASSUME NEW check, NEW m, NEW gates \in BOOLEAN, NEW claim
    PROVE  /\ Finding(check, m, gates, claim).node = m.id
           /\ Finding(check, m, gates, claim).gates \in BOOLEAN
    BY DEF Finding

LEMMA FindingShape ==
    ASSUME NEW m, NEW f \in WeatherOf(m) \cup DriftOf(m)
    PROVE  f.node = m.id /\ f.gates \in BOOLEAN
<1>. DEFINE h == releases[m.id]
            hooked == surface[m.id] \cap Hook # {}
            Shaped(g) == g.node = m.id /\ g.gates \in BOOLEAN
<1>1. WeatherOf(m) = Dormancy(m, h, hooked, today) \cup Burst(m, h, hooked, today)
                       \cup Lineage(m, h, hooked, today) \cup YankLure(m, h, extra[m.id])
    BY DEF WeatherOf
<1>2. hooked \in BOOLEAN
    OBVIOUS
<1>. HIDE DEF h, hooked
<1>0. ASSUME NEW check, NEW gates \in BOOLEAN, NEW claim PROVE Shaped(Finding(check, m, gates, claim))
    BY FindingFields
<1>. SUFFICES Shaped(f)
    OBVIOUS
<1>. HIDE DEF Shaped
<1>3. CASE f \in Dormancy(m, h, hooked, today)
    BY Zenon, <1>0, <1>2, <1>3 DEF Dormancy
<1>4. CASE f \in Burst(m, h, hooked, today)
    BY Zenon, <1>0, <1>2, <1>4 DEF Burst
<1>5. CASE f \in Lineage(m, h, hooked, today)
  <2>1. \A i : (Complete(h, i) /\ (hooked \/ Gap(h, i) >= DormantAfter)) \in BOOLEAN
      OBVIOUS
  <2>. QED
      BY Zenon, <1>0, <1>5, <2>1 DEF Lineage
<1>6. CASE f \in YankLure(m, h, extra[m.id])
  <2>1. (Lures(h) # {}) \in BOOLEAN
      OBVIOUS
  <2>. QED
      BY Zenon, <1>0, <1>6, <2>1 DEF YankLure
<1>7. CASE f \in DriftOf(m)
  <2>1. \A p : DriftGates(p, m, surface[m.id] \ p.items) \in BOOLEAN
      BY DEF DriftGates
  <2>. QED
      BY Zenon, <1>0, <1>7, <2>1 DEF DriftOf
<1>. QED
    BY Zenon, <1>1, <1>3, <1>4, <1>5, <1>6, <1>7

LEMMA InitInvariant == Init => IInv
<1>. SUFFICES ASSUME Init PROVE IInv
    OBVIOUS
<1>1. TypeOK
    BY FS_EmptySet DEF Init, TypeOK
<1>2. Underway /\ Filed /\ HistoriesAreFull /\ LuresAreNew /\ Standing
    BY DEF Init, Underway, Filed, HistoriesAreFull, LuresAreNew, Standing, Judged
<1>. QED
    BY <1>1, <1>2 DEF IInv

LEMMA ForgetStep ==
    ASSUME IInv, Wait \/ Edit
    PROVE  IInv'
<1>1. /\ today' \in Calendar /\ tree' \in Tree
      /\ stage = "idle" /\ Forget
    BY DEF IInv, TypeOK, Wait, Edit
<1>2. TypeOK'
    BY <1>1, FS_EmptySet DEF IInv, TypeOK, Forget
<1>3. Filed'
    BY <1>1 DEF IInv, Filed, Forget
<1>4. (Underway /\ HistoriesAreFull /\ LuresAreNew /\ Standing)'
    BY <1>1 DEF Forget, Underway, HistoriesAreFull, LuresAreNew, Standing, Judged
<1>. QED
    BY <1>2, <1>3, <1>4 DEF IInv

LEMMA StartStep ==
    ASSUME IInv, StartCreate \/ StartScan
    PROVE  IInv'
<1>1. PICK kind \in {"create", "scan"} : Start(kind)
    BY DEF StartCreate, StartScan
<1>2. /\ TypeOK /\ tree' = tree /\ today' = today /\ file' = file
      /\ tree \in Tree
    BY <1>1 DEF IInv, TypeOK, Start, environment
<1>3. IsFiniteSet(Unavailable) /\ Cardinality(Unavailable) \in Nat /\ Unavailable' = Unavailable
    BY <1>2, UnavailableFinite, FS_CardinalityType DEF Unavailable
<1>4. \A i \in Ids(tree) : ReadFrom(NodeOf(i)) \subseteq Item
    BY <1>2, IdIsOfNode, NodeOfId, SurfaceOnDisk
<1>5. TypeOK'
    BY <1>1, <1>2, <1>3, <1>4 DEF TypeOK, Start
<1>6. Underway'
    BY <1>1, <1>2, <1>3 DEF Start, Underway
<1>7. Filed'
    BY <1>2 DEF IInv, Filed
<1>8. Standing'
    BY <1>1 DEF Start, Standing, Judged
<1>9. HistoriesAreFull' /\ LuresAreNew'
  <2>1. \A m \in Nodes(tree) : m.id \in Ids(tree)
      BY DEF Ids
  <2>2. \A m \in Nodes(tree) : releases'[m.id] = <<>> /\ extra'[m.id] = {}
      BY <1>1, <2>1 DEF Start
  <2>. QED
      BY <1>2, <2>2 DEF HistoriesAreFull, LuresAreNew
<1>. QED
    BY <1>5, <1>6, <1>7, <1>8, <1>9 DEF IInv

\* The records depend on the day and on the tree only.
LEMMA SameRecords ==
    ASSUME UNCHANGED environment
    PROVE  /\ tree' = tree /\ today' = today /\ Unavailable' = Unavailable
           /\ \A m : Shared(m)' = Shared(m)
           /\ \A p : FullRecord(p)' = FullRecord(p)
<1>1. tree' = tree /\ today' = today
    BY DEF environment
<1>2. Unavailable' = Unavailable /\ \A m : Shared(m)' = Shared(m)
    BY <1>1 DEF Unavailable, Shared, Nodes
<1>3. \A p : Visible(p)' = Visible(p) /\ Dated(p)' = Dated(p)
    BY <1>1 DEF Visible, Dated
<1>4. \A p, r : YankedIn(p, r)' = YankedIn(p, r)
    BY <1>1 DEF YankedIn
<1>5. \A p : Document(p)' = Document(p)
    BY <1>3, <1>4 DEF Document
<1>6. \A p : Versions(p)' = Versions(p) /\ ModRequest(p)' = ModRequest(p)
    BY <1>3 DEF Versions, ModRequest
<1>7. \A p : GoDocument(p, {})' = GoDocument(p, {})
    BY <1>3, <1>6 DEF GoDocument
<1>. QED
    BY <1>1, <1>2, <1>5, <1>7 DEF FullRecord

LEMMA HistoriesFacts ==
    ASSUME NEW P, NEW failed, NEW byName \in Histories(P, failed), NEW p \in DOMAIN byName
    PROVE  /\ p \in P /\ byName[p] \in Seq(Release)
           /\ p[1] # "gomod" => byName[p] \in Sorted(FullRecord(p))
           /\ p[1] = "gomod" => /\ failed = {} => byName[p] \in Sorted(FullRecord(p))
                                /\ \A i \in DOMAIN byName[p] : byName[p][i].publisher = NoAccount
<1>. DEFINE of(q) == IF q[1] = "gomod" THEN GoDocument(q, failed) ELSE Document(q)
            got   == Answered(P, failed)
<1>1. byName \in [got -> UNION {Sorted(of(q)) : q \in got}] /\ \A q \in got : byName[q] \in Sorted(of(q))
    BY Zenon DEF Histories
<1>2. p \in got /\ byName[p] \in Sorted(of(p))
    BY <1>1
<1>3. p \in P
    BY <1>2 DEF Answered
<1>4. of(p) \subseteq Release /\ IsFiniteSet(of(p))
    BY DocumentFacts, GoDocumentFacts
<1>5. CASE p[1] # "gomod"
  <2>1. of(p) = FullRecord(p)
      BY <1>5 DEF FullRecord
  <2>. HIDE DEF of
  <2>. QED
      BY <1>2, <1>3, <1>4, <1>5, <2>1, SortedFacts
<1>6. CASE p[1] = "gomod"
  <2>1. of(p) = GoDocument(p, failed)
      BY <1>6
  <2>2. failed = {} => of(p) = FullRecord(p)
      BY <1>6, <2>1 DEF FullRecord
  <2>3. \A d \in of(p) : d.publisher = NoAccount
      BY <2>1, GoDocumentFacts
  <2>. HIDE DEF of
  <2>4. byName[p] \in Seq(Release) /\ \A i \in DOMAIN byName[p] : byName[p][i] \in of(p)
      BY <1>2, <1>4, SortedFacts
  <2>. QED
      BY <1>2, <1>3, <1>6, <2>2, <2>3, <2>4
<1>. QED
    BY <1>5, <1>6

LEMMA PrefetchStep ==
    ASSUME IInv, Prefetch
    PROVE  IInv'
<1>. DEFINE eco == Head(left)
            P   == {<<eco, n.name>> : n \in {m \in Nodes(tree) : m.eco = eco /\ ~m.root}}
<1>1. /\ stage = "sources" /\ stage' \in {"sources", "lure", "judge"}
      /\ UNCHANGED <<environment, file, job, surface, unread, count, fetched, extra, findings>>
      /\ \E failed \in Failures(UNION {Requests(p) : p \in P}) :
            /\ \E byName \in Histories(P, failed) :
                  releases' = [i \in DOMAIN releases |->
                                  IF <<eco, NodeOf(i).name>> \in DOMAIN byName /\ ~NodeOf(i).root
                                  THEN byName[<<eco, NodeOf(i).name>>] ELSE releases[i]]
            /\ gaps' = gaps \cup (IF failed = {} THEN {} ELSE {eco})
    BY Zenon DEF Prefetch
<1>2. PICK failed : /\ \E byName \in Histories(P, failed) :
                          releases' = [i \in DOMAIN releases |->
                                  IF <<eco, NodeOf(i).name>> \in DOMAIN byName /\ ~NodeOf(i).root
                                  THEN byName[<<eco, NodeOf(i).name>>] ELSE releases[i]]
                    /\ gaps' = gaps \cup (IF failed = {} THEN {} ELSE {eco})
    BY Zenon, <1>1
<1>3. PICK byName \in Histories(P, failed) :
          releases' = [i \in DOMAIN releases |->
                          IF <<eco, NodeOf(i).name>> \in DOMAIN byName /\ ~NodeOf(i).root
                          THEN byName[<<eco, NodeOf(i).name>>] ELSE releases[i]]
    BY <1>2
<1>4. /\ tree \in Tree /\ tree' = tree /\ today' = today /\ Unavailable' = Unavailable
      /\ \A m : Shared(m)' = Shared(m)
      /\ \A p : FullRecord(p)' = FullRecord(p)
    BY <1>1, SameRecords DEF IInv, TypeOK
<1>5. job # "none" /\ DOMAIN releases = Ids(tree)
    BY <1>1 DEF IInv, Underway
<1>6. \A p \in DOMAIN byName :
          /\ p \in P /\ byName[p] \in Seq(Release)
          /\ p[1] # "gomod" => byName[p] \in Sorted(FullRecord(p))
          /\ p[1] = "gomod" => /\ failed = {} => byName[p] \in Sorted(FullRecord(p))
                               /\ \A i \in DOMAIN byName[p] : byName[p][i].publisher = NoAccount
    BY HistoriesFacts
<1>7. ASSUME NEW m \in Nodes(tree)
      PROVE  \/ releases'[m.id] = releases[m.id]
             \/ <<eco, m.name>> \in DOMAIN byName /\ releases'[m.id] = byName[<<eco, m.name>>]
  <2>1. m.id \in DOMAIN releases /\ NodeOf(m.id) = m
      BY <1>4, <1>5, NodeOfId
  <2>. HIDE DEF eco, P
  <2>. QED
      BY <1>3, <2>1
<1>8. TypeOK'
  <2>1. \A i \in DOMAIN releases' : releases'[i] \in Seq(Release)
    <3>. HIDE DEF eco, P
    <3>. QED
        BY <1>3, <1>6 DEF IInv, TypeOK
  <2>2. DOMAIN releases' = Ids(tree)
      BY <1>3, <1>5
  <2>. QED
      BY <1>1, <1>4, <2>1, <2>2 DEF IInv, TypeOK, Ids, Nodes
<1>9. Underway'
  <2>1. DOMAIN releases' = Ids(tree) /\ Ids(tree)' = Ids(tree)
      BY <1>3, <1>4, <1>5 DEF Ids, Nodes
  <2>. QED
      BY <1>1, <1>4, <1>5, <2>1 DEF IInv, Underway
<1>10. HistoriesAreFull'
  <2>. SUFFICES ASSUME NEW m \in Nodes(tree)', ~Shared(m)', releases'[m.id] # <<>>,
                       releases'[m.id] \notin Sorted(FullRecord(<<m.eco, m.name>>))'
                PROVE  /\ m.eco = "gomod" /\ "gomod" \in gaps'
                       /\ \A i \in DOMAIN releases'[m.id] : releases'[m.id][i].publisher = NoAccount
      BY Zenon DEF HistoriesAreFull
  <2>0. m \in Nodes(tree) /\ ~Shared(m) /\ releases'[m.id] \notin Sorted(FullRecord(<<m.eco, m.name>>))
    <3>1. FullRecord(<<m.eco, m.name>>)' = FullRecord(<<m.eco, m.name>>) /\ Shared(m)' = Shared(m)
        BY Zenon, <1>4
    <3>2. Sorted(FullRecord(<<m.eco, m.name>>))' = Sorted(FullRecord(<<m.eco, m.name>>))
        BY Zenon, <3>1 DEF Sorted
    <3>3. Nodes(tree)' = Nodes(tree)
        BY <1>4 DEF Nodes
    <3>. QED
        BY Zenon, <3>1, <3>2, <3>3
  <2>1. CASE releases'[m.id] = releases[m.id]
    <3>1. gaps \subseteq gaps'
        BY <1>2
    <3>. QED
        BY <1>5, <2>0, <2>1, <3>1 DEF IInv, HistoriesAreFull
  <2>2. CASE <<eco, m.name>> \in DOMAIN byName /\ releases'[m.id] = byName[<<eco, m.name>>]
    <3>1. <<eco, m.name>> \in P
        BY <1>6, <2>2
    <3>2. \E k \in Nodes(tree) : k.eco = eco /\ k.name = m.name
        BY <3>1
    <3>3. m.eco = eco
        BY <2>0, <3>2 DEF Shared
    <3>. HIDE DEF eco, P
    <3>4. m.eco = "gomod" /\ failed # {}
        BY <1>6, <2>0, <2>2, <3>3
    <3>. QED
        BY <1>2, <1>6, <2>2, <3>3, <3>4
  <2>. QED
      BY <1>7, <2>0, <2>1, <2>2
<1>11. (Filed /\ LuresAreNew /\ Standing)'
    BY <1>1, <1>2, <1>4 DEF IInv, Filed, LuresAreNew, Standing, Judged, Nodes
<1>. QED
    BY <1>8, <1>9, <1>10, <1>11 DEF IInv

\* What is known of the histories survives a step that reads none.
LEMMA RecordsStand ==
    ASSUME HistoriesAreFull, UNCHANGED <<environment, job, releases>>, gaps \subseteq gaps'
    PROVE  HistoriesAreFull'
<1>. SUFFICES ASSUME job # "none", NEW m \in Nodes(tree)', ~Shared(m)', releases'[m.id] # <<>>,
                     releases'[m.id] \notin Sorted(FullRecord(<<m.eco, m.name>>))'
              PROVE  /\ m.eco = "gomod" /\ "gomod" \in gaps'
                     /\ \A i \in DOMAIN releases'[m.id] : releases'[m.id][i].publisher = NoAccount
    BY Zenon DEF HistoriesAreFull
<1>1. tree' = tree /\ releases' = releases
    BY DEF environment
<1>2. FullRecord(<<m.eco, m.name>>)' = FullRecord(<<m.eco, m.name>>) /\ Shared(m)' = Shared(m)
    BY Zenon, SameRecords
<1>3. Sorted(FullRecord(<<m.eco, m.name>>))' = Sorted(FullRecord(<<m.eco, m.name>>))
    BY Zenon, <1>2 DEF Sorted
<1>4. Nodes(tree)' = Nodes(tree)
    BY <1>1 DEF Nodes
<1>5. m \in Nodes(tree) /\ ~Shared(m) /\ releases'[m.id] \notin Sorted(FullRecord(<<m.eco, m.name>>))
    BY Zenon, <1>2, <1>3, <1>4
<1>. QED
    BY <1>1, <1>5 DEF HistoriesAreFull

LEMMA EnrichLureStep ==
    ASSUME IInv, EnrichLure
    PROVE  IInv'
<1>1. PICK failed : /\ extra' = [i \in DOMAIN extra |->
                                   IF NodeOf(i) \in Lured THEN Extra(NodeOf(i), failed) ELSE {}]
                    /\ gaps' = gaps \cup (IF failed = {} THEN {} ELSE {"yanklure"})
    BY Zenon DEF EnrichLure
<1>2. /\ stage = "lure" /\ stage' = "scripts"
      /\ UNCHANGED <<environment, file, job, left, releases, surface, unread, count, fetched, findings>>
    BY DEF EnrichLure
<1>3. /\ tree \in Tree /\ tree' = tree /\ today' = today /\ Unavailable' = Unavailable
      /\ \A p : FullRecord(p)' = FullRecord(p)
      /\ \A m : Shared(m)' = Shared(m)
    BY <1>2, SameRecords DEF IInv, TypeOK
<1>4. job # "none" /\ DOMAIN extra = Ids(tree)
    BY <1>2 DEF IInv, Underway
<1>5. TypeOK'
    BY <1>2, <1>3 DEF IInv, TypeOK, Ids, Nodes
<1>6. Underway'
  <2>1. DOMAIN extra' = Ids(tree) /\ Ids(tree)' = Ids(tree)
      BY <1>1, <1>3, <1>4 DEF Ids, Nodes
  <2>. QED
      BY <1>2, <1>3, <1>4, <2>1 DEF IInv, Underway
<1>7. HistoriesAreFull'
    BY <1>1, <1>2, <1>3, RecordsStand DEF IInv
<1>8. LuresAreNew'
  <2>. SUFFICES ASSUME NEW m \in Nodes(tree)', m.eco = "cargo", "yanklure" \notin gaps'
                PROVE  extra'[m.id] \cap BuildDeps[<<m.name, m.ver>>] = {}
      BY Zenon DEF LuresAreNew
  <2>0. m \in Nodes(tree) /\ failed = {}
      BY <1>1, <1>3 DEF Nodes
  <2>1. m.id \in DOMAIN extra /\ NodeOf(m.id) = m
      BY <1>3, <1>4, <2>0, NodeOfId
  <2>2. extra'[m.id] = IF m \in Lured THEN Extra(m, failed) ELSE {}
      BY <1>1, <2>1
  <2>3. Extra(m, failed) \cap BuildDeps[<<m.name, m.ver>>] = {}
      BY <2>0 DEF Extra, Declared
  <2>. QED
      BY <2>2, <2>3
<1>9. (Filed /\ Standing)'
    BY <1>2, <1>3 DEF IInv, Filed, Standing, Judged, Nodes
<1>. QED
    BY <1>5, <1>6, <1>7, <1>8, <1>9 DEF IInv

\* A fetch that examined a crate takes away at least one gap for it.
LEMMA FetchScriptsStep ==
    ASSUME IInv, FetchScripts
    PROVE  IInv'
<1>1. PICK failed, f : /\ f = [i \in DOMAIN fetched |->
                                 IF NodeOf(i) \in Wanted THEN FetchScript(NodeOf(i), failed) ELSE "unasked"]
                       /\ fetched' = f
                       /\ surface' = [i \in DOMAIN surface |->
                                        IF f[i] = "found" THEN surface[i] \cup NodeOf(i).build ELSE surface[i]]
                       /\ count' = Cleared(f)
                       /\ unread' = {u \in unread : u[2] \notin Examined(f)}
                       /\ gaps' = gaps \cup (IF failed = {} THEN {} ELSE {"cargo-source"})
    BY Zenon DEF FetchScripts
<1>2. /\ stage = "scripts" /\ stage' = "judge"
      /\ UNCHANGED <<environment, file, job, left, releases, extra, findings>>
    BY DEF FetchScripts
<1>3. /\ tree \in Tree /\ tree' = tree /\ today' = today /\ Unavailable' = Unavailable
      /\ \A p : FullRecord(p)' = FullRecord(p)
      /\ \A m : Shared(m)' = Shared(m)
    BY <1>2, SameRecords DEF IInv, TypeOK
<1>4. /\ job # "none" /\ DOMAIN fetched = Ids(tree) /\ DOMAIN surface = Ids(tree)
      /\ unread = Unavailable /\ count \in Nat /\ Cardinality(unread) <= count
      /\ \A i \in Ids(tree) : surface[i] \subseteq Item
    BY <1>2 DEF IInv, Underway, TypeOK
<1>5. DOMAIN f = Ids(tree)
    BY <1>1, <1>4
<1>6. \A i \in Ids(tree) : surface'[i] \subseteq Item
  <2>1. \A i \in Ids(tree) : NodeOf(i).build \subseteq Item
      BY <1>3, IdIsOfNode, NodeOfId DEF Node
  <2>. QED
      BY <1>1, <1>4, <2>1
<1>7. IsFiniteSet(unread) /\ IsFiniteSet(unread')
    BY <1>1, <1>3, <1>4, UnavailableFinite, FS_Subset
<1>8. Examined(f) \subseteq {u[2] : u \in unread \ unread'}
  <2>. SUFFICES ASSUME NEW i \in Examined(f)
                PROVE  \E u \in unread \ unread' : u[2] = i
      OBVIOUS
  <2>1. i \in Ids(tree) /\ f[i] # "unasked"
      BY <1>5 DEF Examined
  <2>2. NodeOf(i) \in Wanted
      BY <1>1, <1>4, <2>1
  <2>3. PICK u \in unread : u[2] = NodeOf(i).id
      BY <2>2 DEF Wanted
  <2>4. u[2] = i
      BY <1>3, <2>1, <2>3, IdIsOfNode
  <2>. QED
      BY <1>1, <2>3, <2>4
<1>9. count' \in Nat /\ Cardinality(unread') <= count'
  <2>. DEFINE gone == unread \ unread'
              second == [u \in gone |-> u[2]]
  <2>1. IsFiniteSet(gone) /\ Cardinality(gone) = Cardinality(unread) - Cardinality(unread')
    <3>1. unread \cap unread' = unread'
        BY <1>1
    <3>. QED
        BY <1>7, <3>1, FS_Difference
  <2>2. {second[u] : u \in gone} = {u[2] : u \in gone}
      OBVIOUS
  <2>3. IsFiniteSet({u[2] : u \in gone}) /\ Cardinality({u[2] : u \in gone}) <= Cardinality(gone)
    <3>1. IsFiniteSet({second[u] : u \in gone}) /\ Cardinality({second[u] : u \in gone}) <= Cardinality(gone)
      <4>. HIDE DEF gone, second
      <4>. QED
          BY Zenon, <2>1, ImageFinite
    <3>. QED
        BY Zenon, <2>2, <3>1
  <2>4. Cardinality(Examined(f)) <= Cardinality({u[2] : u \in gone}) /\ IsFiniteSet(Examined(f))
      BY <1>8, <2>3, FS_Subset
  <2>5. /\ Cardinality(gone) \in Nat /\ Cardinality(unread) \in Nat /\ Cardinality(unread') \in Nat
        /\ Cardinality(Examined(f)) \in Nat /\ Cardinality({u[2] : u \in gone}) \in Nat
      BY <1>7, <2>1, <2>3, <2>4, FS_CardinalityType
  <2>6. Cardinality(Examined(f)) <= Cardinality(unread) - Cardinality(unread')
    <3>. HIDE DEF gone
    <3>. QED
        BY <2>1, <2>3, <2>4, <2>5
  <2>. QED
      BY <1>1, <1>4, <2>5, <2>6 DEF Cleared
<1>10. TypeOK'
    BY <1>1, <1>2, <1>3, <1>4, <1>6, <1>9 DEF IInv, TypeOK, Ids, Nodes
<1>11. Underway'
  <2>1. /\ DOMAIN fetched' = Ids(tree) /\ DOMAIN surface' = Ids(tree) /\ Ids(tree)' = Ids(tree)
      BY <1>1, <1>3, <1>4, <1>5 DEF Ids, Nodes
  <2>2. \A u \in Unavailable : u[2] \in Ids(tree)
      BY <1>3, UnavailableFinite
  <2>3. {u \in Unavailable : fetched'[u[2]] \notin {"found", "none"}} \subseteq unread'
      BY <1>1, <1>4 DEF Examined
  <2>. QED
      BY <1>2, <1>3, <1>4, <2>1, <2>3 DEF IInv, Underway
<1>12. HistoriesAreFull'
    BY <1>1, <1>2, <1>3, RecordsStand DEF IInv
<1>13. (Filed /\ LuresAreNew /\ Standing)'
    BY <1>1, <1>2, <1>3 DEF IInv, Filed, LuresAreNew, Standing, Judged, Nodes
<1>. QED
    BY <1>10, <1>11, <1>12, <1>13 DEF IInv

LEMMA WriteStep ==
    ASSUME IInv, Write
    PROVE  IInv'
<1>1. /\ stage = "judge" /\ stage' = "idle" /\ job = "create"
      /\ file' = {Profile(m) : m \in Nodes(tree)}
      /\ UNCHANGED <<environment, job, left, releases, surface, unread, count, fetched, extra, gaps, findings>>
    BY DEF Write
<1>2. /\ tree \in Tree /\ tree' = tree /\ today' = today /\ Unavailable' = Unavailable
      /\ \A p : FullRecord(p)' = FullRecord(p)
      /\ \A m : Shared(m)' = Shared(m)
    BY <1>1, SameRecords DEF IInv, TypeOK
<1>3. DOMAIN surface = Ids(tree) /\ \A i \in Ids(tree) : surface[i] \subseteq Item
    BY <1>1 DEF IInv, TypeOK
<1>4. \A m \in Nodes(tree) : Profile(m).items \subseteq Item
    BY <1>3 DEF Profile, Ids
<1>5. TypeOK'
    BY <1>1, <1>2, <1>4 DEF IInv, TypeOK, Ids, Nodes
<1>6. Filed'
    BY <1>1, <1>2 DEF Filed, Profile
<1>7. Underway'
    BY <1>1, <1>2 DEF IInv, Underway, Ids, Nodes
<1>8. HistoriesAreFull'
    BY <1>1, <1>2, RecordsStand DEF IInv
<1>9. (LuresAreNew /\ Standing)'
    BY <1>1, <1>2 DEF IInv, LuresAreNew, Standing, Judged, Nodes
<1>. QED
    BY <1>5, <1>6, <1>7, <1>8, <1>9 DEF IInv

\* What a scan judges by stands until the next job.
LEMMA JudgedBySame ==
    ASSUME UNCHANGED <<environment, file, releases, surface, extra>>
    PROVE  /\ \A m : WeatherOf(m)' = WeatherOf(m) /\ DriftOf(m)' = DriftOf(m)
           /\ Nodes(tree)' = Nodes(tree) /\ Ambiguous' = Ambiguous
<1>1. /\ today' = today /\ tree' = tree /\ file' = file /\ releases' = releases
      /\ surface' = surface /\ extra' = extra
    BY DEF environment
<1>2. \A m : WeatherOf(m)' = WeatherOf(m)
    BY Zenon, <1>1 DEF WeatherOf
<1>3. \A m : Approved(m)' = Approved(m)
    BY Zenon, <1>1 DEF Approved
<1>4. \A m : Lookup(m)' = Lookup(m)
    BY Zenon, <1>3 DEF Lookup
<1>5. \A m : DriftOf(m)' = DriftOf(m)
    BY Zenon, <1>1, <1>3, <1>4 DEF DriftOf
<1>6. Nodes(tree)' = Nodes(tree) /\ Ambiguous' = Ambiguous
    BY Zenon, <1>1 DEF Nodes, Ambiguous
<1>. QED
    BY Zenon, <1>2, <1>5, <1>6

LEMMA JudgeStep ==
    ASSUME IInv, Judge
    PROVE  IInv'
<1>1. /\ stage = "judge" /\ stage' = "idle" /\ job = "scan"
      /\ findings' = UNION {WeatherOf(m) \cup DriftOf(m) : m \in Nodes(tree)}
      /\ gaps' = gaps \cup (IF Ambiguous = {} THEN {} ELSE {"baseline"})
      /\ UNCHANGED <<environment, file, job, left, releases, surface, unread, count, fetched, extra>>
    BY DEF Judge
<1>2. /\ tree \in Tree /\ tree' = tree /\ today' = today /\ Unavailable' = Unavailable
      /\ \A p : FullRecord(p)' = FullRecord(p)
      /\ \A m : Shared(m)' = Shared(m)
    BY <1>1, SameRecords DEF IInv, TypeOK
<1>3. /\ \A m : WeatherOf(m)' = WeatherOf(m) /\ DriftOf(m)' = DriftOf(m)
      /\ Nodes(tree)' = Nodes(tree) /\ Ambiguous' = Ambiguous
    BY <1>1, JudgedBySame
<1>4. \A g \in findings' : g.node \in Ids(tree) /\ g.gates \in BOOLEAN
  <2>. SUFFICES ASSUME NEW m \in Nodes(tree), NEW g \in WeatherOf(m) \cup DriftOf(m)
                PROVE  g.node \in Ids(tree) /\ g.gates \in BOOLEAN
      BY <1>1
  <2>. QED
      BY <1>2, FindingShape, NodeOfId
<1>5. TypeOK'
    BY <1>1, <1>2, <1>4 DEF IInv, TypeOK, Ids, Nodes
<1>6. Standing'
  <2>1. findings' = UNION {WeatherOf(m)' \cup DriftOf(m)' : m \in Nodes(tree)'}
      BY <1>1, <1>3
  <2>2. Ambiguous' # {} => "baseline" \in gaps'
      BY <1>1, <1>3
  <2>. QED
      BY Zenon, <2>1, <2>2 DEF Standing
<1>7. Underway'
    BY <1>1, <1>2 DEF IInv, Underway, Ids, Nodes
<1>8. HistoriesAreFull'
    BY <1>1, <1>2, RecordsStand DEF IInv
<1>9. (LuresAreNew /\ Filed)'
    BY <1>1, <1>2 DEF IInv, LuresAreNew, Filed, Nodes
<1>. QED
    BY <1>5, <1>6, <1>7, <1>8, <1>9 DEF IInv

LEMMA StepInvariant == IInv /\ [Next]_vars => IInv'
<1>. SUFFICES ASSUME IInv, [Next]_vars PROVE IInv'
    OBVIOUS
<1>1. CASE UNCHANGED vars
  <2>1. /\ UNCHANGED <<environment, file, job, stage, left, releases, surface, unread, count, fetched,
                       extra, gaps, findings>>
        /\ today' = today /\ tree' = tree
      BY <1>1 DEF vars, environment
  <2>2. /\ \A m : WeatherOf(m)' = WeatherOf(m) /\ DriftOf(m)' = DriftOf(m)
        /\ Nodes(tree)' = Nodes(tree) /\ Ambiguous' = Ambiguous
      BY <2>1, JudgedBySame
  <2>3. Unavailable' = Unavailable /\ HistoriesAreFull'
      BY <2>1, SameRecords, RecordsStand DEF IInv
  <2>4. TypeOK'
      BY <2>1, <2>3 DEF IInv, TypeOK, Ids, Nodes
  <2>5. (Underway /\ Filed /\ LuresAreNew)'
      BY <2>1, <2>3 DEF IInv, Underway, Filed, LuresAreNew, Ids, Nodes
  <2>6. Standing'
    <3>1. Judged' = Judged
        BY <2>1 DEF Judged
    <3>2. UNION {WeatherOf(m)' \cup DriftOf(m)' : m \in Nodes(tree)'}
            = UNION {WeatherOf(m) \cup DriftOf(m) : m \in Nodes(tree)}
        BY <2>2
    <3>. QED
        BY Zenon, <2>1, <2>2, <3>1, <3>2 DEF IInv, Standing
  <2>. QED
      BY <2>3, <2>4, <2>5, <2>6 DEF IInv
<1>2. CASE Wait \/ Edit
    BY <1>2, ForgetStep
<1>3. CASE StartCreate \/ StartScan
    BY <1>3, StartStep
<1>4. CASE Prefetch
    BY <1>4, PrefetchStep
<1>5. CASE EnrichLure
    BY <1>5, EnrichLureStep
<1>6. CASE FetchScripts
    BY <1>6, FetchScriptsStep
<1>7. CASE Write
    BY <1>7, WriteStep
<1>8. CASE Judge
    BY <1>8, JudgeStep
<1>. QED
    BY <1>1, <1>2, <1>3, <1>4, <1>5, <1>6, <1>7, <1>8 DEF Next

-----------------------------------------------------------------------------
(***************************************************************************)
(* The theorems about baselines.                                           *)
(***************************************************************************)
\* The invariant of baselines and scans: what a job has in hand, where its
\* histories and its lures come from, and what it found.
THEOREM Invariance == Spec => []IInv
<1>. QED
    BY InitInvariant, StepInvariant, PTL DEF Spec

THEOREM TypeCorrect == Spec => []TypeOK
<1>1. IInv => TypeOK
    BY DEF IInv
<1>. QED
    BY Invariance, <1>1, PTL

\* A finding bears the name of the check that made it.
LEMMA Origin ==
    ASSUME NEW m, NEW f \in WeatherOf(m) \cup DriftOf(m)
    PROVE  LET h == releases[m.id]
               hooked == surface[m.id] \cap Hook # {}
           IN  /\ f.check = "VC-004" => f \in Dormancy(m, h, hooked, today)
               /\ f.check = "VC-011" => f \in Lineage(m, h, hooked, today)
               /\ f.check = "VC-012" => f \in YankLure(m, h, extra[m.id])
               /\ f.check = "VC-010" => f \in DriftOf(m)
<1>. DEFINE h == releases[m.id]
            hooked == surface[m.id] \cap Hook # {}
<1>1. WeatherOf(m) = Dormancy(m, h, hooked, today) \cup Burst(m, h, hooked, today)
                       \cup Lineage(m, h, hooked, today) \cup YankLure(m, h, extra[m.id])
    BY DEF WeatherOf
<1>. DEFINE Named(g, check) == g.check = check
<1>0. ASSUME NEW check, NEW gates, NEW claim PROVE Named(Finding(check, m, gates, claim), check)
    BY DEF Finding
<1>. HIDE DEF h, hooked, Named
<1>2. f \in Dormancy(m, h, hooked, today) => Named(f, "VC-004")
    BY Zenon, <1>0 DEF Dormancy
<1>3. f \in Burst(m, h, hooked, today) => Named(f, "VC-005")
    BY Zenon, <1>0 DEF Burst
<1>4. f \in Lineage(m, h, hooked, today) => Named(f, "VC-011")
    BY Zenon, <1>0 DEF Lineage
<1>5. f \in YankLure(m, h, extra[m.id]) => Named(f, "VC-012")
    BY Zenon, <1>0 DEF YankLure
<1>6. f \in DriftOf(m) => Named(f, "VC-010") \/ Named(f, "VC-010-ambiguous")
    BY Zenon, <1>0 DEF DriftOf
<1>7. \/ f \in Dormancy(m, h, hooked, today) \/ f \in Burst(m, h, hooked, today)
      \/ f \in Lineage(m, h, hooked, today) \/ f \in YankLure(m, h, extra[m.id]) \/ f \in DriftOf(m)
    BY Zenon, <1>1
<1>8. /\ f.check = "VC-004" => f \in Dormancy(m, h, hooked, today)
      /\ f.check = "VC-011" => f \in Lineage(m, h, hooked, today)
      /\ f.check = "VC-012" => f \in YankLure(m, h, extra[m.id])
      /\ f.check = "VC-010" => f \in DriftOf(m)
    BY <1>2, <1>3, <1>4, <1>5, <1>6, <1>7 DEF Named
<1>. QED
    BY Zenon, <1>8 DEF h, hooked

LEMMA DriftShape ==
    ASSUME NEW m, NEW f \in DriftOf(m), f.check = "VC-010"
    PROVE  \E p \in Lookup(m) : f.claim = surface[m.id] \ p.items
<1>1. CASE Lookup(m) = {}
  <2>1. f = Finding("VC-010-ambiguous", m, FALSE, {})
      BY Zenon, <1>1 DEF DriftOf
  <2>. QED
      BY <2>1 DEF Finding
<1>2. CASE Lookup(m) # {}
  <2>1. PICK p \in Lookup(m) :
            f = Finding("VC-010", m, DriftGates(p, m, surface[m.id] \ p.items), surface[m.id] \ p.items)
      BY Zenon, <1>2 DEF DriftOf
  <2>. QED
      BY <2>1 DEF Finding
<1>. QED
    BY <1>1, <1>2

\* Each finding of a scan is one of a node of the tree.
LEMMA Attributed ==
    ASSUME IInv, Judged, NEW f \in findings
    PROVE  NodeOf(f.node) \in Nodes(tree) /\ f \in WeatherOf(NodeOf(f.node)) \cup DriftOf(NodeOf(f.node))
<1>1. PICK m \in Nodes(tree) : f \in WeatherOf(m) \cup DriftOf(m)
    BY DEF IInv, Standing
<1>2. f.node = m.id
    BY <1>1, FindingShape
<1>3. NodeOf(m.id) = m
    BY <1>1, NodeOfId DEF IInv, TypeOK
<1>. QED
    BY <1>1, <1>2, <1>3

LEMMA LookupChooses ==
    ASSUME NEW m
    PROVE  /\ Lookup(m) \subseteq Approved(m)
           /\ {p \in Approved(m) : p.id = m.id} # {} => Lookup(m) = {p \in Approved(m) : p.id = m.id}
    BY DEF Lookup

LEMMA ApprovedById ==
    ASSUME IInv, NEW m \in Nodes(tree)
    PROVE  {p \in file : p.id = m.id} = {p \in Approved(m) : p.id = m.id}
<1>. SUFFICES ASSUME NEW p \in file, p.id = m.id
              PROVE  p \in Approved(m)
    BY DEF Approved
<1>1. PICK T \in Tree : \E k \in Nodes(T) : p.id = k.id /\ p.eco = k.eco /\ p.name = k.name
    BY DEF IInv, Filed
<1>2. PICK q \in T : p.id = q.node.id /\ p.eco = q.node.eco /\ p.name = q.node.name
    BY <1>1 DEF Nodes
<1>3. PICK r \in tree : m = r.node
    BY DEF Nodes
<1>4. q.node.eco = r.node.eco /\ q.node.name = r.node.name
  <2>1. tree \in Tree
      BY DEF IInv, TypeOK
  <2>2. \A c \in T, d \in tree : c.node.id = d.node.id => c.node.eco = d.node.eco /\ c.node.name = d.node.name
      BY Zenon, <2>1, DriftAssumption
  <2>. QED
      BY <1>2, <1>3, <2>2
<1>. QED
    BY <1>2, <1>3, <1>4 DEF Approved

LEMMA ApprovedWhenJudged ==
    ASSUME IInv
    PROVE  NothingApprovedIsNew
<1>. SUFFICES ASSUME Judged, NEW f \in findings, f.check = "VC-010"
              PROVE  LET m   == NodeOf(f.node)
                         own == {p \in file : p.id = m.id}
                     IN  \E p \in (IF own # {} THEN own ELSE Approved(m)) : f.claim = surface[m.id] \ p.items
    BY Zenon DEF NothingApprovedIsNew
<1>. DEFINE m == NodeOf(f.node)
            own == {p \in file : p.id = m.id}
<1>1. m \in Nodes(tree) /\ f \in WeatherOf(m) \cup DriftOf(m)
    BY Attributed
<1>. HIDE DEF m
<1>2. f \in DriftOf(m)
    BY Zenon, <1>1, Origin
<1>3. PICK p \in Lookup(m) : f.claim = surface[m.id] \ p.items
    BY <1>2, DriftShape
<1>4. own = {q \in Approved(m) : q.id = m.id}
    BY <1>1, ApprovedById
<1>5. p \in IF own # {} THEN own ELSE Approved(m)
    BY <1>3, <1>4, LookupChooses
<1>. QED
    BY Zenon, <1>3, <1>5 DEF m

\* VC-010 names of an approved package nothing that its own approved profile has,
\* across edits of the tree, later days and failing registries, and of a package
\* without one, nothing that the profile it is compared with has (Lookup, Diff).
THEOREM ApprovedIsNotReported == Spec => []NothingApprovedIsNew
<1>. QED
    BY Invariance, ApprovedWhenJudged, PTL

LEMMA DriftWhenJudged ==
    ASSUME IInv
    PROVE  DriftIsJudged
<1>. SUFFICES ASSUME Judged, NEW m \in Nodes(tree), Approved(m) # {},
                     \A p \in Approved(m) : ~(surface[m.id] \subseteq p.items)
              PROVE  \E f \in findings : /\ f.node = m.id
                                         /\ \/ f.check = "VC-010"
                                            \/ f.check = "VC-010-ambiguous" /\ "baseline" \in gaps
    BY Zenon DEF DriftIsJudged
<1>1. \A f \in DriftOf(m) : f \in findings /\ f.node = m.id
    BY FindingShape DEF IInv, Standing
<1>2. CASE Lookup(m) = {}
  <2>. DEFINE g == Finding("VC-010-ambiguous", m, FALSE, {})
  <2>1. g \in DriftOf(m)
      BY Zenon, <1>2 DEF DriftOf
  <2>2. PICK p \in Approved(m) : TRUE
      OBVIOUS
  <2>3. Approved(m) # {p}
      BY <1>2, <2>2, FS_Singleton DEF Lookup
  <2>4. p \in Ambiguous
      BY <2>2, <2>3 DEF Ambiguous, Approved
  <2>5. "baseline" \in gaps
      BY <2>4 DEF IInv, Standing
  <2>6. g.check = "VC-010-ambiguous"
      BY DEF Finding
  <2>7. g \in findings /\ g.node = m.id
      BY Zenon, <1>1, <2>1
  <2>. HIDE DEF g
  <2>. QED
      BY Zenon, <2>5, <2>6, <2>7
<1>3. CASE Lookup(m) # {}
  <2>1. PICK p \in Lookup(m) : surface[m.id] \ p.items # {}
      BY <1>3, LookupChooses
  <2>. DEFINE g == Finding("VC-010", m, DriftGates(p, m, surface[m.id] \ p.items), surface[m.id] \ p.items)
  <2>2. g \in DriftOf(m)
      BY Zenon, <1>3, <2>1 DEF DriftOf
  <2>3. g.check = "VC-010"
      BY DEF Finding
  <2>4. g \in findings /\ g.node = m.id
      BY Zenon, <1>1, <2>2
  <2>. HIDE DEF g
  <2>. QED
      BY Zenon, <2>3, <2>4
<1>. QED
    BY <1>2, <1>3

\* A package whose surface goes beyond every approved profile of its name is
\* reported, or it is reported as not comparable and the baseline is a gap
\* (Lookup, AmbiguousKeys).
THEOREM DriftIsReported == Spec => []DriftIsJudged
<1>. QED
    BY Invariance, DriftWhenJudged, PTL

LEMMA UnansweredWhenJudged ==
    ASSUME IInv
    PROVE  UnansweredStaysCounted
<1>. DEFINE lost == {u \in Unavailable : fetched[u[2]] \notin {"found", "none"}}
<1>. SUFFICES ASSUME Judged PROVE lost \subseteq unread /\ Cardinality(lost) <= count
    BY DEF UnansweredStaysCounted
<1>1. lost \subseteq unread
    BY DEF IInv, Underway, Judged
<1>2. IsFiniteSet(unread) /\ Cardinality(unread) <= count /\ count \in Nat
    BY UnavailableFinite, FS_Subset DEF IInv, TypeOK
<1>3. IsFiniteSet(lost) /\ Cardinality(lost) <= Cardinality(unread)
  <2>. HIDE DEF lost
  <2>. QED
      BY <1>1, <1>2, FS_Subset
<1>4. Cardinality(lost) \in Nat /\ Cardinality(unread) \in Nat
  <2>. HIDE DEF lost
  <2>. QED
      BY <1>2, <1>3, FS_CardinalityType
<1>. QED
    BY <1>1, <1>2, <1>3, <1>4

\* The crates that no fetch answered for are listed for each project and never
\* more than the count says, whichever fetches fail (cmdScan).
THEOREM UnansweredIsCounted == Spec => []UnansweredStaysCounted
<1>. QED
    BY Invariance, UnansweredWhenJudged, PTL

-----------------------------------------------------------------------------
(***************************************************************************)
(* The theorem about claims.                                               *)
(***************************************************************************)
\* A full record has every release that the registry dates, by its version and its time, and
\* nobody for a publisher but its author.
LEMMA FullRecordFacts ==
    ASSUME NEW p
    PROVE  /\ FullRecord(p) \subseteq Release /\ IsFiniteSet(FullRecord(p))
           /\ \A r \in Dated(p) : \E d \in FullRecord(p) :
                 d.ver = r.ver /\ d.at = r.at /\ d.publisher \in {r.author, NoAccount}
           /\ \A d \in FullRecord(p) : \E r \in Dated(p) : d.ver = r.ver /\ d.at = r.at
<1>1. FullRecord(p) \subseteq Release /\ IsFiniteSet(FullRecord(p))
    BY DocumentFacts, GoDocumentFacts DEF FullRecord
<1>2. CASE p[1] # "gomod"
  <2>1. FullRecord(p) = {[ver |-> r.ver, at |-> r.at, yanked |-> YankedIn(p, r),
                          publisher |-> PublisherIn(p, r)] : r \in Dated(p)}
      BY <1>2 DEF FullRecord, Document
  <2>2. \A r \in Dated(p) : PublisherIn(p, r) \in {r.author, NoAccount}
      BY DEF PublisherIn
  <2>3. ASSUME NEW r \in Dated(p)
        PROVE  \E d \in FullRecord(p) : d.ver = r.ver /\ d.at = r.at /\ d.publisher \in {r.author, NoAccount}
    <3>. DEFINE d == [ver |-> r.ver, at |-> r.at, yanked |-> YankedIn(p, r), publisher |-> PublisherIn(p, r)]
    <3>1. d \in FullRecord(p)
        BY <2>1
    <3>2. d.ver = r.ver /\ d.at = r.at /\ d.publisher \in {r.author, NoAccount}
        BY <2>2
    <3>. QED
        BY <3>1, <3>2
  <2>4. \A d \in FullRecord(p) : \E r \in Dated(p) : d.ver = r.ver /\ d.at = r.at
      BY <2>1
  <2>. QED
      BY <1>1, <2>3, <2>4
<1>3. CASE p[1] = "gomod"
  <2>. DEFINE files == {<<p[2], q[3]>> : q \in ModRequest(p) \ {}} \cap DOMAIN ModFile
              specs == UNION {Retractions(ModFile[c]) : c \in files}
              dated == {r \in Dated(p) : <<p, "info", r.ver>> \notin {}}
  <2>1. GoDocument(p, {}) = {[ver |-> r.ver, at |-> r.at, yanked |-> IsRetracted(r.ver, specs, Versions(p)),
                              publisher |-> NoAccount] : r \in dated}
      BY Zenon DEF GoDocument
  <2>. HIDE DEF specs
  <2>2. FullRecord(p) = {[ver |-> r.ver, at |-> r.at, yanked |-> IsRetracted(r.ver, specs, Versions(p)),
                          publisher |-> NoAccount] : r \in Dated(p)}
      BY <1>3, <2>1 DEF FullRecord
  <2>3. ASSUME NEW r \in Dated(p)
        PROVE  \E d \in FullRecord(p) : d.ver = r.ver /\ d.at = r.at /\ d.publisher \in {r.author, NoAccount}
    <3>. DEFINE d == [ver |-> r.ver, at |-> r.at, yanked |-> IsRetracted(r.ver, specs, Versions(p)),
                      publisher |-> NoAccount]
    <3>1. d \in FullRecord(p)
        BY <2>2
    <3>. QED
        BY <3>1
  <2>4. \A d \in FullRecord(p) : \E r \in Dated(p) : d.ver = r.ver /\ d.at = r.at
      BY <2>2
  <2>. QED
      BY <1>1, <2>3, <2>4
<1>. QED
    BY <1>2, <1>3

\* A full history: by index, what FullRecordFacts says of the record.
LEMMA FullHistory ==
    ASSUME NEW p, NEW h \in Sorted(FullRecord(p))
    PROVE  /\ h \in Seq(Release) /\ DOMAIN h = 1..Len(h)
           /\ \A i \in 1..Len(h) : \E r \in Dated(p) : h[i].ver = r.ver /\ h[i].at = r.at
           /\ \A r \in Dated(p) : \E i \in 1..Len(h) :
                 h[i].ver = r.ver /\ h[i].at = r.at /\ h[i].publisher \in {r.author, NoAccount}
           /\ \A i, j \in 1..Len(h) : i < j => h[i].at <= h[j].at
<1>1. FullRecord(p) \subseteq Release /\ IsFiniteSet(FullRecord(p))
    BY FullRecordFacts
<1>2. /\ h \in Seq(Release) /\ DOMAIN h = 1..Len(h)
      /\ \A i \in 1..Len(h) : h[i] \in FullRecord(p)
      /\ \A d \in FullRecord(p) : \E i \in 1..Len(h) : h[i] = d
      /\ \A i, j \in 1..Len(h) : i < j => h[i].at <= h[j].at
    BY <1>1, SortedFacts
<1>3. ASSUME NEW r \in Dated(p)
      PROVE  \E i \in 1..Len(h) : h[i].ver = r.ver /\ h[i].at = r.at /\ h[i].publisher \in {r.author, NoAccount}
  <2>1. PICK d \in FullRecord(p) : d.ver = r.ver /\ d.at = r.at /\ d.publisher \in {r.author, NoAccount}
      BY FullRecordFacts
  <2>2. PICK i \in 1..Len(h) : h[i] = d
      BY <1>2
  <2>. QED
      BY <2>1, <2>2
<1>4. \A i \in 1..Len(h) : \E r \in Dated(p) : h[i].ver = r.ver /\ h[i].at = r.at
    BY <1>2, FullRecordFacts
<1>. QED
    BY <1>2, <1>3, <1>4

\* Sorted by version, the last release is of the highest version.
LEMMA ByVersionFacts ==
    ASSUME NEW R, R \subseteq Release, IsFiniteSet(R), NEW h \in Sorted(R)
    PROVE  /\ DOMAIN ByVersion(h) = 1..Len(h) /\ Len(ByVersion(h)) = Len(h)
           /\ \A i \in 1..Len(h) : ByVersion(h)[i] \in R
           /\ \A d \in R : ~Less(ByVersion(h)[Len(h)].ver, d.ver)
<1>. DEFINE n == Len(h)
            s == ByVersion(h)
            rank == [d \in R |-> Rank[d.ver]]
<1>1. /\ DOMAIN h = 1..n /\ n = Cardinality(R) /\ n \in Nat
      /\ {h[i] : i \in DOMAIN h} = R
    BY SortedFacts, FS_CardinalityType
<1>2. \A d \in R : Rank[d.ver] \in Nat
    BY DriftAssumption DEF Release
<1>3. rank \in [R -> Nat]
    BY <1>2
<1>4. PICK t \in [1..n -> R] : /\ \A i, j \in 1..n : i # j => t[i] # t[j]
                               /\ \A i, j \in 1..n : i < j => rank[t[i]] <= rank[t[j]]
  <2>1. \E t \in [1..Cardinality(R) -> R] :
            /\ \A i, j \in 1..Cardinality(R) : i # j => t[i] # t[j]
            /\ \A i, j \in 1..Cardinality(R) : i < j => rank[t[i]] <= rank[t[j]]
    <3>. HIDE DEF rank
    <3>. QED
        BY Zenon, <1>3, OrderExists
  <2>2. Cardinality(R) = n
      BY <1>1
  <2>. HIDE DEF rank, n
  <2>. QED
      BY <2>1, <2>2
<1>5. \A i, j \in 1..n : i < j => ~Less(t[j].ver, t[i].ver)
  <2>. SUFFICES ASSUME NEW i \in 1..n, NEW j \in 1..n, i < j
                PROVE  ~Less(t[j].ver, t[i].ver)
      OBVIOUS
  <2>1. t[i] \in R /\ t[j] \in R /\ rank[t[i]] <= rank[t[j]]
      BY <1>4
  <2>2. rank[t[i]] = Rank[t[i].ver] /\ rank[t[j]] = Rank[t[j].ver]
      BY <2>1
  <2>3. Rank[t[i].ver] \in Nat /\ Rank[t[j].ver] \in Nat
      BY <1>2, <2>1
  <2>. HIDE DEF rank
  <2>. QED
      BY <2>1, <2>2, <2>3 DEF Less
<1>6. /\ s \in [1..n -> R]
      /\ \A i, j \in DOMAIN s : i # j => s[i] # s[j]
      /\ \A i, j \in DOMAIN s : i < j => ~Less(s[j].ver, s[i].ver)
  <2>. DEFINE Order(u) == /\ \A i, j \in DOMAIN u : i # j => u[i] # u[j]
                          /\ \A i, j \in DOMAIN u : i < j => ~Less(u[j].ver, u[i].ver)
  <2>1. s = CHOOSE u \in [1..n -> R] : Order(u)
    <3>. HIDE DEF n
    <3>. QED
        BY Zenon, <1>1 DEF ByVersion
  <2>2. Order(t)
      BY <1>4, <1>5
  <2>. HIDE DEF s, n, Order
  <2>3. s \in [1..n -> R] /\ Order(s)
      BY <2>1, <2>2, <1>4
  <2>. QED
      BY <2>3 DEF Order
<1>. HIDE DEF s, n
<1>7. s \in Injection(1..n, R) /\ Cardinality(1..n) = Cardinality(R)
  <2>1. Cardinality(1..n) = n
      BY <1>1, FS_Interval
  <2>2. s \in Injection(1..n, R)
      BY <1>6 DEF Injection, IsInjective
  <2>. QED
      BY <1>1, <2>1, <2>2
<1>8. \A d \in R : \E i \in 1..n : s[i] = d
  <2>1. s \in Surjection(1..n, R)
      BY <1>7, FS_Injection
  <2>. QED
      BY <2>1 DEF Surjection
<1>9. ASSUME NEW d \in R PROVE ~Less(s[n].ver, d.ver)
  <2>1. PICK i \in 1..n : s[i] = d
      BY <1>8
  <2>2. CASE i = n
    <3>1. Rank[d.ver] \in Nat
        BY <1>2
    <3>. QED
        BY <2>1, <2>2, <3>1 DEF Less
  <2>3. CASE i # n
    <3>1. n \in 1..n /\ i < n
        BY <1>1, <2>3
    <3>. QED
        BY <1>6, <2>1, <3>1
  <2>. QED
      BY <2>2, <2>3
<1>10. Len(s) = n
    BY <1>1, <1>6
<1>. QED
    BY <1>6, <1>9, <1>10 DEF s, n

\* The history of a node whose name no other ecosystem has.
LEMMA HistoryOf ==
    ASSUME IInv, Judged, NEW m \in Nodes(tree), ~Shared(m)
    PROVE  \/ releases[m.id] = <<>>
           \/ releases[m.id] \in Sorted(FullRecord(<<m.eco, m.name>>))
           \/ /\ m.eco = "gomod" /\ m.eco \in gaps
              /\ \A i \in 1..Len(releases[m.id]) : releases[m.id][i].publisher = NoAccount
<1>1. m.id \in DOMAIN releases
    BY DEF IInv, Underway, Judged, Ids
<1>2. releases[m.id] \in Seq(Release)
    BY <1>1 DEF IInv, TypeOK
<1>3. job # "none"
    BY DEF Judged
<1>. QED
    BY <1>2, <1>3 DEF IInv, HistoriesAreFull

LEMMA SilenceHolds ==
    ASSUME IInv, Judged, NEW m \in Nodes(tree), ~Shared(m),
           NEW f \in Dormancy(m, releases[m.id], surface[m.id] \cap Hook # {}, today)
    PROVE  SilentBetween(Dated(<<m.eco, m.name>>), f.claim) \/ m.eco \in gaps
<1>. DEFINE h == releases[m.id]
            p == <<m.eco, m.name>>
<1>1. PICK c \in Awakenings(h, m.ver) :
          f = Finding("VC-004", m, surface[m.id] \cap Hook # {}, {h[c - 1].ver, h[c].ver})
    BY Zenon DEF Dormancy
<1>2. f.claim = {h[c - 1].ver, h[c].ver}
    BY <1>1 DEF Finding
<1>3. c \in 2..Len(h) /\ Gap(h, c) >= DormantAfter
    BY DEF Awakenings
<1>4. h # <<>>
    BY <1>3
<1>. HIDE DEF h, p
<1>5. CASE h \in Sorted(FullRecord(p))
  <2>1. /\ h \in Seq(Release)
        /\ \A i \in 1..Len(h) : \E r \in Dated(p) : h[i].ver = r.ver /\ h[i].at = r.at
        /\ \A r \in Dated(p) : \E i \in 1..Len(h) : h[i].ver = r.ver /\ h[i].at = r.at
        /\ \A i, j \in 1..Len(h) : i < j => h[i].at <= h[j].at
    <3>1. \A r \in Dated(p) : \E i \in 1..Len(h) :
              h[i].ver = r.ver /\ h[i].at = r.at /\ h[i].publisher \in {r.author, NoAccount}
        BY <1>5, FullHistory
    <3>. QED
        BY <1>5, <3>1, FullHistory
  <2>2. /\ c \in 1..Len(h) /\ c - 1 \in 1..Len(h) /\ Len(h) \in Nat
        /\ \A i \in 1..Len(h) : h[i].at \in Nat
    <3>1. Len(h) \in Nat /\ \A i \in 1..Len(h) : h[i] \in Release
        BY <2>1
    <3>. QED
        BY <1>3, <3>1 DEF Release
  <2>3. PICK r \in Dated(p) : h[c - 1].ver = r.ver /\ h[c - 1].at = r.at
      BY <2>1, <2>2
  <2>4. PICK q \in Dated(p) : h[c].ver = q.ver /\ h[c].at = q.at
      BY <2>1, <2>2
  <2>5. q.at - r.at >= DormantAfter
      BY <1>3, <2>3, <2>4 DEF Gap
  <2>6. ASSUME NEW o \in Dated(p), r.at < o.at, o.at < q.at PROVE FALSE
    <3>1. PICK j \in 1..Len(h) : h[j].at = o.at
        BY <2>1
    <3>2. ~(h[j].at <= h[c - 1].at) /\ ~(h[c].at <= h[j].at)
      <4>1. h[j].at \in Nat /\ h[c - 1].at \in Nat /\ h[c].at \in Nat
          BY <2>2
      <4>2. h[c - 1].at < h[j].at /\ h[j].at < h[c].at
          BY <2>3, <2>4, <2>6, <3>1
      <4>3. \A a, b \in Nat : a < b => ~(b <= a)
          OBVIOUS
      <4>. QED
          BY Zenon, <4>1, <4>2, <4>3
    <3>3. ~(j < c - 1) /\ ~(c < j)
        BY <2>1, <2>2, <3>2
    <3>4. h[c - 1].at <= h[c - 1].at /\ h[c].at <= h[c].at
        BY <2>2
    <3>5. j # c - 1 /\ j # c
        BY <3>2, <3>4
    <3>. QED
        BY <1>3, <2>2, <3>3, <3>5
  <2>. QED
    <3>1. \A o \in Dated(p) : ~(r.at < o.at /\ o.at < q.at)
        BY <2>6
    <3>2. f.claim = {r.ver, q.ver}
        BY <1>2, <2>3, <2>4
    <3>3. SilentBetween(Dated(p), f.claim)
        BY Zenon, <2>5, <3>1, <3>2 DEF SilentBetween
    <3>. QED
        BY <3>3 DEF p
<1>. QED
    BY <1>4, <1>5, HistoryOf DEF h, p

LEMMA LineageHolds ==
    ASSUME IInv, Judged, NEW m \in Nodes(tree), ~Shared(m),
           NEW f \in Lineage(m, releases[m.id], surface[m.id] \cap Hook # {}, today), f.gates,
           NEW account \in f.claim
    PROVE  NewAmong(Dated(<<m.eco, m.name>>), m.ver, account)
<1>. DEFINE h == releases[m.id]
            p == <<m.eco, m.name>>
            gates(i) == Complete(h, i) /\ (surface[m.id] \cap Hook # {} \/ Gap(h, i) >= DormantAfter)
<1>1. PICK i \in 2..Len(h) : /\ h[i].ver = m.ver /\ h[i].publisher # NoAccount
                             /\ h[i].publisher \notin Prior(h, i)
                             /\ f = Finding("VC-011", m, gates(i), {h[i].publisher})
    BY Zenon DEF Lineage
<1>2. gates(i) /\ account = h[i].publisher
  <2>. HIDE DEF gates
  <2>1. f.gates = gates(i) /\ f.claim = {h[i].publisher}
      BY <1>1 DEF Finding
  <2>. QED
      BY Zenon, <2>1
<1>3. NoAccount \notin Prior(h, i)
    BY <1>2 DEF Complete
<1>4. h # <<>> /\ i \in 1..Len(h)
    BY <1>1
<1>. HIDE DEF h, p, gates
<1>5. h \in Sorted(FullRecord(p))
    BY <1>1, <1>4, HistoryOf DEF h, p
<1>6. /\ h \in Seq(Release)
      /\ \A r \in Dated(p) : \E k \in 1..Len(h) :
            h[k].ver = r.ver /\ h[k].at = r.at /\ h[k].publisher \in {r.author, NoAccount}
      /\ \A k, j \in 1..Len(h) : k < j => h[k].at <= h[j].at
    BY <1>5, FullHistory
<1>7. PICK r1 \in Dated(p) : h[i].ver = r1.ver /\ h[i].at = r1.at
    BY <1>4, <1>5, FullHistory
<1>8. Len(h) \in Nat /\ \A k \in 1..Len(h) : h[k].at \in Nat
  <2>1. Len(h) \in Nat /\ \A k \in 1..Len(h) : h[k] \in Release
      BY <1>6
  <2>. QED
      BY <2>1 DEF Release
<1>. SUFFICES ASSUME NEW r \in Dated(p), r.ver = m.ver, NEW q \in Dated(p), q.at < r.at
              PROVE  q.author # account
    BY DEF NewAmong, p
<1>9. r.at = h[i].at
  <2>1. r = r1
      BY <1>1, <1>7, DatedFacts
  <2>. QED
      BY <1>7, <2>1
<1>10. PICK k \in 1..Len(h) : h[k].at = q.at /\ h[k].publisher \in {q.author, NoAccount}
    BY <1>6
<1>11. k < i
  <2>1. ~(h[i].at <= h[k].at)
      BY <1>4, <1>8, <1>9, <1>10
  <2>2. ~(i < k)
      BY <1>4, <1>6, <2>1
  <2>3. i # k
      BY <1>4, <1>8, <2>1
  <2>. QED
      BY <1>4, <1>8, <2>2, <2>3
<1>12. h[k].publisher \in Prior(h, i)
  <2>1. k \in 1..(i - 1)
      BY <1>4, <1>8, <1>11
  <2>. QED
      BY <2>1 DEF Prior
<1>. QED
    BY <1>1, <1>2, <1>3, <1>10, <1>12

LEMMA LureHolds ==
    ASSUME IInv, Judged, NEW m \in Nodes(tree), ~Shared(m),
           NEW f \in YankLure(m, releases[m.id], extra[m.id]), f.gates
    PROVE  LET V == {r.ver : r \in Dated(<<m.eco, m.name>>)}
           IN
           /\ Highest(V, V) \cap f.claim # {} \/ m.eco \in gaps
           /\ m.eco = "cargo" => \A d \in f.claim \cap Dependency(m) :
                  d \notin BuildDeps[<<m.name, m.ver>>] \/ "yanklure" \in gaps
<1>. DEFINE h == releases[m.id]
            p == <<m.eco, m.name>>
            V == {r.ver : r \in Dated(p)}
            s == ByVersion(h)
            n == Len(s)
<1>1. /\ IsYanked(h, m.ver)
      /\ f = Finding("VC-012", m, Lures(h) # {}, Lures(h) \cup (IF Lures(h) = {} THEN {} ELSE extra[m.id]))
    BY Zenon DEF YankLure, Flagged
<1>2. Lures(h) # {} /\ f.claim = Lures(h) \cup extra[m.id]
  <2>. HIDE DEF h
  <2>1. /\ f.gates = (Lures(h) # {})
        /\ f.claim = Lures(h) \cup (IF Lures(h) = {} THEN {} ELSE extra[m.id])
      BY <1>1 DEF Finding
  <2>. QED
      BY <2>1
<1>3. h # <<>>
    BY <1>1 DEF IsYanked
<1>4. Lures(h) = {s[n].ver} /\ n > LureMinRun
  <2>. HIDE DEF h
  <2>. QED
      BY <1>2 DEF Lures
<1>. HIDE DEF h, p
<1>5. ASSUME h \in Sorted(FullRecord(p))
      PROVE  s[n].ver \in Version /\ s[n].ver \in Highest(V, V)
  <2>. DEFINE R == FullRecord(p)
  <2>1. R \subseteq Release /\ IsFiniteSet(R)
      BY FullRecordFacts
  <2>2. /\ n = Len(h) /\ \A i \in 1..Len(h) : s[i] \in R
        /\ \A d \in R : ~Less(s[Len(h)].ver, d.ver)
      BY <1>5, <2>1, ByVersionFacts
  <2>3. Len(h) \in Nat /\ n \in 1..Len(h)
    <3>1. Len(h) \in Nat
        BY <1>5, FullHistory
    <3>. QED
        BY <1>4, <2>2, <3>1 DEF LureMinRun
  <2>4. s[n] \in R
      BY <2>2, <2>3
  <2>. HIDE DEF s, n
  <2>5. PICK r \in Dated(p) : s[n].ver = r.ver
      BY <2>4, FullRecordFacts
  <2>6. s[n].ver \in V /\ s[n].ver \in Version
      BY <2>1, <2>4, <2>5 DEF Release
  <2>7. ASSUME NEW w \in V PROVE ~Less(s[n].ver, w)
    <3>1. PICK q \in Dated(p) : w = q.ver
        BY <2>7
    <3>2. PICK d \in R : d.ver = q.ver
        BY FullRecordFacts
    <3>. QED
        BY <2>2, <3>1, <3>2
  <2>. QED
      BY <2>6, <2>7 DEF Highest
<1>. HIDE DEF s, n
<1>6. Highest(V, V) \cap f.claim # {} \/ m.eco \in gaps
    BY <1>2, <1>3, <1>4, <1>5, HistoryOf DEF h, p
<1>7. ASSUME m.eco = "cargo", NEW d \in f.claim \cap Dependency(m), "yanklure" \notin gaps
      PROVE  d \notin BuildDeps[<<m.name, m.ver>>]
  <2>1. h \in Sorted(FullRecord(p))
      BY <1>3, <1>7, HistoryOf DEF h, p
  <2>2. d \notin Version
      BY <1>7, DriftAssumption DEF Dependency
  <2>3. d \in extra[m.id]
      BY <1>2, <1>4, <1>5, <1>7, <2>1, <2>2
  <2>4. extra[m.id] \cap BuildDeps[<<m.name, m.ver>>] = {}
      BY <1>7 DEF IInv, LuresAreNew, Judged
  <2>. QED
      BY <2>3, <2>4
<1>. QED
    BY <1>6, <1>7 DEF p

LEMMA ClaimsWhenJudged ==
    ASSUME IInv
    PROVE  ClaimsHold
<1>. SUFFICES ASSUME Judged, NEW f \in findings, ~Shared(NodeOf(f.node))
              PROVE  LET m == NodeOf(f.node)
                         R == Dated(<<m.eco, m.name>>)
                         V == {r.ver : r \in R}
                     IN  /\ f.check = "VC-004" => SilentBetween(R, f.claim) \/ m.eco \in gaps
                         /\ f.check = "VC-011" /\ f.gates =>
                               \A account \in f.claim : NewAmong(R, m.ver, account)
                         /\ f.check = "VC-012" /\ f.gates =>
                               /\ Highest(V, V) \cap f.claim # {} \/ m.eco \in gaps
                               /\ m.eco = "cargo" => \A d \in f.claim \cap Dependency(m) :
                                     d \notin BuildDeps[<<m.name, m.ver>>] \/ "yanklure" \in gaps
    BY Zenon DEF ClaimsHold
<1>. DEFINE m == NodeOf(f.node)
            hooked == surface[m.id] \cap Hook # {}
<1>1. m \in Nodes(tree) /\ f \in WeatherOf(m) \cup DriftOf(m)
    BY Attributed
<1>. HIDE DEF m
<1>2. /\ f.check = "VC-004" => f \in Dormancy(m, releases[m.id], hooked, today)
      /\ f.check = "VC-011" => f \in Lineage(m, releases[m.id], hooked, today)
      /\ f.check = "VC-012" => f \in YankLure(m, releases[m.id], extra[m.id])
    BY Zenon, <1>1, Origin
<1>3. ~Shared(m)
    BY DEF m
<1>4. f.check = "VC-004" => SilentBetween(Dated(<<m.eco, m.name>>), f.claim) \/ m.eco \in gaps
    BY Zenon, <1>1, <1>2, <1>3, SilenceHolds
<1>5. f.check = "VC-011" /\ f.gates => \A account \in f.claim : NewAmong(Dated(<<m.eco, m.name>>), m.ver, account)
    BY Zenon, <1>1, <1>2, <1>3, LineageHolds
<1>6. f.check = "VC-012" /\ f.gates =>
          LET V == {r.ver : r \in Dated(<<m.eco, m.name>>)}
          IN
          /\ Highest(V, V) \cap f.claim # {} \/ m.eco \in gaps
          /\ m.eco = "cargo" => \A d \in f.claim \cap Dependency(m) :
                d \notin BuildDeps[<<m.name, m.ver>>] \/ "yanklure" \in gaps
    BY Zenon, <1>1, <1>2, <1>3, LureHolds
<1>. QED
    BY Zenon, <1>4, <1>5, <1>6 DEF m

\* What dormancy claims, and what lineage and yank-lure gate on, is true of all
\* releases that the registry dates, on every day and whichever requests fail, or
\* the source that was read in part is a gap of the scan.
THEOREM ClaimsAreTrue == Spec => []ClaimsHold
<1>. QED
    BY Invariance, ClaimsWhenJudged, PTL

=============================================================================
