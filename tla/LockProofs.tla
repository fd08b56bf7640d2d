------------------------------ MODULE LockProofs ------------------------------
(***************************************************************************)
(* What the adapters make of a file is a whole graph, for every file.      *)
(***************************************************************************)
EXTENDS NpmLocks, PyLocks, OtherLocks, FiniteSetTheorems, WellFoundedInduction, TLAPS

-----------------------------------------------------------------------------
(***************************************************************************)
(* The order of places.                                                    *)
(***************************************************************************)
Path == Seq(DOMAIN Order)

\* What holds of the first and is passed on holds of all, as a set.
LEMMA AllCounted ==
    ASSUME NEW n \in Nat, NEW A, 0 \in A, \A k \in 1..n : k - 1 \in A => k \in A
    PROVE  0..n \subseteq A
<1>. DEFINE Missing == (0..n) \ A
            Below == {ss \in Nat \X Nat : ss[1] < ss[2]}
<1>1. SUFFICES ASSUME Missing # {} PROVE FALSE
    OBVIOUS
<1>2. IsWellFoundedOn(Below, Nat)
    BY NatLessThanWellFounded DEF OpToRel
<1>3. Missing \subseteq Nat
    OBVIOUS
<1>4. PICK k \in Missing : \A j \in Missing : <<j, k>> \notin Below
  <2>. HIDE DEF Missing, Below
  <2>. QED
      BY <1>1, <1>2, <1>3, WFMin
<1>5. k \in 1..n /\ k - 1 \in 0..n /\ <<k - 1, k>> \in Below
    OBVIOUS
<1>. QED
    BY <1>4, <1>5

Steps(f, n, S, b, step) ==
    f \in [0..n -> S] /\ f[0] = b /\ \A k \in 1..n : f[k] = step[<<k, f[k - 1]>>]

\* A function that is defined step by step exists.
LEMMA StepByStep ==
    ASSUME NEW n \in Nat, NEW S, NEW b \in S, NEW step \in [(1..n) \X S -> S]
    PROVE  \E f : Steps(f, n, S, b, step)
<1>. DEFINE upTo(m, f) == f \in [0..m -> S] /\ f[0] = b /\ \A k \in 1..m : f[k] = step[<<k, f[k - 1]>>]
            A == {m \in 0..n : \E f : upTo(m, f)}
<1>1. 0 \in A
  <2>. DEFINE f == [k \in 0..0 |-> b]
  <2>1. upTo(0, f)
      OBVIOUS
  <2>. HIDE DEF f, upTo
  <2>. QED
      BY <2>1
<1>2. \A m \in 1..n : m - 1 \in A => m \in A
  <2>. SUFFICES ASSUME NEW m \in 1..n, NEW f, upTo(m - 1, f) PROVE \E h : upTo(m, h)
    <3>1. \A i \in 1..n : i \in 0..n
        OBVIOUS
    <3>. HIDE DEF upTo
    <3>. QED
        BY <3>1
  <2>. DEFINE h == [k \in 0..m |-> IF k = m THEN step[<<m, f[m - 1]>>] ELSE f[k]]
  <2>1. f[m - 1] \in S /\ step[<<m, f[m - 1]>>] \in S
      OBVIOUS
  <2>2. h \in [0..m -> S]
      BY <2>1
  <2>3. h[0] = b /\ \A k \in 1..(m - 1) : h[k] = f[k] /\ h[k - 1] = f[k - 1]
      OBVIOUS
  <2>4. h[m] = step[<<m, h[m - 1]>>]
    <3>1. h[m] = step[<<m, f[m - 1]>>]
        OBVIOUS
    <3>2. m - 1 \in 0..m /\ m - 1 # m
        OBVIOUS
    <3>3. h[m - 1] = f[m - 1]
        BY <3>2
    <3>. HIDE DEF h
    <3>. QED
        BY <3>1, <3>3
  <2>5. \A k \in 1..m : k = m \/ k \in 1..(m - 1)
      OBVIOUS
  <2>6. \A k \in 1..m : h[k] = step[<<k, h[k - 1]>>]
    <3>. HIDE DEF h
    <3>. QED
        BY <2>3, <2>4, <2>5
  <2>7. upTo(m, h)
    <3>. HIDE DEF h
    <3>. QED
        BY <2>2, <2>3, <2>6
  <2>. HIDE DEF h, upTo
  <2>. QED
      BY <2>7
<1>3. n \in A
  <2>. HIDE DEF A
  <2>. QED
      BY <1>1, <1>2, AllCounted
<1>. QED
    BY <1>3 DEF Steps

LEMMA BeforeBySteps ==
    ASSUME NEW p \in Path, NEW q \in Path
    PROVE  PlaceBefore(p, q) <=>
               \E k \in 0..Len(p) :
                   /\ k <= Len(q) /\ \A i \in 1..k : p[i] = q[i]
                   /\ \/ k = Len(p) /\ k < Len(q)
                      \/ k < Len(p) /\ k < Len(q) /\ Order[p[k + 1]] < Order[q[k + 1]]
<1>1. \A k \in 0..Len(p) : k <= Len(q) =>
          (Leading(p, k) = Leading(q, k) <=> \A i \in 1..k : p[i] = q[i])
  <2>. SUFFICES ASSUME NEW k \in 0..Len(p), k <= Len(q)
                PROVE  Leading(p, k) = Leading(q, k) <=> \A i \in 1..k : p[i] = q[i]
      OBVIOUS
  <2>1. Leading(p, k) = [i \in 1..k |-> p[i]] /\ Leading(q, k) = [i \in 1..k |-> q[i]]
      BY DEF Leading, Path
  <2>. QED
      BY <2>1
<1>. QED
    BY <1>1 DEF PlaceBefore

LEMMA BeforeIsStrict == ASSUME NEW p \in Path PROVE ~PlaceBefore(p, p)
<1>1. \A k \in 0..Len(p) : k < Len(p) => Order[p[k + 1]] \in Nat
    BY OrderAssumption DEF Path
<1>. QED
    BY <1>1, BeforeBySteps DEF Path

LEMMA BeforeIsTransitive ==
    ASSUME NEW p \in Path, NEW q \in Path, NEW r \in Path, PlaceBefore(p, q), PlaceBefore(q, r)
    PROVE  PlaceBefore(p, r)
<1>0. \A s \in Path : /\ Len(s) \in Nat
                      /\ \A k \in Nat : k < Len(s) => Order[s[k + 1]] \in Nat
    BY OrderAssumption DEF Path
<1>1. PICK i \in 0..Len(p) :
          /\ i <= Len(q) /\ \A m \in 1..i : p[m] = q[m]
          /\ \/ i = Len(p) /\ i < Len(q)
             \/ i < Len(p) /\ i < Len(q) /\ Order[p[i + 1]] < Order[q[i + 1]]
    BY BeforeBySteps
<1>2. PICK j \in 0..Len(q) :
          /\ j <= Len(r) /\ \A m \in 1..j : q[m] = r[m]
          /\ \/ j = Len(q) /\ j < Len(r)
             \/ j < Len(q) /\ j < Len(r) /\ Order[q[j + 1]] < Order[r[j + 1]]
    BY BeforeBySteps
<1>3. CASE i < j
  <2>1. \A m \in 1..i : p[m] = r[m]
      BY <1>0, <1>1, <1>2, <1>3
  <2>2. q[i + 1] = r[i + 1] /\ i < Len(r)
      BY <1>0, <1>1, <1>2, <1>3
  <2>. QED
      BY <1>0, <1>1, <2>1, <2>2, BeforeBySteps
<1>4. CASE j < i
  <2>1. \A m \in 1..j : p[m] = r[m]
      BY <1>0, <1>1, <1>2, <1>4
  <2>2. p[j + 1] = q[j + 1] /\ j < Len(p) /\ j < Len(q)
      BY <1>0, <1>1, <1>2, <1>4
  <2>3. j < Len(r) /\ Order[p[j + 1]] < Order[r[j + 1]]
      BY <1>0, <1>1, <1>2, <1>4, <2>2
  <2>4. j \in 0..Len(p)
      BY <1>0, <2>2
  <2>. QED
      BY <1>2, <2>1, <2>2, <2>3, <2>4, BeforeBySteps
<1>5. CASE i = j
  <2>1. \A m \in 1..i : p[m] = r[m]
      BY <1>0, <1>1, <1>2, <1>5
  <2>2. i < Len(q) /\ i < Len(r)
      BY <1>0, <1>1, <1>2, <1>5
  <2>3. i < Len(p) => Order[p[i + 1]] < Order[r[i + 1]]
      BY <1>0, <1>1, <1>2, <1>5, <2>2
  <2>. QED
      BY <1>0, <1>1, <2>1, <2>2, <2>3, BeforeBySteps
<1>. QED
    BY <1>0, <1>1, <1>2, <1>3, <1>4, <1>5

LEMMA BeforeIsTotal ==
    ASSUME NEW p \in Path, NEW q \in Path, p # q
    PROVE  PlaceBefore(p, q) \/ PlaceBefore(q, p)
<1>0. \A s \in Path : /\ Len(s) \in Nat
                      /\ \A k \in Nat : k < Len(s) => s[k + 1] \in DOMAIN Order
    BY DEF Path
<1>. DEFINE Agree == {k \in 0..Len(p) : k <= Len(q) /\ \A i \in 1..k : p[i] = q[i]}
<1>1. PICK k \in Agree : k + 1 \notin Agree
  <2>1. 0 \in Agree
      BY <1>0
  <2>2. Len(p) + 1 \notin Agree
      BY <1>0
  <2>3. (\A k \in 1..(Len(p) + 1) : k - 1 \in Agree => k \in Agree) => 0..(Len(p) + 1) \subseteq Agree
    <3>1. Len(p) + 1 \in Nat
        BY <1>0
    <3>. HIDE DEF Agree
    <3>. QED
        BY <2>1, <3>1, AllCounted
  <2>4. PICK m \in 1..(Len(p) + 1) : m - 1 \in Agree /\ m \notin Agree
    <3>. HIDE DEF Agree
    <3>. QED
        BY <2>2, <2>3, <1>0
  <2>5. (m - 1) + 1 = m
      BY <1>0
  <2>. HIDE DEF Agree
  <2>. QED
      BY <2>4, <2>5
<1>2. /\ k \in 0..Len(p) /\ k <= Len(q) /\ \A i \in 1..k : p[i] = q[i]
      /\ k < Len(p) /\ k < Len(q) => p[k + 1] # q[k + 1]
    BY <1>0, <1>1
<1>3. CASE k = Len(p) /\ k = Len(q)
  <2>1. \A i \in 1..Len(p) : p[i] = q[i]
      BY <1>2, <1>3
  <2>2. p = [i \in 1..Len(p) |-> p[i]] /\ q = [i \in 1..Len(q) |-> q[i]]
      BY DEF Path
  <2>. QED
      BY <2>1, <2>2, <1>3
<1>4. CASE k = Len(p) /\ k < Len(q)
    BY <1>0, <1>2, <1>4, BeforeBySteps
<1>5. CASE k = Len(q) /\ k < Len(p)
  <2>1. \A i \in 1..k : q[i] = p[i]
      BY <1>2
  <2>. QED
      BY <1>0, <1>2, <1>5, <2>1, BeforeBySteps
<1>6. CASE k < Len(p) /\ k < Len(q)
  <2>1. Order[p[k + 1]] < Order[q[k + 1]] \/ Order[q[k + 1]] < Order[p[k + 1]]
      BY <1>0, <1>2, <1>6, OrderAssumption
  <2>2. \A i \in 1..k : q[i] = p[i]
      BY <1>2
  <2>. QED
      BY <1>0, <1>2, <1>6, <2>1, <2>2, BeforeBySteps
<1>. QED
    BY <1>0, <1>2, <1>3, <1>4, <1>5, <1>6

-----------------------------------------------------------------------------
(***************************************************************************)
(* Whole graphs, and what keeps them whole.                                *)
(***************************************************************************)
Sources == {"registry", "git", "path", "url"}

\* A node's identity and its attributes.
Sound(id, a) == id.src \in Sources /\ "count" \in DOMAIN a /\ a.count \in Nat

Joins(at, e) == e[1] \in DOMAIN at /\ e[2] \in DOMAIN at

Whole(g) ==
    /\ g = Graph(g.at, g.edges, g.roots)
    /\ IsFiniteSet(g.roots) /\ g.roots \subseteq DOMAIN g.at /\ (g.roots = {} => DOMAIN g.at = {})
    /\ \A e \in g.edges : Joins(g.at, e) \/ (e[1] \in DOMAIN g.at /\ Dangles(e))
    /\ \A id \in DOMAIN g.at : Sound(id, g.at[id])

\* The same where all edges join nodes.
Firm(g) == Whole(g) /\ \A e \in g.edges : Joins(g.at, e)

LEMMA FiniteValues ==
    ASSUME NEW f, IsFiniteSet(DOMAIN f)
    PROVE  IsFiniteSet({f[x] : x \in DOMAIN f})
<1>. DEFINE T == {f[x] : x \in DOMAIN f}
            h == [x \in DOMAIN f |-> f[x]]
<1>1. h \in Surjection(DOMAIN f, T)
    BY DEF Surjection
<1>. HIDE DEF h
<1>. QED
    BY <1>1, FS_Surjection

LEMMA FiniteUnion ==
    ASSUME NEW f, IsFiniteSet(DOMAIN f), \A x \in DOMAIN f : IsFiniteSet(f[x])
    PROVE  IsFiniteSet(UNION {f[x] : x \in DOMAIN f})
<1>. DEFINE T == {f[x] : x \in DOMAIN f}
<1>1. IsFiniteSet(T) /\ \A U \in T : IsFiniteSet(U)
    BY FiniteValues
<1>2. IsFiniteSet(UNION T)
  <2>. HIDE DEF T
  <2>. QED
      BY <1>1, FS_UNION
<1>. QED
    BY <1>2

LEMMA Parts ==
    ASSUME NEW at, NEW edges, NEW roots
    PROVE  LET g == Graph(at, edges, roots) IN g.at = at /\ g.edges = edges /\ g.roots = roots
BY DEF Graph

LEMMA Whole0 == Whole(NoGraph)
<1>1. NoGraph.at = <<>> /\ NoGraph.edges = {} /\ NoGraph.roots = {}
    BY DEF NoGraph, Graph
<1>2. DOMAIN <<>> = {}
    OBVIOUS
<1>3. NoGraph = Graph(NoGraph.at, NoGraph.edges, NoGraph.roots)
    BY <1>1 DEF NoGraph
<1>. QED
    BY <1>1, <1>2, <1>3, FS_EmptySet DEF Whole

\* What is built from roots, and edges between nodes, is whole.
LEMMA BuiltFirm ==
    ASSUME NEW at, NEW edges, NEW roots,
           IsFiniteSet(roots), roots \subseteq DOMAIN at, roots = {} => DOMAIN at = {},
           \A e \in edges : Joins(at, e),
           \A id \in DOMAIN at : Sound(id, at[id])
    PROVE  Firm(Graph(at, edges, roots))
BY Parts DEF Whole, Firm

\* A root with the nodes that a file gives, whichever of the two is heard first.
LEMMA RootedFirm ==
    ASSUME NEW root, NEW a, Sound(root, a), NEW nodes, \A id \in DOMAIN nodes : Sound(id, nodes[id]),
           NEW edges, \A e \in edges : {e[1], e[2]} \subseteq {root} \cup DOMAIN nodes
    PROVE  /\ Firm(Graph(Over(Only(root, a), nodes), edges, {root}))
           /\ Firm(Graph(Over(nodes, Only(root, a)), edges, {root}))
<1>1. IsFiniteSet({root})
    BY FS_Singleton
<1>2. ASSUME NEW at, DOMAIN at = {root} \cup DOMAIN nodes, at[root] \in {a, nodes[root]},
             at[root] = a \/ root \in DOMAIN nodes,
             \A x \in DOMAIN nodes \ {root} : at[x] = nodes[x]
      PROVE  Firm(Graph(at, edges, {root}))
  <2>1. \A id \in DOMAIN at : Sound(id, at[id])
      BY <1>2
  <2>2. \A e \in edges : Joins(at, e)
      BY <1>2 DEF Joins
  <2>. QED
      BY <1>1, <1>2, <2>1, <2>2, BuiltFirm
<1>3. Firm(Graph(Over(Only(root, a), nodes), edges, {root}))
  <2>. DEFINE at == Over(Only(root, a), nodes)
  <2>1. DOMAIN at = {root} \cup DOMAIN nodes /\ at[root] = a /\ \A x \in DOMAIN nodes \ {root} : at[x] = nodes[x]
      BY DEF Over, Only
  <2>. HIDE DEF at
  <2>2. Firm(Graph(at, edges, {root}))
      BY <1>2, <2>1
  <2>. QED
      BY <2>2 DEF at
<1>4. Firm(Graph(Over(nodes, Only(root, a)), edges, {root}))
  <2>. DEFINE at == Over(nodes, Only(root, a))
  <2>1. /\ DOMAIN at = {root} \cup DOMAIN nodes
        /\ \A x \in DOMAIN nodes : at[x] = nodes[x]
        /\ root \notin DOMAIN nodes => at[root] = a
      BY DEF Over, Only
  <2>. HIDE DEF at
  <2>2. Firm(Graph(at, edges, {root}))
      BY <1>2, <2>1
  <2>. QED
      BY <2>2 DEF at
<1>. QED
    BY <1>3, <1>4

LEMMA RootedAt ==
    ASSUME NEW root, NEW a, NEW nodes, NEW edges
    PROVE  /\ root \in DOMAIN Graph(Over(Only(root, a), nodes), edges, {root}).at
           /\ root \in DOMAIN Graph(Over(nodes, Only(root, a)), edges, {root}).at
<1>1. root \in DOMAIN Over(Only(root, a), nodes) /\ root \in DOMAIN Over(nodes, Only(root, a))
    BY DEF Over, Only
<1>. QED
    BY <1>1, Parts

LEMMA RootNodes ==
    ASSUME NEW root, NEW a, NEW nodes, NEW edges, NEW roots
    PROVE  /\ DOMAIN Graph(Over(Only(root, a), nodes), edges, roots).at = {root} \cup DOMAIN nodes
           /\ DOMAIN Graph(Over(nodes, Only(root, a)), edges, roots).at = {root} \cup DOMAIN nodes
BY DEF Graph, Over, Only

LEMMA AttachedNodes ==
    ASSUME NEW g, NEW root
    PROVE  /\ DOMAIN AttachUnrooted(g, root).at = DOMAIN g.at
           /\ \A among : DOMAIN AttachUnneeded(g, root, among).at = DOMAIN g.at
           /\ DOMAIN RootAll(g, root).at = DOMAIN g.at
<1>1. ASSUME NEW h PROVE DOMAIN AttachUnrooted(h, root).at = DOMAIN h.at
    BY DEF AttachUnrooted, Graph
<1>2. ASSUME NEW among PROVE DOMAIN AttachUnneeded(g, root, among).at = DOMAIN g.at
    BY DEF AttachUnneeded, Graph
<1>3. DOMAIN RootAll(g, root).at = DOMAIN g.at
  <2>. DEFINE top == DOMAIN g.at \ ({root} \cup {e[2] : e \in g.edges})
              own == IF top = {} THEN DOMAIN g.at \ {root} ELSE top
              h == Graph([id \in DOMAIN g.at |-> IF id \in own THEN [g.at[id] EXCEPT !.direct = TRUE] ELSE g.at[id]],
                         g.edges \cup {<<root, id>> : id \in own}, {root})
  <2>1. RootAll(g, root) = AttachUnrooted(h, root)
      BY DEF RootAll
  <2>2. DOMAIN h.at = DOMAIN g.at
      BY DEF Graph
  <2>. HIDE DEF h
  <2>. QED
      BY <1>1, <2>1, <2>2
<1>. QED
    BY <1>1, <1>2, <1>3

\* Finitely many nodes, none of which passes for a note of what was not read.
Notes == {"unscanned", "coverage-note"}

Tame(g) == IsFiniteSet(DOMAIN g.at) /\ \A id \in DOMAIN g.at : id.eco \notin Notes

\* A root and the identities ids[x].
LEMMA NodesTame ==
    ASSUME NEW g, NEW root, root.eco \notin Notes,
           NEW ids, IsFiniteSet(DOMAIN ids), \A x \in DOMAIN ids : ids[x].eco \notin Notes,
           DOMAIN g.at \subseteq {root} \cup {ids[x] : x \in DOMAIN ids}
    PROVE  Tame(g)
<1>. DEFINE S == {root} \cup {ids[x] : x \in DOMAIN ids}
<1>1. IsFiniteSet(S)
  <2>1. IsFiniteSet({ids[x] : x \in DOMAIN ids})
      BY FiniteValues
  <2>2. IsFiniteSet({root})
      BY FS_Singleton
  <2>. QED
      BY <2>1, <2>2, FS_Union
<1>2. \A id \in S : id.eco \notin Notes
    OBVIOUS
<1>. HIDE DEF S
<1>3. IsFiniteSet(DOMAIN g.at)
    BY <1>1, FS_Subset DEF S
<1>. QED
    BY <1>2, <1>3 DEF Tame, S

LEMMA RenamedTame ==
    ASSUME NEW g, Tame(g), NEW new, \A id \in DOMAIN new : new[id].eco \notin Notes
    PROVE  Tame(Rename(g, new))
<1>. DEFINE to == [id \in DOMAIN g.at |-> IF id \in Renamed(g, new) THEN new[id] ELSE id]
<1>1. DOMAIN Rename(g, new).at = {to[id] : id \in DOMAIN to}
    BY DEF Rename, Graph
<1>2. DOMAIN to = DOMAIN g.at /\ \A id \in DOMAIN to : to[id].eco \notin Notes
    BY DEF Renamed, Tame
<1>. HIDE DEF to
<1>. QED
    BY <1>1, <1>2, FiniteValues DEF Tame

LEMMA AloneFirm == ASSUME NEW root, NEW a, Sound(root, a) PROVE Firm(Graph(Only(root, a), {}, {root}))
<1>. DEFINE at == Only(root, a)
<1>1. DOMAIN at = {root} /\ at[root] = a
    BY DEF Only
<1>. HIDE DEF at
<1>2. Firm(Graph(at, {}, {root}))
  <2>. DEFINE roots == {root}
              edges == {}
  <2>1. /\ IsFiniteSet(roots) /\ roots \subseteq DOMAIN at /\ roots # {}
        /\ \A e \in edges : Joins(at, e)
        /\ \A id \in DOMAIN at : Sound(id, at[id])
      BY <1>1, FS_Singleton
  <2>. HIDE DEF roots, edges
  <2>2. Firm(Graph(at, edges, roots))
      BY <2>1, BuiltFirm
  <2>. QED
      BY <2>2 DEF roots, edges
<1>. QED
    BY <1>2 DEF at

LEMMA MergedWhole ==
    ASSUME NEW g, NEW h, Whole(g), Whole(h)
    PROVE  Whole(Merge(g, h))
<1>. DEFINE at == Over(g.at, h.at)
            edges == g.edges \cup h.edges
            roots == g.roots \cup h.roots
<1>1. DOMAIN at = DOMAIN g.at \cup DOMAIN h.at
    BY DEF Over
<1>2. \A id \in DOMAIN at : Sound(id, at[id])
  <2>1. /\ \A id \in DOMAIN g.at : Sound(id, g.at[id])
        /\ \A id \in DOMAIN h.at : Sound(id, h.at[id])
      BY DEF Whole
  <2>2. \A id \in DOMAIN at : (id \in DOMAIN g.at /\ at[id] = g.at[id]) \/ (id \in DOMAIN h.at /\ at[id] = h.at[id])
      BY DEF Over
  <2>. HIDE DEF at
  <2>. QED
      BY <1>1, <2>1, <2>2
<1>3. \A e \in edges : Joins(at, e) \/ (e[1] \in DOMAIN at /\ Dangles(e))
    BY <1>1 DEF Whole, Joins
<1>4. IsFiniteSet(roots) /\ roots \subseteq DOMAIN at /\ (roots = {} => DOMAIN at = {})
    BY <1>1, FS_Union DEF Whole
<1>5. Merge(g, h) = Graph(at, edges, roots)
    BY DEF Merge
<1>. HIDE DEF at, edges, roots
<1>. QED
    BY <1>2, <1>3, <1>4, <1>5, Parts DEF Whole

LEMMA AttachedFirm ==
    ASSUME NEW g, Firm(g), NEW root \in DOMAIN g.at
    PROVE  /\ Firm(AttachUnrooted(g, root))
           /\ \A among \in SUBSET DOMAIN g.at : Firm(AttachUnneeded(g, root, among))
<1>1. Firm(AttachUnrooted(g, root))
  <2>. DEFINE lost == DOMAIN g.at \ Reach(g, {root})
              first == {m \in lost : \A k \in lost : Before(k, m) => m \notin Reach(g, {k})}
              new == {<<root, n>> : n \in first}
  <2>1. AttachUnrooted(g, root) = Graph(g.at, g.edges \cup new, g.roots)
      BY DEF AttachUnrooted
  <2>2. \A e \in new : Joins(g.at, e)
      BY DEF Joins
  <2>. HIDE DEF new
  <2>3. /\ IsFiniteSet(g.roots) /\ g.roots \subseteq DOMAIN g.at /\ (g.roots = {} => DOMAIN g.at = {})
        /\ \A e \in g.edges \cup new : Joins(g.at, e)
        /\ \A id \in DOMAIN g.at : Sound(id, g.at[id])
      BY <2>2 DEF Whole, Firm
  <2>. QED
      BY <2>1, <2>3, BuiltFirm
<1>2. ASSUME NEW among \in SUBSET DOMAIN g.at PROVE Firm(AttachUnneeded(g, root, among))
  <2>. DEFINE top == among \ ({root} \cup {e[2] : e \in g.edges})
              at == [id \in DOMAIN g.at |-> IF id \in top THEN [g.at[id] EXCEPT !.direct = TRUE] ELSE g.at[id]]
              new == {<<root, n>> : n \in top}
  <2>1. AttachUnneeded(g, root, among) = Graph(at, g.edges \cup new, g.roots)
      BY DEF AttachUnneeded
  <2>2. DOMAIN at = DOMAIN g.at /\ \A id \in DOMAIN g.at : Sound(id, at[id])
    <3>1. \A id \in DOMAIN g.at : Sound(id, g.at[id])
        BY DEF Whole, Firm
    <3>2. ASSUME NEW a, "count" \in DOMAIN a
          PROVE  [a EXCEPT !.direct = TRUE].count = a.count /\ "count" \in DOMAIN [a EXCEPT !.direct = TRUE]
        BY <3>2
    <3>. QED
        BY <3>1, <3>2 DEF Sound
  <2>3. \A e \in g.edges \cup new : Joins(at, e)
      BY <2>2 DEF Firm, Joins
  <2>. HIDE DEF at, new
  <2>4. IsFiniteSet(g.roots) /\ g.roots \subseteq DOMAIN at /\ (g.roots = {} => DOMAIN at = {})
      BY <2>2 DEF Whole, Firm
  <2>. QED
      BY <2>1, <2>2, <2>3, <2>4, BuiltFirm
<1>. QED
    BY <1>1, <1>2

LEMMA RootAllFirm ==
    ASSUME NEW g, Firm(g), NEW root \in DOMAIN g.at
    PROVE  Firm(RootAll(g, root)) /\ root \in DOMAIN RootAll(g, root).at
<1>. DEFINE top == DOMAIN g.at \ ({root} \cup {e[2] : e \in g.edges})
            own == IF top = {} THEN DOMAIN g.at \ {root} ELSE top
            at == [id \in DOMAIN g.at |-> IF id \in own THEN [g.at[id] EXCEPT !.direct = TRUE] ELSE g.at[id]]
            edges == g.edges \cup {<<root, id>> : id \in own}
            h == Graph(at, edges, {root})
<1>1. RootAll(g, root) = AttachUnrooted(h, root)
    BY DEF RootAll
<1>2. DOMAIN at = DOMAIN g.at /\ \A id \in DOMAIN g.at : Sound(id, at[id])
  <2>1. \A id \in DOMAIN g.at : Sound(id, g.at[id])
      BY DEF Whole, Firm
  <2>2. ASSUME NEW a, "count" \in DOMAIN a
        PROVE  [a EXCEPT !.direct = TRUE].count = a.count /\ "count" \in DOMAIN [a EXCEPT !.direct = TRUE]
      BY <2>2
  <2>. QED
      BY <2>1, <2>2 DEF Sound
<1>3. \A e \in edges : Joins(at, e)
  <2>1. own \subseteq DOMAIN g.at
      OBVIOUS
  <2>. QED
      BY <1>2, <2>1 DEF Firm, Joins
<1>4. IsFiniteSet({root})
    BY FS_Singleton
<1>5. Firm(h) /\ h.at = at
  <2>. HIDE DEF at, edges
  <2>. QED
      BY <1>2, <1>3, <1>4, BuiltFirm, Parts
<1>. HIDE DEF h, at
<1>6. DOMAIN AttachUnrooted(h, root).at = DOMAIN h.at
    BY DEF AttachUnrooted, Graph
<1>. QED
    BY <1>1, <1>2, <1>5, <1>6, AttachedFirm

LEMMA RenamedFirm ==
    ASSUME NEW g, Firm(g), NEW new, \A id \in DOMAIN new : new[id].src \in Sources
    PROVE  Firm(Rename(g, new))
<1>. DEFINE to(id) == IF id \in Renamed(g, new) THEN new[id] ELSE id
            at == [id \in {to(i) : i \in DOMAIN g.at} |-> g.at[CHOOSE i \in DOMAIN g.at : to(i) = id]]
            edges == {<<to(e[1]), to(e[2])>> : e \in g.edges}
            roots == {to(i) : i \in g.roots}
<1>1. Rename(g, new) = Graph(at, edges, roots)
    BY DEF Rename
<1>2. roots \subseteq DOMAIN at /\ (roots = {} => DOMAIN at = {})
    BY DEF Firm, Whole
<1>3. \A e \in edges : Joins(at, e)
    BY DEF Firm, Joins
<1>4. ASSUME NEW id \in DOMAIN at PROVE Sound(id, at[id])
  <2>1. PICK i \in DOMAIN g.at : to(i) = id
      OBVIOUS
  <2>2. PICK j \in DOMAIN g.at : at[id] = g.at[j]
      BY <2>1
  <2>3. id.src \in Sources
      BY <2>1 DEF Firm, Whole, Sound, Renamed
  <2>. QED
      BY <2>2, <2>3 DEF Firm, Whole, Sound
<1>5. IsFiniteSet(roots)
  <2>1. IsFiniteSet(g.roots)
      BY DEF Firm, Whole
  <2>2. roots = {[i \in g.roots |-> to(i)][x] : x \in DOMAIN [i \in g.roots |-> to(i)]}
      OBVIOUS
  <2>3. IsFiniteSet({[i \in g.roots |-> to(i)][x] : x \in DOMAIN [i \in g.roots |-> to(i)]})
    <3>. DEFINE f == [i \in g.roots |-> to(i)]
    <3>1. DOMAIN f = g.roots
        OBVIOUS
    <3>. HIDE DEF f
    <3>2. IsFiniteSet({f[x] : x \in DOMAIN f})
        BY <2>1, <3>1, FiniteValues
    <3>. QED
        BY <3>2 DEF f
  <2>. QED
      BY <2>2, <2>3
<1>. HIDE DEF at, edges, roots
<1>. QED
    BY <1>1, <1>2, <1>3, <1>4, <1>5, BuiltFirm

-----------------------------------------------------------------------------
(***************************************************************************)
(* Identities, attributes and bounded numbers.                             *)
(***************************************************************************)
Classes == {"none", "registry", "unknown", "git", "path", "url"}

LEMMA KnownClasses ==
    ASSUME NEW ref
    PROVE  /\ ClassifyRef(ref) \in Classes /\ ClassifyResolved(ref) \in Classes
           /\ \A absent \in Classes : ClassOr(ref, absent) \in Classes
<1>1. ClassifyRef(ref) \in Classes
  <2>1. CASE ref \in {"git", "path"}
      BY <2>1 DEF ClassifyRef, Classes
  <2>2. CASE ref = "http"
      BY <2>2 DEF ClassifyRef, Classes
  <2>3. CASE ref \notin {"git", "path", "http"}
      BY <2>3 DEF ClassifyRef, Classes
  <2>. QED
      BY <2>1, <2>2, <2>3
<1>2. CASE ref \in {Empty, "http", "registry"}
    BY <1>1, <1>2 DEF ClassifyResolved, ClassOr, Classes
<1>3. CASE ref \notin {Empty, "http", "registry"}
    BY <1>1, <1>3 DEF ClassifyResolved, ClassOr, Classes
<1>. QED
    BY <1>1, <1>2, <1>3

LEMMA IdParts ==
    ASSUME NEW eco, NEW name, NEW ver, NEW class
    PROVE  LET id == Id(eco, name, ver, class)
           IN  /\ id.eco = eco /\ id.name = name /\ id.ver = ver
               /\ class \in Classes => id.src \in Sources
BY DEF Id, Qualifier, Classes, Sources

\* Whatever else a node's attributes say, its count is none or that of its names.
LEMMA PlainSound ==
    ASSUME NEW id, id.src \in Sources, NEW d, NEW c, NEW o, NEW f, NEW n \in Nat
    PROVE  /\ Sound(id, Plain)
           /\ Sound(id, [Plain EXCEPT !.direct = d])
           /\ Sound(id, [Plain EXCEPT !.class = c])
           /\ Sound(id, [Plain EXCEPT !.open = o])
           /\ Sound(id, [Plain EXCEPT !.flat = f])
           /\ Sound(id, [Plain EXCEPT !.direct = d, !.class = c])
           /\ Sound(id, [Plain EXCEPT !.open = o, !.count = n, !.flat = f])
           /\ Sound(id, [Plain EXCEPT !.flat = f, !.count = n, !.open = o])
BY DEF Plain, Sound

LEMMA PlainCount == Plain.count \in Nat /\ "count" \in DOMAIN Plain
BY DEF Plain

LEMMA LeavesCount ==
    ASSUME NEW names, IsFiniteSet(names)
    PROVE  Leaves(names).count \in Nat /\ "count" \in DOMAIN Leaves(names)
<1>1. Cardinality(names) \in Nat
    BY FS_CardinalityType
<1>. QED
    BY <1>1 DEF Leaves, Plain

LEMMA LeastIn ==
    ASSUME NEW S, S \subseteq Nat, S # {}
    PROVE  Min(S) \in S /\ \A x \in S : Min(S) <= x
<1>. DEFINE Below == {ss \in Nat \X Nat : ss[1] < ss[2]}
<1>1. IsWellFoundedOn(Below, Nat)
    BY NatLessThanWellFounded DEF OpToRel
<1>2. PICK k \in S : \A j \in S : <<j, k>> \notin Below
  <2>. HIDE DEF Below
  <2>. QED
      BY <1>1, WFMin
<1>3. \A j \in S : k <= j
  <2>1. ASSUME NEW j \in S PROVE ~(j < k)
      BY <1>2
  <2>. QED
      BY <2>1
<1>. QED
    BY <1>3 DEF Min

LEMMA GreatestIn ==
    ASSUME NEW n \in Nat, NEW S, S \subseteq 0..n, S # {}
    PROVE  Max(S) \in S /\ \A x \in S : x <= Max(S)
<1>. DEFINE T == {n - x : x \in S}
<1>1. T \subseteq Nat /\ T # {}
  <2>1. \A x \in S : n - x \in Nat
      OBVIOUS
  <2>. QED
      BY <2>1
<1>2. Min(T) \in T /\ \A y \in T : Min(T) <= y
  <2>. HIDE DEF T
  <2>. QED
      BY <1>1, LeastIn
<1>3. PICK k \in S : Min(T) = n - k
    BY <1>2
<1>4. \A x \in S : x <= k
  <2>1. \A x \in S : Min(T) <= n - x
      BY <1>2
  <2>. QED
      BY <1>3, <2>1
<1>5. \E k1 \in S : \A x \in S : k1 >= x
    BY <1>4
<1>6. Max(S) \in S /\ \A x \in S : Max(S) >= x
    BY <1>5, Zenon DEF Max
<1>. QED
    BY <1>6

-----------------------------------------------------------------------------
(***************************************************************************)
(* npm.                                                                    *)
(***************************************************************************)
LEMMA NpmIds ==
    ASSUME NEW doc, NEW name, NEW ver, NEW ref
    PROVE  /\ NpmRoot(doc).src \in Sources /\ NpmRoot(doc).eco = "npm"
           /\ NpmId(name, ver, ClassifyResolved(ref)).src \in Sources
           /\ \A class \in Classes : NpmId(name, ver, class).src \in Sources
BY KnownClasses, IdParts DEF NpmRoot, NpmId, Classes

LEMMA NearestIn ==
    ASSUME NEW at, NEW place \in Path, NEW name, Nearest(at, place, name) # <<>>
    PROVE  Nearest(at, place, name) \in DOMAIN at
<1>. DEFINE above == {k \in 0..Len(place) : Append(Leading(place, k), name) \in DOMAIN at}
<1>1. above # {} /\ Nearest(at, place, name) = Append(Leading(place, Max(above)), name)
    BY DEF Nearest
<1>2. Len(place) \in Nat /\ above \subseteq 0..Len(place)
    BY DEF Path
<1>3. Max(above) \in above
  <2>. HIDE DEF above
  <2>. QED
      BY <1>1, <1>2, GreatestIn
<1>. QED
    BY <1>1, <1>3

LEMMA PackagesWhole ==
    ASSUME NEW doc, DOMAIN doc.at \subseteq Path
    PROVE  Whole(ReadPackages(doc))
<1>. DEFINE root    == NpmRoot(doc)
            kept    == {p \in DOMAIN doc.at : EntryName(doc, p) # Empty /\ doc.at[p].ver # NoVersion}
            ids     == {EntryId(doc, p) : p \in kept}
            classes(id) == {ClassifyResolved(doc.at[p].ref) : p \in {q \in kept : EntryId(doc, q) = id}}
            direct  == doc.deps \cup doc.dev \cup doc.optional
            links(from, p, names) ==
                {<<from, EntryId(doc, Hoisted(doc, p, n))>> : n \in {m \in names : Hoisted(doc, p, m) # <<>>}}
            nodes == [id \in ids |-> [Plain EXCEPT !.direct = id.name \in direct, !.class = CHOOSE c \in classes(id) : TRUE]]
            at == Over(Only(root, Plain), nodes)
            edges == links(root, <<>>, direct \cup doc.peer)
                        \cup UNION {links(EntryId(doc, p), p, doc.at[p].needs) : p \in kept}
<1>1. ReadPackages(doc) = Graph(at, edges, {root})
    BY DEF ReadPackages
<1>2. \A id \in DOMAIN nodes : Sound(id, nodes[id])
  <2>1. \A p \in kept : EntryId(doc, p).src \in Sources
      BY NpmIds DEF EntryId
  <2>2. \A id \in ids : id.src \in Sources
      BY <2>1
  <2>. HIDE DEF ids, direct
  <2>. QED
      BY <2>2 DEF Plain, Sound
<1>3. Sound(root, Plain)
    BY NpmIds, PlainSound
<1>4. \A p \in Path : \A n : Hoisted(doc, p, n) # <<>> =>
          LET q == Hoisted(doc, p, n) IN
          EntryId(doc, q) \in ids \/ EntryId(doc, q).name = Empty \/ EntryId(doc, q).ver = NoVersion
    BY NearestIn, IdParts DEF Hoisted, EntryId, NpmId
<1>5. \A q : EntryId(doc, q).eco = "npm"
    BY IdParts DEF EntryId, NpmId
<1>6. \A e \in edges : /\ e[1] \in {root} \cup ids
                       /\ e[2] \in ids \/ Dangles(e)
  <2>1. \A from, p, names : \A e \in links(from, p, names) : from.eco = "npm" /\ p \in Path =>
            e[1] = from /\ (e[2] \in ids \/ Dangles(e))
    <3>. HIDE DEF ids
    <3>. QED
        BY <1>4, <1>5 DEF Dangles
  <2>2. \A e \in edges : e \in links(root, <<>>, direct \cup doc.peer)
                         \/ \E p \in kept : e \in links(EntryId(doc, p), p, doc.at[p].needs)
    <3>. HIDE DEF links
    <3>. QED
        OBVIOUS
  <2>3. <<>> \in Path /\ root.eco = "npm" /\ kept \subseteq Path
      BY NpmIds DEF Path
  <2>. HIDE DEF links, root, direct, edges
  <2>. QED
      BY <1>5, <2>1, <2>2, <2>3
<1>8. IsFiniteSet({root})
    BY FS_Singleton
<1>9. DOMAIN nodes = ids
    OBVIOUS
<1>. HIDE DEF nodes, edges, ids, root
<1>7. /\ DOMAIN at = {root} \cup ids /\ at[root] = Plain
      /\ \A x \in ids \ {root} : at[x] = nodes[x]
    BY <1>9 DEF Over, Only
<1>. HIDE DEF at
<1>10. /\ Graph(at, edges, {root}).at = at /\ Graph(at, edges, {root}).edges = edges
       /\ Graph(at, edges, {root}).roots = {root}
    BY Parts
<1>11. \A id \in DOMAIN at : Sound(id, at[id])
    BY <1>2, <1>3, <1>7, <1>9
<1>12. \A e \in edges : Joins(at, e) \/ (e[1] \in DOMAIN at /\ Dangles(e))
    BY <1>6, <1>7 DEF Joins
<1>. QED
    BY <1>1, <1>7, <1>8, <1>10, <1>11, <1>12 DEF Whole

LEMMA PathsBelow ==
    ASSUME NEW p \in Path, NEW k \in 0..Len(p)
    PROVE  /\ Leading(p, k) \in Path /\ Len(Leading(p, k)) = k
           /\ \A j \in 0..k : Leading(Leading(p, k), j) = Leading(p, j)
           /\ \A n : Append(Leading(p, k), n) \in Path =>
                  LET q == Append(Leading(p, k), n)
                  IN  Len(q) = k + 1 /\ Leading(q, k + 1) = q /\ \A j \in 0..k : Leading(q, j) = Leading(p, j)
<1>0. \A s \in Path : s \in Seq(DOMAIN Order) /\ Len(s) \in Nat /\ s = [i \in 1..Len(s) |-> s[i]]
    BY DEF Path
<1>1. \A s \in Path, j \in Nat : j <= Len(s) => Leading(s, j) = [i \in 1..j |-> s[i]]
    BY DEF Leading, Path
<1>2. Leading(p, k) \in Path /\ Len(Leading(p, k)) = k
    BY DEF Leading, Path
<1>3. \A j \in 0..k : Leading(Leading(p, k), j) = Leading(p, j)
  <2>. SUFFICES ASSUME NEW j \in 0..k PROVE Leading(Leading(p, k), j) = Leading(p, j)
      OBVIOUS
  <2>1. Leading(p, j) = [i \in 1..j |-> p[i]] /\ Leading(p, k) = [i \in 1..k |-> p[i]]
      BY <1>0, <1>1
  <2>2. Leading(Leading(p, k), j) = [i \in 1..j |-> Leading(p, k)[i]]
      BY <1>1, <1>2
  <2>3. \A i \in 1..j : Leading(p, k)[i] = p[i]
      BY <2>1
  <2>. QED
      BY <2>1, <2>2, <2>3
<1>4. ASSUME NEW n, Append(Leading(p, k), n) \in Path
      PROVE  LET q == Append(Leading(p, k), n)
             IN  Len(q) = k + 1 /\ Leading(q, k + 1) = q /\ \A j \in 0..k : Leading(q, j) = Leading(p, j)
  <2>1. SUFFICES ASSUME NEW q \in Path, q = Append(Leading(p, k), n)
                 PROVE  Len(q) = k + 1 /\ Leading(q, k + 1) = q /\ \A j \in 0..k : Leading(q, j) = Leading(p, j)
      BY <1>4
  <2>2. Len(q) = k + 1 /\ \A i \in 1..k : q[i] = Leading(p, k)[i]
      BY <1>2, <2>1 DEF Path
  <2>3. \A i \in 1..k : q[i] = p[i]
    <3>1. Leading(p, k) = [i \in 1..k |-> p[i]]
        BY <1>0, <1>1
    <3>. QED
        BY <2>2, <3>1
  <2>4. Leading(q, k + 1) = [i \in 1..(k + 1) |-> q[i]] /\ q = [i \in 1..(k + 1) |-> q[i]]
    <3>1. k + 1 \in Nat /\ k + 1 <= Len(q)
        BY <1>0, <2>2
    <3>2. Leading(q, k + 1) = [i \in 1..(k + 1) |-> q[i]]
        BY <1>1, <3>1
    <3>3. q = [i \in 1..Len(q) |-> q[i]]
        BY <1>0
    <3>. QED
        BY <2>2, <3>2, <3>3
  <2>5. \A j \in 0..k : Leading(q, j) = Leading(p, j)
    <3>. SUFFICES ASSUME NEW j \in 0..k PROVE Leading(q, j) = Leading(p, j)
        OBVIOUS
    <3>1. j \in Nat /\ j <= Len(p) /\ j <= Len(q) /\ \A i \in 1..j : i \in 1..k
        BY <1>0, <2>2
    <3>2. Leading(p, j) = [i \in 1..j |-> p[i]] /\ Leading(q, j) = [i \in 1..j |-> q[i]]
        BY <1>1, <3>1
    <3>3. [i \in 1..j |-> p[i]] = [i \in 1..j |-> q[i]]
        BY <2>3, <3>1
    <3>. QED
        BY <3>2, <3>3
  <2>. QED
      BY <2>2, <2>4, <2>5
<1>. QED
    BY <1>2, <1>3, <1>4

LEMMA TreeFirm ==
    ASSUME NEW doc, DOMAIN doc.at \subseteq Path,
           \A p \in DOMAIN doc.at : p # <<>> /\ \A k \in 1..Len(p) : Leading(p, k) \in DOMAIN doc.at
    PROVE  Firm(ReadTree(doc))
<1>. DEFINE root   == NpmRoot(doc)
            walked == {p \in DOMAIN doc.at : \A k \in 1..Len(p) : doc.at[Leading(p, k)].ver # NoVersion}
            idAt(p) == IF p = <<>> THEN root ELSE NpmId(Last(p), doc.at[p].ver, "none")
            first(id) == CHOOSE p \in walked : /\ idAt(p) = id
                                               /\ \A q \in walked : idAt(q) = id => ~PlaceBefore(q, p)
            versioned == [p \in {q \in DOMAIN doc.at : doc.at[q].ver # NoVersion} |-> doc.at[p]]
            required(p) == {Nearest(versioned, p, n) : n \in doc.at[p].needs} \ {<<>>}
            ids == {idAt(p) : p \in walked}
            nodes == [id \in ids |-> [Plain EXCEPT !.direct = Len(first(id)) = 1]]
            edges == {<<idAt(Leading(p, Len(p) - 1)), idAt(p)>> : p \in walked}
                        \cup UNION {{<<idAt(p), idAt(q)>> : q \in required(p)} : p \in walked}
<1>1. ReadTree(doc) = Graph(Over(Only(root, Plain), nodes), edges, {root})
    BY DEF ReadTree
<1>2. ASSUME NEW p \in walked
      PROVE  /\ idAt(p) \in ids /\ idAt(p).src \in Sources
             /\ idAt(Leading(p, Len(p) - 1)) \in {root} \cup ids
             /\ \A q \in required(p) : q \in walked
  <2>1. p \in Path /\ p # <<>> /\ Len(p) \in Nat \ {0}
      BY DEF Path
  <2>2. idAt(p).src \in Sources
      BY NpmIds DEF Classes
  <2>3. Leading(p, Len(p) - 1) \in walked \cup {<<>>}
    <3>1. CASE Len(p) = 1
      <4>1. Leading(p, 0) = <<>>
          BY <2>1 DEF Path, Leading
      <4>. QED
          BY <3>1, <4>1
    <3>2. CASE Len(p) > 1
      <4>1. Len(p) - 1 \in 0..Len(p) /\ Len(p) - 1 \in 1..Len(p)
          BY <2>1, <3>2
      <4>2. Leading(p, Len(p) - 1) \in DOMAIN doc.at /\ Len(Leading(p, Len(p) - 1)) = Len(p) - 1
          BY <2>1, <4>1, PathsBelow
      <4>3. \A k \in 1..(Len(p) - 1) : /\ Leading(Leading(p, Len(p) - 1), k) = Leading(p, k)
                                       /\ k \in 1..Len(p)
          BY <2>1, <4>1, PathsBelow
      <4>. QED
          BY <4>2, <4>3
    <3>3. Len(p) = 1 \/ Len(p) > 1
      <4>1. \A m \in Nat \ {0} : m = 1 \/ m > 1
          OBVIOUS
      <4>. HIDE DEF walked
      <4>. QED
          BY <2>1, <4>1
    <3>. QED
        BY <3>1, <3>2, <3>3
  <2>4. ASSUME NEW q \in required(p) PROVE q \in walked
    <3>1. PICK n : q = Nearest(versioned, p, n) /\ q # <<>>
        OBVIOUS
    <3>. DEFINE above == {k \in 0..Len(p) : Append(Leading(p, k), n) \in DOMAIN versioned}
    <3>2. above # {} /\ q = Append(Leading(p, Max(above)), n)
        BY <3>1 DEF Nearest
    <3>3. Max(above) \in above
      <4>1. above \subseteq 0..Len(p)
          OBVIOUS
      <4>. HIDE DEF above
      <4>. QED
          BY <2>1, <3>2, <4>1, GreatestIn
    <3>4. q \in DOMAIN doc.at /\ doc.at[q].ver # NoVersion /\ q \in Path
        BY <3>2, <3>3
    <3>. DEFINE k == Max(above)
    <3>5. k \in 0..Len(p) /\ q = Append(Leading(p, k), n)
        BY <3>2, <3>3
    <3>. HIDE DEF k, above
    <3>6. Len(q) = k + 1 /\ Leading(q, k + 1) = q /\ \A j \in 0..k : Leading(q, j) = Leading(p, j)
        BY <2>1, <3>4, <3>5, PathsBelow
    <3>7. ASSUME NEW j \in 1..Len(q) PROVE doc.at[Leading(q, j)].ver # NoVersion
      <4>1. CASE j = k + 1
          BY <3>4, <3>6, <4>1
      <4>2. CASE j # k + 1
        <5>1. j \in 1..Len(p) /\ j \in 0..k
            BY <2>1, <3>5, <3>6, <4>2
        <5>. QED
            BY <3>6, <5>1
      <4>. QED
          BY <4>1, <4>2
    <3>. QED
        BY <3>4, <3>7
  <2>5. idAt(p) \in ids
      OBVIOUS
  <2>6. idAt(Leading(p, Len(p) - 1)) \in {root} \cup ids
    <3>1. \A q \in walked : idAt(q) \in ids
        OBVIOUS
    <3>2. idAt(<<>>) = root
        OBVIOUS
    <3>. HIDE DEF walked, ids, idAt
    <3>. QED
        BY <2>3, <3>1, <3>2
  <2>. HIDE DEF walked, ids, idAt, required, root
  <2>. QED
      BY <2>2, <2>4, <2>5, <2>6
<1>3. \A e \in edges : {e[1], e[2]} \subseteq {root} \cup ids
  <2>1. ASSUME NEW e \in edges PROVE {e[1], e[2]} \subseteq {root} \cup ids
    <3>1. \/ \E p \in walked : e = <<idAt(Leading(p, Len(p) - 1)), idAt(p)>>
          \/ \E p \in walked : \E q \in required(p) : e = <<idAt(p), idAt(q)>>
      <4>. HIDE DEF walked, idAt, required
      <4>. QED
          OBVIOUS
    <3>2. CASE \E p \in walked : e = <<idAt(Leading(p, Len(p) - 1)), idAt(p)>>
      <4>. HIDE DEF walked, idAt, root, ids, edges
      <4>. QED
          BY <1>2, <3>2
    <3>3. CASE \E p \in walked : \E q \in required(p) : e = <<idAt(p), idAt(q)>>
      <4>. HIDE DEF walked, idAt, root, ids, edges, required
      <4>. QED
          BY <1>2, <3>3
    <3>. QED
        BY <3>1, <3>2, <3>3
  <2>. QED
      BY <2>1
<1>4. Sound(root, Plain)
    BY NpmIds, PlainSound
<1>5. \A id \in DOMAIN nodes : Sound(id, nodes[id])
  <2>1. \A id \in ids : id.src \in Sources
    <3>. HIDE DEF walked, idAt
    <3>. QED
        BY <1>2
  <2>. HIDE DEF ids
  <2>. QED
      BY <2>1 DEF Plain, Sound
<1>6. DOMAIN nodes = ids
    OBVIOUS
<1>. HIDE DEF nodes, edges, ids, root
<1>. QED
    BY <1>1, <1>3, <1>4, <1>5, <1>6, RootedFirm

LEMMA PnpmFirm ==
    ASSUME NEW doc
    PROVE  /\ Firm(ReadPnpm(doc))
           /\ DOMAIN ReadPnpm(doc).at = {NpmRoot(doc)} \cup {NpmId(p[1], p[2], "registry") : p \in doc.packages}
<1>. DEFINE root   == NpmRoot(doc)
            id(p)  == NpmId(p[1], p[2], "registry")
            links  == {<<root, id(d)>> : d \in doc.direct \cap doc.packages}
                        \cup {<<id(s[1]), id(s[2])>> : s \in {t \in doc.snapshots : {t[1], t[2]} \subseteq doc.packages}}
            lost   == {d[1] : d \in doc.direct \ doc.packages}
            ids    == {id(p) : p \in doc.packages}
            a      == [Plain EXCEPT !.open = lost]
            nodes  == [n \in ids |-> [Plain EXCEPT !.direct = <<root, n>> \in links, !.class = "registry"]]
            g      == Graph(Over(Only(root, a), nodes), links, {root})
<1>1. ReadPnpm(doc) = AttachUnrooted(g, root)
    BY DEF ReadPnpm
<1>2. \A e \in links : {e[1], e[2]} \subseteq {root} \cup ids
    OBVIOUS
<1>3. Sound(root, a)
  <2>1. root.src \in Sources
      BY NpmIds
  <2>. HIDE DEF root, lost
  <2>. QED
      BY <2>1 DEF Plain, Sound
<1>4. \A n \in DOMAIN nodes : Sound(n, nodes[n])
  <2>1. \A n \in ids : n.src \in Sources
    <3>1. "registry" \in Classes
        BY DEF Classes
    <3>. QED
        BY <3>1, NpmIds
  <2>. HIDE DEF ids, links
  <2>. QED
      BY <2>1 DEF Plain, Sound
<1>5. DOMAIN nodes = ids
    OBVIOUS
<1>. HIDE DEF nodes, links, ids, root, a
<1>6. Firm(g)
    BY <1>2, <1>3, <1>4, <1>5, RootedFirm
<1>7. DOMAIN g.at = {root} \cup ids
    BY <1>5, RootNodes
<1>. HIDE DEF g
<1>8. Firm(ReadPnpm(doc)) /\ DOMAIN ReadPnpm(doc).at = {root} \cup ids
    BY <1>1, <1>6, <1>7, AttachedFirm, AttachedNodes
<1>. QED
    BY <1>8 DEF root, ids

LEMMA YarnDepsKnown ==
    ASSUME NEW doc, IsList(doc.entries), NEW want
    PROVE  YarnDep(doc, want) \subseteq {YarnId(doc.entries[i]) : i \in YarnEntries(doc)}
<1>. DEFINE stands(i) == \E d \in {doc.entries[i].descriptors[k] : k \in DOMAIN doc.entries[i].descriptors} :
                            \/ d = want
                            \/ d.of # Empty /\ [name |-> d.of, of |-> Empty, range |-> d.range] = want
            matching  == {i \in YarnEntries(doc) : stands(i)}
            named     == {YarnId(doc.entries[i]) : i \in {j \in YarnEntries(doc) : YarnName(doc.entries[j]) = want.name}}
<1>1. YarnDep(doc, want) = IF matching # {} THEN {YarnId(doc.entries[Max(matching)])}
                           ELSE IF Cardinality(named) = 1 THEN named ELSE {}
    BY DEF YarnDep
<1>2. matching # {} => Max(matching) \in matching
  <2>1. Len(doc.entries) \in Nat /\ matching \subseteq 0..Len(doc.entries)
      BY DEF IsList, YarnEntries
  <2>. HIDE DEF matching
  <2>. QED
      BY <2>1, GreatestIn
<1>3. matching \subseteq YarnEntries(doc)
    OBVIOUS
<1>4. named \subseteq {YarnId(doc.entries[i]) : i \in YarnEntries(doc)}
    OBVIOUS
<1>. HIDE DEF matching, named
<1>. QED
    BY <1>1, <1>2, <1>3, <1>4

LEMMA YarnFirm ==
    ASSUME NEW doc, IsList(doc.entries)
    PROVE  /\ Firm(ReadYarn(doc))
           /\ DOMAIN ReadYarn(doc).at = {NpmRoot(doc)} \cup {YarnId(doc.entries[i]) : i \in YarnEntries(doc)}
<1>. DEFINE root   == NpmRoot(doc)
            E      == {doc.entries[i] : i \in YarnEntries(doc)}
            direct == UNION {YarnDep(doc, Unaliased(w)) : w \in doc.wants}
            ids    == {YarnId(e) : e \in E}
            nodes  == [id \in ids |->
                          [Plain EXCEPT !.direct = id \in direct,
                                        !.class = ClassifyResolved((CHOOSE e \in E : YarnId(e) = id).ref)]]
            at     == Over(Only(root, Plain), nodes)
            links  == UNION {{<<YarnId(e), to>> : to \in UNION {YarnDep(doc, w) : w \in e.wants}} : e \in E}
            g      == Graph(at, links \cup {<<root, to>> : to \in direct}, {root})
<1>1. ReadYarn(doc) = IF direct = {} THEN AttachUnneeded(g, root, DOMAIN g.at) ELSE g
    BY DEF ReadYarn
<1>2. \A w : YarnDep(doc, w) \subseteq ids
    BY YarnDepsKnown
<1>3. \A e \in links \cup {<<root, to>> : to \in direct} : {e[1], e[2]} \subseteq {root} \cup ids
  <2>1. \A w : \A to \in YarnDep(doc, w) : to \in ids
      BY <1>2
  <2>. HIDE DEF ids
  <2>2. direct \subseteq ids
      BY <2>1
  <2>3. \A e \in E : YarnId(e) \in ids
      BY DEF ids
  <2>4. \A e \in links : {e[1], e[2]} \subseteq ids
      BY <2>1, <2>3
  <2>. HIDE DEF direct, links, root
  <2>. QED
      BY <2>2, <2>4
<1>4. Sound(root, Plain)
    BY NpmIds, PlainSound
<1>5. \A n \in DOMAIN nodes : Sound(n, nodes[n])
  <2>1. \A n \in ids : n.src \in Sources
      BY NpmIds DEF YarnId
  <2>. HIDE DEF ids, direct, E
  <2>. QED
      BY <2>1 DEF Plain, Sound
<1>6. DOMAIN nodes = ids
    OBVIOUS
<1>. HIDE DEF nodes, links, ids, root, direct
<1>7. Firm(g)
    BY <1>3, <1>4, <1>5, <1>6, RootedFirm
<1>8. DOMAIN g.at = {root} \cup ids
    BY <1>6, RootNodes
<1>. HIDE DEF g
<1>9. Firm(ReadYarn(doc)) /\ DOMAIN ReadYarn(doc).at = {root} \cup ids
    BY <1>1, <1>7, <1>8, AttachedFirm, AttachedNodes
<1>. QED
    BY <1>9 DEF root, ids

\* Among finitely many places one comes last.
LEMMA LastPlace ==
    ASSUME NEW S, S \subseteq Path, IsFiniteSet(S), S # {}
    PROVE  \E p \in S : \A q \in S : ~PlaceBefore(p, q)
<1>. DEFINE after(p) == {q \in S : PlaceBefore(p, q)}
            sizes == {Cardinality(after(p)) : p \in S}
<1>1. \A p \in S : IsFiniteSet(after(p)) /\ Cardinality(after(p)) \in Nat
  <2>1. \A p : after(p) \subseteq S
      OBVIOUS
  <2>. HIDE DEF after
  <2>. QED
      BY <2>1, FS_Subset, FS_CardinalityType
<1>2. PICK p \in S : \A q \in S : Cardinality(after(p)) <= Cardinality(after(q))
  <2>1. sizes \subseteq Nat /\ sizes # {}
    <3>. HIDE DEF after
    <3>. QED
        BY <1>1
  <2>2. Min(sizes) \in sizes /\ \A x \in sizes : Min(sizes) <= x
    <3>. HIDE DEF sizes
    <3>. QED
        BY <2>1, LeastIn
  <2>. HIDE DEF after
  <2>. QED
      BY <2>2
<1>3. ASSUME NEW q \in S, PlaceBefore(p, q) PROVE FALSE
  <2>1. after(q) \subseteq after(p)
      BY <1>3, BeforeIsTransitive
  <2>2. q \in after(p) /\ q \notin after(q)
      BY <1>3, BeforeIsStrict
  <2>. HIDE DEF after
  <2>3. Cardinality(after(q)) <= Cardinality(after(p)) /\ Cardinality(after(q)) # Cardinality(after(p))
      BY <1>1, <2>1, <2>2, FS_Subset
  <2>. QED
      BY <1>1, <1>2, <2>3
<1>. QED
    BY <1>3

LEMMA BunFirm ==
    ASSUME NEW doc, IsFiniteSet(DOMAIN doc.at), DOMAIN doc.at \subseteq Path
    PROVE  Firm(ReadBun(doc))
<1>. DEFINE root   == NpmId(doc.name, "0.0.0", "none")
            P      == DOMAIN doc.at
            named(n) == {p \in P : doc.at[p].name = n}
            byName(n) == BunId(doc.at[CHOOSE p \in named(n) : \A q \in named(n) : ~PlaceBefore(p, q)])
            links(from, names) == {<<from, byName(n)>> : n \in {m \in names : named(m) # {}}}
            first(id) == CHOOSE p \in P : BunId(doc.at[p]) = id
            ids == {BunId(doc.at[p]) : p \in P}
            nodes == [id \in ids |-> [Plain EXCEPT !.direct = id.name \in doc.deps, !.class = BunClass(doc.at[first(id)].ref)]]
            edges == links(root, doc.deps) \cup UNION {links(byName(doc.at[p].name), doc.at[p].needs) : p \in P}
<1>1. ReadBun(doc) = Graph(Over(Only(root, Plain), nodes), edges, {root})
    BY DEF ReadBun
<1>2. ASSUME NEW n, named(n) # {} PROVE byName(n) \in ids
  <2>1. IsFiniteSet(named(n)) /\ named(n) \subseteq Path
      BY FS_Subset
  <2>. DEFINE S == named(n)
              p == CHOOSE x \in S : \A q \in S : ~PlaceBefore(x, q)
  <2>2. p \in S
    <3>. HIDE DEF S
    <3>. QED
        BY <1>2, <2>1, LastPlace DEF S
  <2>3. byName(n) = BunId(doc.at[p]) /\ p \in P
      BY <2>2
  <2>. QED
      BY <2>3
<1>3. \A e \in edges : {e[1], e[2]} \subseteq {root} \cup ids
  <2>1. \A from, names : \A e \in links(from, names) : e[1] = from /\ e[2] \in ids
    <3>. HIDE DEF named, byName, ids
    <3>. QED
        BY <1>2
  <2>2. \A p \in P : byName(doc.at[p].name) \in ids
      BY <1>2
  <2>3. \A e \in edges : \/ e \in links(root, doc.deps)
                         \/ \E p \in P : e \in links(byName(doc.at[p].name), doc.at[p].needs)
    <3>. HIDE DEF links, byName, root
    <3>. QED
        BY Zenon
  <2>. HIDE DEF links, byName, edges, root, ids
  <2>. QED
      BY <2>1, <2>2, <2>3
<1>4. "none" \in Classes
    BY DEF Classes
<1>5. Sound(root, Plain)
    BY <1>4, NpmIds, PlainSound
<1>6. \A n \in DOMAIN nodes : Sound(n, nodes[n])
  <2>1. \A n \in ids : n.src \in Sources
      BY <1>4, NpmIds DEF BunId
  <2>. HIDE DEF ids
  <2>. QED
      BY <2>1 DEF Plain, Sound
<1>7. DOMAIN nodes = ids
    OBVIOUS
<1>. HIDE DEF nodes, edges, ids, root
<1>. QED
    BY <1>1, <1>3, <1>5, <1>6, <1>7, RootedFirm

LEMMA ManifestFirm ==
    ASSUME NEW doc, IsFiniteSet(doc.runtime), IsFiniteSet(doc.optional)
    PROVE  Firm(ReadManifest(doc))
<1>. DEFINE root == NpmRoot(doc)
            n == Cardinality(doc.runtime) + Cardinality(doc.optional)
            a == [Plain EXCEPT !.open = doc.runtime \cup doc.optional, !.count = n, !.flat = TRUE]
<1>1. n \in Nat
    BY FS_CardinalityType
<1>2. ReadManifest(doc) = Graph(Only(root, a), {}, {root})
    BY DEF ReadManifest
<1>3. root.src \in Sources
    BY NpmIds
<1>. HIDE DEF root, n
<1>4. Sound(root, a)
    BY <1>1, <1>3 DEF Plain, Sound
<1>. HIDE DEF a
<1>. QED
    BY <1>2, <1>4, AloneFirm

LEMMA NpmWhole == ASSUME NEW doc, NpmFile(doc) PROVE Whole(ReadNpm(doc))
<1>1. CASE doc.format = "package-lock" /\ doc.layout = 1
    BY <1>1, TreeFirm DEF NpmFile, ReadNpm, Firm, Path
<1>2. CASE doc.format = "package-lock" /\ doc.layout # 1
    BY <1>2, PackagesWhole DEF NpmFile, ReadNpm, Path
<1>3. CASE doc.format = "pnpm"
    BY <1>3, PnpmFirm DEF ReadNpm, Firm
<1>4. CASE doc.format = "yarn"
    BY <1>4, YarnFirm DEF NpmFile, ReadNpm, Firm
<1>5. CASE doc.format = "bun"
    BY <1>5, BunFirm DEF NpmFile, ReadNpm, Firm, Path
<1>6. CASE doc.format = "package.json"
    BY <1>6, ManifestFirm DEF NpmFile, ReadNpm, Firm
<1>. QED
    BY <1>1, <1>2, <1>3, <1>4, <1>5, <1>6 DEF NpmFile

-----------------------------------------------------------------------------
(***************************************************************************)
(* pypi.                                                                   *)
(***************************************************************************)
LEMMA PyIds ==
    ASSUME NEW doc, NEW name, NEW ver
    PROVE  /\ PyId(name, ver).src \in Sources /\ PyId(name, ver).eco = "pypi"
           /\ PyRoot(doc).src \in Sources /\ PyRoot(doc).eco = "pypi"
           /\ \A i : EntryAt(doc, i).src \in Sources
<1>1. "none" \in Classes
    BY DEF Classes
<1>. QED
    BY <1>1, IdParts DEF PyRoot, PyId, EntryAt

LEMMA ListDomain ==
    ASSUME NEW s, IsList(s)
    PROVE  Len(s) \in Nat /\ DOMAIN s = 1..Len(s) /\ IsFiniteSet(DOMAIN s)
<1>1. Len(s) \in Nat /\ DOMAIN s = 1..Len(s)
    BY DEF IsList
<1>. QED
    BY <1>1, FS_Interval

LEMMA PartFinite ==
    ASSUME NEW doc, PyList(doc), NEW i \in DOMAIN doc.packages, NEW own \in BOOLEAN
    PROVE  /\ \A t : IsFiniteSet(Part(doc.packages[i], t))
           /\ IsFiniteSet(UvWants(doc.packages[i], own))
<1>1. \A t : IsFiniteSet(Part(doc.packages[i], t))
    BY FS_EmptySet DEF PyList, Part
<1>2. IsFiniteSet(UvWants(doc.packages[i], own))
  <2>. DEFINE T == IF own THEN {"dependencies", "dev-dependencies", "optional-dependencies"} ELSE {"dependencies"}
              f == [t \in T |-> Part(doc.packages[i], t)]
  <2>1. UvWants(doc.packages[i], own) = UNION {f[t] : t \in DOMAIN f}
      BY DEF UvWants
  <2>2. IsFiniteSet(T)
    <3>1. IsFiniteSet({"dependencies"})
        BY FS_Singleton
    <3>2. IsFiniteSet({"dependencies"} \cup {"dev-dependencies"})
        BY <3>1, FS_AddElement
    <3>3. IsFiniteSet(({"dependencies"} \cup {"dev-dependencies"}) \cup {"optional-dependencies"})
        BY <3>2, FS_AddElement
    <3>4. {"dependencies", "dev-dependencies", "optional-dependencies"}
              = ({"dependencies"} \cup {"dev-dependencies"}) \cup {"optional-dependencies"}
        OBVIOUS
    <3>. QED
        BY <3>1, <3>3, <3>4
  <2>3. DOMAIN f = T /\ \A t \in T : IsFiniteSet(f[t])
      BY <1>1
  <2>. HIDE DEF f, T
  <2>. QED
      BY <2>1, <2>2, <2>3, FiniteUnion
<1>. QED
    BY <1>1, <1>2

LEMMA UvFirm ==
    ASSUME NEW doc, PyList(doc)
    PROVE  /\ Firm(ReadUv(doc))
           /\ \E name, ver : DOMAIN ReadUv(doc).at = {PyId(name, ver)} \cup {EntryAt(doc, i) : i \in Versioned(doc)}
<1>. DEFINE found == UvRoots(doc)
            root  == IF found = {} THEN PyRoot(doc) ELSE EntryAt(doc, CHOOSE i \in found : TRUE)
            wantsOf(id) == UNION {UvWants(doc.packages[i], i \in found) : i \in {j \in Versioned(doc) : EntryAt(doc, j) = id}}
            ids   == {EntryAt(doc, i) : i \in Versioned(doc)}
            ref(id) == doc.packages[CHOOSE i \in Versioned(doc) : EntryAt(doc, i) = id].ref
            lost(id) == {d.name : d \in {w \in wantsOf(id) : UvDep(doc, w) = {}}}
            links == UNION {{<<id, to>> : to \in UNION {UvDep(doc, w) : w \in wantsOf(id)}} : id \in ids}
            at    == [id \in ids |-> [Leaves(lost(id)) EXCEPT !.class = UvClass(ref(id)), !.direct = <<root, id>> \in links]]
            g     == Graph(Over(at, Only(root, Plain)), links, {root})
<1>1. ReadUv(doc) = IF found = {} THEN RootAll(g, root) ELSE AttachUnrooted(g, root)
    BY DEF ReadUv
<1>2. ASSUME NEW w PROVE UvDep(doc, w) \subseteq ids
  <2>. SUFFICES ASSUME NEW to \in UvDep(doc, w) PROVE to \in ids
      OBVIOUS
  <2>1. PICK j \in DOMAIN doc.packages : to = EntryAt(doc, j) /\ doc.packages[j].ver # NoVersion
      BY DEF UvDep
  <2>. QED
      BY <2>1 DEF Versioned
<1>3. \A e \in links : {e[1], e[2]} \subseteq {root} \cup ids
  <2>1. \A id \in ids : \A w : \A to \in UvDep(doc, w) : to \in ids
      BY <1>2
  <2>. HIDE DEF ids, wantsOf, root
  <2>. QED
      BY <2>1
<1>4. root.src \in Sources
    BY PyIds
<1>5. ASSUME NEW id PROVE IsFiniteSet(lost(id))
  <2>. DEFINE S == {j \in Versioned(doc) : EntryAt(doc, j) = id}
              f == [i \in S |-> UvWants(doc.packages[i], i \in found)]
  <2>1. S \subseteq DOMAIN doc.packages /\ IsFiniteSet(S)
    <3>1. S \subseteq DOMAIN doc.packages
        BY DEF Versioned
    <3>. HIDE DEF S
    <3>. QED
        BY <3>1, ListDomain, FS_Subset DEF PyList
  <2>2. \A i \in S : IsFiniteSet(UvWants(doc.packages[i], i \in found))
    <3>. SUFFICES ASSUME NEW i \in S PROVE IsFiniteSet(UvWants(doc.packages[i], i \in found))
        OBVIOUS
    <3>. DEFINE own == i \in found
    <3>1. own \in BOOLEAN /\ i \in DOMAIN doc.packages
        BY <2>1
    <3>. HIDE DEF own
    <3>2. IsFiniteSet(UvWants(doc.packages[i], own))
        BY <3>1, PartFinite
    <3>. QED
        BY <3>2 DEF own
  <2>3. wantsOf(id) = UNION {f[x] : x \in DOMAIN f} /\ DOMAIN f = S /\ \A x \in S : IsFiniteSet(f[x])
      BY <2>2
  <2>. HIDE DEF f, S
  <2>4. IsFiniteSet(wantsOf(id))
      BY <2>1, <2>3, FiniteUnion
  <2>. DEFINE W == {w \in wantsOf(id) : UvDep(doc, w) = {}}
              h == [w \in W |-> w.name]
  <2>5. IsFiniteSet(W)
      BY <2>4, FS_Subset
  <2>6. lost(id) = {h[w] : w \in DOMAIN h} /\ DOMAIN h = W
      OBVIOUS
  <2>. HIDE DEF h, W
  <2>. QED
      BY <2>5, <2>6, FiniteValues
<1>6. \A id \in DOMAIN at : Sound(id, at[id])
  <2>1. \A id \in ids : id.src \in Sources
      BY PyIds
  <2>2. \A id \in ids : Leaves(lost(id)).count \in Nat /\ "count" \in DOMAIN Leaves(lost(id))
      BY <1>5, LeavesCount
  <2>. HIDE DEF ids, links, root
  <2>. QED
      BY <2>1, <2>2 DEF Sound
<1>7. DOMAIN at = ids
    OBVIOUS
<1>8. Sound(root, Plain)
  <2>. HIDE DEF root
  <2>. QED
      BY <1>4 DEF Plain, Sound
<1>. HIDE DEF at, links, ids, root
<1>9. Firm(g)
    BY <1>3, <1>6, <1>7, <1>8, RootedFirm
<1>10. DOMAIN g.at = {root} \cup ids
    BY <1>7, RootNodes
<1>. HIDE DEF g
<1>11. Firm(ReadUv(doc)) /\ DOMAIN ReadUv(doc).at = {root} \cup ids
    BY <1>1, <1>9, <1>10, AttachedFirm, RootAllFirm, AttachedNodes
<1>12. \E name, ver : root = PyId(name, ver)
    BY DEF root, PyRoot, EntryAt
<1>. QED
    BY <1>11, <1>12 DEF ids

LEMMA NamedFirm ==
    ASSUME NEW doc, IsList(doc.packages), NEW scanned, \A i \in DOMAIN doc.packages : IsFiniteSet(scanned[i].deps)
    PROVE  /\ Firm(ReadNamed(doc, scanned))
           /\ DOMAIN ReadNamed(doc, scanned).at = {PyRoot(doc)} \cup {EntryAt(doc, i) : i \in Versioned(doc)}
<1>. DEFINE root  == PyRoot(doc)
            V     == Versioned(doc)
            last(n) == {i \in V : doc.packages[i].name = n /\ \A j \in V : doc.packages[j].name = n => j <= i}
            ids   == {EntryAt(doc, i) : i \in V}
            of(id) == {scanned[i] : i \in {j \in V : EntryAt(doc, j) = id}}
            wants(id) == UNION {p.deps : p \in of(id)}
            lost(id)  == {n \in wants(id) : last(n) = {}}
            links == UNION {{<<id, EntryAt(doc, i)>> : i \in UNION {last(n) : n \in wants(id)}} : id \in ids}
            at    == [id \in ids |-> [Leaves(lost(id)) EXCEPT !.class = (CHOOSE p \in of(id) : TRUE).class]]
            g     == Graph(Over(at, Only(root, Plain)), links, {root})
<1>1. ReadNamed(doc, scanned) = RootAll(g, root)
    BY DEF ReadNamed
<1>2. V \subseteq DOMAIN doc.packages
    BY DEF Versioned
<1>3. \A e \in links : {e[1], e[2]} \subseteq {root} \cup ids
  <2>1. \A i \in V : EntryAt(doc, i) \in ids
      OBVIOUS
  <2>2. \A n : \A i \in last(n) : i \in V
      OBVIOUS
  <2>. HIDE DEF ids, root, wants, V
  <2>. QED
      BY <2>1, <2>2
<1>4. root.src \in Sources
    BY PyIds
<1>5. ASSUME NEW id PROVE IsFiniteSet(lost(id))
  <2>. DEFINE S == {j \in V : EntryAt(doc, j) = id}
              f == [i \in S |-> scanned[i].deps]
  <2>1. IsFiniteSet(S) /\ S \subseteq DOMAIN doc.packages
    <3>1. S \subseteq DOMAIN doc.packages
        BY <1>2
    <3>. HIDE DEF S
    <3>. QED
        BY <3>1, ListDomain, FS_Subset
  <2>2. wants(id) = UNION {f[x] : x \in DOMAIN f} /\ DOMAIN f = S /\ \A x \in S : IsFiniteSet(f[x])
      BY <2>1
  <2>. HIDE DEF f, S
  <2>3. IsFiniteSet(wants(id))
      BY <2>1, <2>2, FiniteUnion
  <2>4. lost(id) \subseteq wants(id)
      OBVIOUS
  <2>. HIDE DEF lost, wants
  <2>. QED
      BY <2>3, <2>4, FS_Subset
<1>6. \A id \in DOMAIN at : Sound(id, at[id])
  <2>1. \A id \in ids : id.src \in Sources
      BY PyIds
  <2>2. \A id \in ids : Leaves(lost(id)).count \in Nat /\ "count" \in DOMAIN Leaves(lost(id))
      BY <1>5, LeavesCount
  <2>. HIDE DEF ids, links, root
  <2>. QED
      BY <2>1, <2>2 DEF Sound
<1>7. DOMAIN at = ids
    OBVIOUS
<1>8. Sound(root, Plain)
  <2>. HIDE DEF root
  <2>. QED
      BY <1>4 DEF Plain, Sound
<1>. HIDE DEF at, links, ids
<1>9. Firm(g)
  <2>. HIDE DEF root
  <2>. QED
      BY <1>3, <1>6, <1>7, <1>8, RootedFirm
<1>10. DOMAIN g.at = {root} \cup ids
    BY <1>7, RootNodes
<1>. HIDE DEF g, root
<1>11. Firm(ReadNamed(doc, scanned)) /\ DOMAIN ReadNamed(doc, scanned).at = {root} \cup ids
    BY <1>1, <1>9, <1>10, RootAllFirm, AttachedNodes
<1>. QED
    BY <1>11 DEF root, ids

LEMMA NamedLocksFirm ==
    ASSUME NEW doc, PyList(doc)
    PROVE  Firm(ReadPoetry(doc)) /\ Firm(ReadPdm(doc)) /\ Firm(ReadPylock(doc))
<1>0. IsList(doc.packages) /\ \A i \in DOMAIN doc.packages : \A t : IsFiniteSet(Part(doc.packages[i], t))
    BY PartFinite DEF PyList
<1>1. Firm(ReadPoetry(doc))
  <2>. DEFINE s == [i \in DOMAIN doc.packages |-> ScanPoetry(doc.packages[i])]
  <2>1. \A i \in DOMAIN doc.packages : IsFiniteSet(s[i].deps)
      BY <1>0 DEF ScanPoetry
  <2>2. ReadPoetry(doc) = ReadNamed(doc, s)
      BY DEF ReadPoetry
  <2>. HIDE DEF s
  <2>. QED
      BY <1>0, <2>1, <2>2, NamedFirm
<1>2. Firm(ReadPdm(doc))
  <2>. DEFINE s == [i \in DOMAIN doc.packages |-> ScanPdm(doc.packages[i])]
  <2>1. \A i \in DOMAIN doc.packages : IsFiniteSet(s[i].deps)
      BY <1>0 DEF ScanPdm
  <2>2. ReadPdm(doc) = ReadNamed(doc, s)
      BY DEF ReadPdm
  <2>. HIDE DEF s
  <2>. QED
      BY <1>0, <2>1, <2>2, NamedFirm
<1>3. Firm(ReadPylock(doc))
  <2>. DEFINE s == [i \in DOMAIN doc.packages |-> ScanPylock(doc.packages[i])]
              g == ReadNamed(doc, s)
              at == [g.at EXCEPT ![PyRoot(doc)].flat = TRUE]
  <2>1. \A i \in DOMAIN doc.packages : IsFiniteSet(s[i].deps)
      BY <1>0 DEF ScanPylock
  <2>2. ReadPylock(doc) = IF \A e \in g.edges : e[1] \in g.roots THEN Graph(at, g.edges, g.roots) ELSE g
      BY DEF ReadPylock
  <2>3. Firm(g) /\ PyRoot(doc) \in DOMAIN g.at
    <3>. HIDE DEF s
    <3>. QED
        BY <1>0, <2>1, NamedFirm
  <2>. HIDE DEF g
  <2>4. DOMAIN at = DOMAIN g.at /\ \A id \in DOMAIN g.at : Sound(id, at[id])
    <3>1. \A id \in DOMAIN g.at : Sound(id, g.at[id])
        BY <2>3 DEF Firm, Whole
    <3>2. \A id \in DOMAIN g.at : at[id] = g.at[id] \/ at[id] = [g.at[id] EXCEPT !.flat = TRUE]
        OBVIOUS
    <3>3. DOMAIN at = DOMAIN g.at
        OBVIOUS
    <3>. HIDE DEF at
    <3>. QED
        BY <3>1, <3>2, <3>3 DEF Sound
  <2>5. /\ IsFiniteSet(g.roots) /\ g.roots \subseteq DOMAIN at /\ (g.roots = {} => DOMAIN at = {})
        /\ \A e \in g.edges : Joins(at, e)
      BY <2>3, <2>4 DEF Firm, Whole, Joins
  <2>. HIDE DEF at
  <2>6. Firm(Graph(at, g.edges, g.roots))
      BY <2>4, <2>5, BuiltFirm
  <2>. QED
      BY <2>2, <2>3, <2>6
<1>. QED
    BY <1>1, <1>2, <1>3

LEMMA PipfileFirm == ASSUME NEW doc PROVE Firm(ReadPipfile(doc))
<1>. DEFINE root == PyRoot(doc)
            ids  == {EntryAt(doc, i) : i \in Versioned(doc)}
            nodes == [id \in ids |-> [Plain EXCEPT !.direct = TRUE]]
            a    == [Plain EXCEPT !.flat = TRUE]
            edges == {<<root, id>> : id \in ids}
<1>1. ReadPipfile(doc) = Graph(Over(nodes, Only(root, a)), edges, {root})
    BY DEF ReadPipfile
<1>2. root.src \in Sources /\ \A id \in ids : id.src \in Sources
    BY PyIds
<1>. HIDE DEF root, ids
<1>3. Sound(root, a) /\ \A id \in ids : Sound(id, nodes[id])
    BY <1>2 DEF Plain, Sound
<1>4. DOMAIN nodes = ids /\ \A e \in edges : {e[1], e[2]} \subseteq {root} \cup ids
    OBVIOUS
<1>. HIDE DEF nodes, a, edges
<1>. QED
    BY <1>1, <1>3, <1>4, RootedFirm

\* A project that leaves everything open stands alone.
LEMMA OpenFirm ==
    ASSUME NEW root, root.src \in Sources, NEW names, IsFiniteSet(names), NEW c
    PROVE  /\ Firm(Graph(Only(root, [Leaves(names) EXCEPT !.flat = TRUE]), {}, {root}))
           /\ Firm(Graph(Only(root, [Leaves(names) EXCEPT !.class = c]), {}, {root}))
<1>. DEFINE a == [Leaves(names) EXCEPT !.flat = TRUE]
            b == [Leaves(names) EXCEPT !.class = c]
<1>1. Sound(root, a) /\ Sound(root, b)
    BY LeavesCount DEF Sound
<1>. HIDE DEF a, b
<1>2. Firm(Graph(Only(root, a), {}, {root})) /\ Firm(Graph(Only(root, b), {}, {root}))
    BY <1>1, AloneFirm
<1>. QED
    BY <1>2 DEF a, b

LEMMA DeclaredFirm ==
    ASSUME NEW doc
    PROVE  /\ IsFiniteSet(doc.declares) => /\ Firm(ReadDeclared(doc, DeclaredInPipfile(doc)))
                                           /\ Firm(ReadDeclared(doc, DeclaredInPyproject(doc)))
           /\ IsList(doc.items) => Firm(ReadDeclared(doc, DeclaredInSetup(doc)))
<1>1. ASSUME NEW names, IsFiniteSet(names) PROVE Firm(ReadDeclared(doc, names))
    BY <1>1, PyIds, OpenFirm DEF ReadDeclared
<1>2. ASSUME NEW S, IsFiniteSet(S), NEW h, DOMAIN h = S PROVE IsFiniteSet({h[x] : x \in S})
    BY <1>2, FiniteValues
<1>3. ASSUME IsFiniteSet(doc.declares)
      PROVE  IsFiniteSet(DeclaredInPipfile(doc)) /\ IsFiniteSet(DeclaredInPyproject(doc))
  <2>. DEFINE S == {e \in doc.declares : ~e.excluded /\ ~(e.extra /\ e.name = doc.name)}
              h == [d \in S |-> d.name]
              k == [d \in doc.declares |-> d.name]
  <2>1. DeclaredInPyproject(doc) = {h[x] : x \in S} /\ DOMAIN h = S
      BY DEF DeclaredInPyproject
  <2>2. DeclaredInPipfile(doc) = {k[x] : x \in doc.declares} /\ DOMAIN k = doc.declares
      BY DEF DeclaredInPipfile
  <2>3. IsFiniteSet(S)
      BY <1>3, FS_Subset
  <2>. HIDE DEF S, h, k
  <2>. QED
      BY <1>2, <1>3, <2>1, <2>2, <2>3
<1>4. ASSUME IsList(doc.items) PROVE IsFiniteSet(DeclaredInSetup(doc))
  <2>. DEFINE S == {j \in DOMAIN doc.items : /\ ~doc.items[j].excluded
                                             /\ \A k \in 1..j : ~doc.items[k].bracket}
              h == [i \in S |-> doc.items[i].name]
  <2>1. DeclaredInSetup(doc) = {h[x] : x \in S} /\ DOMAIN h = S
      BY DEF DeclaredInSetup
  <2>2. IsFiniteSet(S)
      BY <1>4, ListDomain, FS_Subset
  <2>. HIDE DEF S, h
  <2>. QED
      BY <1>2, <2>1, <2>2
<1>. QED
    BY <1>1, <1>3, <1>4

\* What reading requirements files may come to.
Targets(doc) ==
    {doc.siblings[k] : k \in DOMAIN doc.siblings}
      \cup UNION {{doc.files[f][i].file : i \in DOMAIN doc.files[f]} : f \in DOMAIN doc.files}

Readings(doc) == [seen : SUBSET DOMAIN doc.files, lines : Seq((DOMAIN doc.files) \X Nat), unfollowed : Seq(Targets(doc))]

\* The files of a project are texts.
Texts(doc) == \A f \in DOMAIN doc.files : IsList(doc.files[f])

\* What an include can refer to is read to an end.
Includes(doc, readable, included) ==
    /\ readable \subseteq DOMAIN doc.files
    /\ \A s \in SUBSET DOMAIN doc.files, f \in readable : included[<<s, f>>] \in Readings(doc)

LEMMA NothingReadIs == ASSUME NEW doc, NEW s \in SUBSET DOMAIN doc.files PROVE NothingRead(s) \in Readings(doc)
BY DEF NothingRead, Readings

LEMMA ReadingsJoin ==
    ASSUME NEW doc, NEW a \in Readings(doc), NEW b \in Readings(doc)
    PROVE  ThenRead(a, b) \in Readings(doc)
<1>. DEFINE F == DOMAIN doc.files
            P == F \X Nat
            T == Targets(doc)
<1>1. /\ a.lines \in Seq(P) /\ a.unfollowed \in Seq(T)
      /\ b.seen \in SUBSET F /\ b.lines \in Seq(P) /\ b.unfollowed \in Seq(T)
    BY DEF Readings
<1>2. Readings(doc) = [seen : SUBSET F, lines : Seq(P), unfollowed : Seq(T)]
    BY DEF Readings
<1>. HIDE DEF F, P, T
<1>3. a.lines \o b.lines \in Seq(P) /\ a.unfollowed \o b.unfollowed \in Seq(T)
    BY <1>1
<1>. QED
    BY <1>1, <1>2, <1>3 DEF ThenRead

LEMMA LineIsRead ==
    ASSUME NEW doc, Texts(doc), NEW a \in Readings(doc), NEW file \in DOMAIN doc.files, NEW i \in DOMAIN doc.files[file],
           NEW readable, NEW included, Includes(doc, readable, included)
    PROVE  ThenLine(a, file, doc.files[file][i], i, readable, included) \in Readings(doc)
<1>. DEFINE line == doc.files[file][i]
            F == DOMAIN doc.files
            T == Targets(doc)
<1>1. i \in Nat
    BY ListDomain DEF Texts
<1>2. line.file \in T
    BY DEF Targets
<1>3. a.seen \in SUBSET F /\ a.lines \in Seq(F \X Nat) /\ a.unfollowed \in Seq(T)
      /\ a = [seen |-> a.seen, lines |-> a.lines, unfollowed |-> a.unfollowed]
    BY DEF Readings
<1>4. ASSUME NEW l \in Seq(F \X Nat), NEW u \in Seq(T), NEW s \in SUBSET F
      PROVE  [seen |-> s, lines |-> l, unfollowed |-> u] \in Readings(doc)
    BY DEF Readings
<1>. HIDE DEF line, F, T
<1>5. CASE line.kind # "include"
  <2>1. ThenLine(a, file, line, i, readable, included)
            = [seen |-> a.seen, lines |-> Append(a.lines, <<file, i>>), unfollowed |-> a.unfollowed]
      BY <1>3, <1>5 DEF ThenLine
  <2>2. <<file, i>> \in F \X Nat
      BY <1>1 DEF F
  <2>3. Append(a.lines, <<file, i>>) \in Seq(F \X Nat)
      BY <1>3, <2>2
  <2>. QED
      BY <1>3, <1>4, <2>1, <2>3 DEF line
<1>6. CASE line.kind = "include" /\ line.file \notin readable
  <2>1. ThenLine(a, file, line, i, readable, included)
            = [seen |-> a.seen, lines |-> a.lines, unfollowed |-> Append(a.unfollowed, line.file)]
      BY <1>3, <1>6 DEF ThenLine
  <2>2. Append(a.unfollowed, line.file) \in Seq(T)
      BY <1>2, <1>3
  <2>. QED
      BY <1>3, <1>4, <2>1, <2>2 DEF line
<1>7. CASE line.kind = "include" /\ line.file \in readable
  <2>. DEFINE b == included[<<a.seen, line.file>>]
  <2>1. b \in Readings(doc)
      BY <1>3, <1>7 DEF Includes, F
  <2>2. ThenLine(a, file, line, i, readable, included) = ThenRead(a, b)
      BY <1>7 DEF ThenLine
  <2>. QED
      BY <2>1, <2>2, ReadingsJoin DEF line
<1>. QED
    BY <1>5, <1>6, <1>7 DEF line

\* A text is read line by line.
LEMMA TextIsRead ==
    ASSUME NEW doc, Texts(doc), NEW seen \in SUBSET DOMAIN doc.files, NEW file \in DOMAIN doc.files,
           NEW readable, NEW included, Includes(doc, readable, included)
    PROVE  ReadText(doc, seen, file, readable, included) \in Readings(doc)
<1>. DEFINE text == doc.files[file]
            n == Len(text)
            S == Readings(doc)
            b == NothingRead(seen \cup {file})
            next(k, a) == ThenLine(a, file, text[k], k, readable, included)
            body(f) == [i \in 0..n |-> IF i = 0 THEN b ELSE next(i, f[i - 1])]
            over == CHOOSE f : f = body(f)
            step == [c \in (1..n) \X S |-> next(c[1], c[2])]
<1>1. n \in Nat /\ DOMAIN text = 1..n
    BY ListDomain DEF Texts
<1>2. ReadText(doc, seen, file, readable, included) = IF file \in seen THEN NothingRead(seen) ELSE over[n]
    BY DEF ReadText
<1>3. b \in S /\ NothingRead(seen) \in S
    BY NothingReadIs
<1>4. \A k \in 1..n : \A a \in S : next(k, a) \in S
    BY <1>1, LineIsRead
<1>5. step \in [(1..n) \X S -> S] /\ \A k \in 1..n : \A a \in S : step[<<k, a>>] = next(k, a)
  <2>. HIDE DEF next, n, S
  <2>. QED
      BY <1>4
<1>6. PICK f : Steps(f, n, S, b, step)
  <2>. HIDE DEF step, n, S, b
  <2>. QED
      BY <1>1, <1>3, <1>5, StepByStep
<1>7. f = body(f)
  <2>1. /\ f \in [0..n -> S] /\ f[0] = b
        /\ \A k \in 1..n : f[k - 1] \in S /\ f[k] = step[<<k, f[k - 1]>>]
    <3>. HIDE DEF step, n, S, b
    <3>1. f \in [0..n -> S] /\ f[0] = b /\ \A k \in 1..n : f[k] = step[<<k, f[k - 1]>>]
        BY <1>6 DEF Steps
    <3>. QED
        BY <1>1, <3>1
  <2>2. \A k \in 0..n : f[k] = IF k = 0 THEN b ELSE next(k, f[k - 1])
    <3>. HIDE DEF next, step, n, S, b
    <3>1. \A k \in 0..n : k = 0 \/ (k \in 1..n /\ k # 0)
        BY <1>1
    <3>. QED
        BY <1>5, <2>1, <3>1
  <2>. HIDE DEF next, n, b, S
  <2>. QED
      BY <2>1, <2>2
<1>8. over = body(over)
  <2>. HIDE DEF body
  <2>. QED
      BY <1>7
<1>9. over[0] = b /\ \A k \in 1..n : over[k] = next(k, over[k - 1])
  <2>1. 0 \in 0..n /\ \A k \in 1..n : k \in 0..n /\ k # 0
      BY <1>1
  <2>2. \A k \in 0..n : over[k] = IF k = 0 THEN b ELSE next(k, over[k - 1])
    <3>. HIDE DEF over, next, n, b
    <3>. QED
        BY <1>8
  <2>. HIDE DEF over, next, n, b
  <2>. QED
      BY <2>1, <2>2
<1>10. over[n] \in S
  <2>. DEFINE A == {k \in 0..n : over[k] \in S}
  <2>. HIDE DEF over, next, n, S, b
  <2>1. 0 \in A
      BY <1>1, <1>3, <1>9
  <2>2. \A k \in 1..n : k - 1 \in A => k \in A
      BY <1>1, <1>4, <1>9
  <2>3. 0..n \subseteq A
    <3>. HIDE DEF A
    <3>. QED
        BY <1>1, <2>1, <2>2, AllCounted
  <2>. QED
      BY <1>1, <2>3
<1>. QED
    BY <1>2, <1>3, <1>10

\* Every file is read to an end, whatever was seen before.
LEMMA FileIsRead ==
    ASSUME NEW doc, Texts(doc)
    PROVE  ReadFile(doc) \in [(SUBSET DOMAIN doc.files) \X DOMAIN doc.files -> Readings(doc)]
<1>. DEFINE F == DOMAIN doc.files
            C == (SUBSET F) \X F
            R == Readings(doc)
            S == [C -> R]
            b == [c \in C |-> ReadText(doc, c[1], c[2], {}, <<>>)]
            next(h) == [c \in C |-> ReadText(doc, c[1], c[2], F, h)]
            body(f) == [k \in 0..MaxInclude |->
                           [c \in C |-> IF k = 0 THEN ReadText(doc, c[1], c[2], {}, <<>>)
                                        ELSE ReadText(doc, c[1], c[2], F, f[k - 1])]]
            included == CHOOSE f : f = body(f)
            step == [c \in (1..MaxInclude) \X S |-> next(c[2])]
<1>1. MaxInclude \in Nat
    BY DEF MaxInclude
<1>2. ReadFile(doc) = included[MaxInclude]
    BY DEF ReadFile
<1>3. b \in S
  <2>1. \A c \in C : ReadText(doc, c[1], c[2], {}, <<>>) \in R
    <3>1. Includes(doc, {}, <<>>)
        BY DEF Includes
    <3>. QED
        BY <3>1, TextIsRead
  <2>. HIDE DEF C, R
  <2>. QED
      BY <2>1
<1>4. \A h \in S : next(h) \in S
  <2>. SUFFICES ASSUME NEW h \in S PROVE next(h) \in S
      OBVIOUS
  <2>1. Includes(doc, F, h)
      BY DEF Includes
  <2>2. \A c \in C : ReadText(doc, c[1], c[2], F, h) \in R
      BY <2>1, TextIsRead
  <2>. HIDE DEF C, R
  <2>. QED
      BY <2>2
<1>5. step \in [(1..MaxInclude) \X S -> S] /\ \A k \in 1..MaxInclude : \A h \in S : step[<<k, h>>] = next(h)
  <2>. HIDE DEF next, S
  <2>. QED
      BY <1>4
<1>6. PICK f : Steps(f, MaxInclude, S, b, step)
  <2>. HIDE DEF step, S, b
  <2>. QED
      BY <1>1, <1>3, <1>5, StepByStep
<1>7. f = body(f)
  <2>1. /\ f \in [0..MaxInclude -> S] /\ f[0] = b
        /\ \A k \in 1..MaxInclude : f[k - 1] \in S /\ f[k] = step[<<k, f[k - 1]>>]
    <3>. HIDE DEF step, S, b
    <3>1. f \in [0..MaxInclude -> S] /\ f[0] = b /\ \A k \in 1..MaxInclude : f[k] = step[<<k, f[k - 1]>>]
        BY <1>6 DEF Steps
    <3>. QED
        BY <1>1, <3>1
  <2>2. \A k \in 0..MaxInclude : f[k] = IF k = 0 THEN b ELSE next(f[k - 1])
    <3>. HIDE DEF next, step, S, b
    <3>1. \A k \in 0..MaxInclude : k = 0 \/ (k \in 1..MaxInclude /\ k # 0)
        BY <1>1
    <3>. QED
        BY <1>5, <2>1, <3>1
  <2>3. \A k \in 0..MaxInclude : f[k] = [c \in C |-> IF k = 0 THEN ReadText(doc, c[1], c[2], {}, <<>>)
                                                     ELSE ReadText(doc, c[1], c[2], F, f[k - 1])]
    <3>. HIDE DEF C, F
    <3>. QED
        BY <2>2
  <2>. HIDE DEF C, F, S
  <2>. QED
      BY <2>1, <2>3
<1>8. included = body(included)
  <2>. HIDE DEF body
  <2>. QED
      BY <1>7
<1>9. included[0] = b /\ \A k \in 1..MaxInclude : included[k] = next(included[k - 1])
  <2>1. 0 \in 0..MaxInclude /\ \A k \in 1..MaxInclude : k \in 0..MaxInclude /\ k # 0
      BY <1>1
  <2>2. \A k \in 0..MaxInclude :
            included[k] = [c \in C |-> IF k = 0 THEN ReadText(doc, c[1], c[2], {}, <<>>)
                                       ELSE ReadText(doc, c[1], c[2], F, included[k - 1])]
    <3>. HIDE DEF included, C, F
    <3>. QED
        BY <1>8
  <2>. HIDE DEF included, C, F
  <2>. QED
      BY <2>1, <2>2
<1>10. included[MaxInclude] \in S
  <2>. DEFINE A == {k \in 0..MaxInclude : included[k] \in S}
  <2>. HIDE DEF included, next, S, b
  <2>1. 0 \in A
      BY <1>1, <1>3, <1>9
  <2>2. \A k \in 1..MaxInclude : k - 1 \in A => k \in A
      BY <1>1, <1>4, <1>9
  <2>3. 0..MaxInclude \subseteq A
    <3>. HIDE DEF A
    <3>. QED
        BY <1>1, <2>1, <2>2, AllCounted
  <2>. QED
      BY <1>1, <2>3
<1>. QED
    BY <1>2, <1>10

\* And so are the requirements files of a project in turn.
LEMMA FilesAreRead ==
    ASSUME NEW doc, Texts(doc), IsList(doc.siblings), doc.first \in DOMAIN doc.files
    PROVE  ReadFiles(doc) \in Readings(doc)
<1>. DEFINE n == Len(doc.siblings)
            S == Readings(doc)
            b == ReadFile(doc)[<<{}, doc.first>>]
            next(k, a) == ThenSibling(doc, a, doc.siblings[k])
            body(f) == [i \in 0..n |-> IF i = 0 THEN b ELSE next(i, f[i - 1])]
            over == CHOOSE f : f = body(f)
            step == [c \in (1..n) \X S |-> next(c[1], c[2])]
<1>1. n \in Nat /\ DOMAIN doc.siblings = 1..n
    BY ListDomain
<1>2. ReadFiles(doc) = over[n]
    BY DEF ReadFiles
<1>3. b \in S
  <2>1. <<{}, doc.first>> \in (SUBSET DOMAIN doc.files) \X DOMAIN doc.files
      OBVIOUS
  <2>. QED
      BY <2>1, FileIsRead
<1>4. \A k \in 1..n : \A a \in S : next(k, a) \in S
  <2>. SUFFICES ASSUME NEW k \in 1..n, NEW a \in S PROVE next(k, a) \in S
      OBVIOUS
  <2>1. /\ a.seen \in SUBSET DOMAIN doc.files /\ a.lines \in Seq((DOMAIN doc.files) \X Nat)
        /\ a.unfollowed \in Seq(Targets(doc))
        /\ a = [seen |-> a.seen, lines |-> a.lines, unfollowed |-> a.unfollowed]
      BY DEF Readings
  <2>2. CASE doc.siblings[k] \in DOMAIN doc.files
    <3>1. <<a.seen, doc.siblings[k]>> \in (SUBSET DOMAIN doc.files) \X DOMAIN doc.files
        BY <2>1, <2>2
    <3>2. ReadFile(doc)[<<a.seen, doc.siblings[k]>>] \in S
        BY <3>1, FileIsRead
    <3>. QED
        BY <2>2, <3>2, ReadingsJoin DEF ThenSibling
  <2>3. CASE doc.siblings[k] \notin DOMAIN doc.files
    <3>. DEFINE T == Targets(doc)
    <3>1. doc.siblings[k] \in T
        BY <1>1 DEF Targets
    <3>. HIDE DEF T
    <3>2. Append(a.unfollowed, doc.siblings[k]) \in Seq(T)
        BY <2>1, <3>1 DEF T
    <3>3. next(k, a) = [seen |-> a.seen, lines |-> a.lines, unfollowed |-> Append(a.unfollowed, doc.siblings[k])]
        BY <2>1, <2>3 DEF ThenSibling
    <3>. HIDE DEF next
    <3>. QED
        BY <2>1, <3>2, <3>3 DEF Readings, T
  <2>. QED
      BY <2>2, <2>3
<1>5. step \in [(1..n) \X S -> S] /\ \A k \in 1..n : \A a \in S : step[<<k, a>>] = next(k, a)
  <2>. HIDE DEF next, n, S
  <2>. QED
      BY <1>4
<1>6. PICK f : Steps(f, n, S, b, step)
  <2>. HIDE DEF step, n, S, b
  <2>. QED
      BY <1>1, <1>3, <1>5, StepByStep
<1>7. f = body(f)
  <2>1. /\ f \in [0..n -> S] /\ f[0] = b
        /\ \A k \in 1..n : f[k - 1] \in S /\ f[k] = step[<<k, f[k - 1]>>]
    <3>. HIDE DEF step, n, S, b
    <3>1. f \in [0..n -> S] /\ f[0] = b /\ \A k \in 1..n : f[k] = step[<<k, f[k - 1]>>]
        BY <1>6 DEF Steps
    <3>. QED
        BY <1>1, <3>1
  <2>2. \A k \in 0..n : f[k] = IF k = 0 THEN b ELSE next(k, f[k - 1])
    <3>. HIDE DEF next, step, n, S, b
    <3>1. \A k \in 0..n : k = 0 \/ (k \in 1..n /\ k # 0)
        BY <1>1
    <3>. QED
        BY <1>5, <2>1, <3>1
  <2>. HIDE DEF next, n, b, S
  <2>. QED
      BY <2>1, <2>2
<1>8. over = body(over)
  <2>. HIDE DEF body
  <2>. QED
      BY <1>7
<1>9. over[0] = b /\ \A k \in 1..n : over[k] = next(k, over[k - 1])
  <2>1. 0 \in 0..n /\ \A k \in 1..n : k \in 0..n /\ k # 0
      BY <1>1
  <2>2. \A k \in 0..n : over[k] = IF k = 0 THEN b ELSE next(k, over[k - 1])
    <3>. HIDE DEF over, next, n, b
    <3>. QED
        BY <1>8
  <2>. HIDE DEF over, next, n, b
  <2>. QED
      BY <2>1, <2>2
<1>10. over[n] \in S
  <2>. DEFINE A == {k \in 0..n : over[k] \in S}
  <2>. HIDE DEF over, next, n, S, b
  <2>1. 0 \in A
      BY <1>1, <1>3, <1>9
  <2>2. \A k \in 1..n : k - 1 \in A => k \in A
      BY <1>1, <1>4, <1>9
  <2>3. 0..n \subseteq A
    <3>. HIDE DEF A
    <3>. QED
        BY <1>1, <2>1, <2>2, AllCounted
  <2>. QED
      BY <1>1, <2>3
<1>. QED
    BY <1>2, <1>10

LEMMA RequirementsFirm ==
    ASSUME NEW doc, ReadFiles(doc) \in Readings(doc)
    PROVE  /\ Firm(ReadRequirements(doc))
           /\ Tame(ReadRequirements(doc))
<1>. DEFINE root    == PyRoot(doc)
            r       == ReadFiles(doc)
            line(k) == doc.files[r.lines[k][1]][r.lines[k][2]]
            pins    == {k \in DOMAIN r.lines : line(k).kind = "pin"}
            id(k)   == PyId(line(k).name, line(k).ver)
            meant(n) == {id(k) : k \in {j \in pins : line(j).name = n /\ \A i \in pins : line(i).name = n => i <= j}}
            vias(k) == Vias(doc.files[r.lines[k][1]], r.lines[k][2])
            parents(k) == UNION {meant(n) : n \in vias(k)} \ meant(line(k).name)
            open    == {k \in DOMAIN r.lines : line(k).kind = "garbled" \/ (line(k).kind = "open" /\ ~line(k).excluded)}
            links   == UNION {(IF parents(k) = {} THEN {root} ELSE parents(k)) \X meant(line(k).name) : k \in pins}
            flat    == pins # {} /\ \A k \in pins : vias(k) = {}
            names   == {line(k).name : k \in {j \in open : line(j).kind = "open"}}
            count   == Cardinality(open) + Len(r.unfollowed)
            ids     == {id(k) : k \in pins}
            at      == [i \in ids |-> [Plain EXCEPT !.direct = <<root, i>> \in links]]
            a       == [Plain EXCEPT !.flat = flat, !.count = count, !.open = names]
<1>1. ReadRequirements(doc) = Graph(Over(at, Only(root, a)), links, {root})
    BY DEF ReadRequirements, GraphOfLines
<1>2. count \in Nat /\ IsFiniteSet(pins)
  <2>1. r.lines \in Seq((DOMAIN doc.files) \X Nat) /\ r.unfollowed \in Seq(Targets(doc))
      BY DEF Readings
  <2>. DEFINE lines == r.lines
              rest == r.unfollowed
              P == (DOMAIN doc.files) \X Nat
  <2>2. Len(lines) \in Nat /\ DOMAIN lines = 1..Len(lines) /\ Len(rest) \in Nat
    <3>1. lines \in Seq(P) /\ rest \in Seq(Targets(doc))
        BY <2>1
    <3>. HIDE DEF lines, rest, P
    <3>. QED
        BY <3>1
  <2>3. open \subseteq DOMAIN lines /\ pins \subseteq DOMAIN lines
      OBVIOUS
  <2>. HIDE DEF lines, open, pins, rest
  <2>4. IsFiniteSet(DOMAIN lines)
      BY <2>2, FS_Interval
  <2>5. Cardinality(open) \in Nat
      BY <2>3, <2>4, FS_Subset, FS_CardinalityType
  <2>6. count = Cardinality(open) + Len(rest)
      BY DEF rest
  <2>7. IsFiniteSet(pins)
      BY <2>3, <2>4, FS_Subset
  <2>. HIDE DEF count
  <2>. QED
      BY <2>2, <2>5, <2>6, <2>7
<1>3. root.src \in Sources /\ \A i \in ids : i.src \in Sources
    BY PyIds
<1>4. \A e \in links : {e[1], e[2]} \subseteq {root} \cup ids
  <2>1. ASSUME NEW n PROVE meant(n) \subseteq ids
      OBVIOUS
  <2>. SUFFICES ASSUME NEW e \in links PROVE e[1] \in {root} \cup ids /\ e[2] \in ids
      OBVIOUS
  <2>2. PICK k \in pins : e \in (IF parents(k) = {} THEN {root} ELSE parents(k)) \X meant(line(k).name)
      OBVIOUS
  <2>3. e[2] \in meant(line(k).name) /\ (e[1] = root \/ e[1] \in parents(k))
      BY <2>2
  <2>4. ASSUME e[1] \in parents(k) PROVE e[1] \in ids
    <3>1. PICK n \in vias(k) : e[1] \in meant(n)
        BY <2>4
    <3>. QED
        BY <2>1, <3>1
  <2>. QED
      BY <2>1, <2>3, <2>4
<1>5. Sound(root, a)
  <2>. HIDE DEF root, count, names, flat
  <2>. QED
      BY <1>2, <1>3 DEF Plain, Sound
<1>6. DOMAIN at = ids /\ \A i \in ids : Sound(i, at[i])
  <2>. HIDE DEF root, links, ids
  <2>. QED
      BY <1>3 DEF Plain, Sound
<1>. DEFINE g == Graph(Over(at, Only(root, a)), links, {root})
<1>. HIDE DEF root, a, at, links
<1>7. Firm(g) /\ DOMAIN g.at = {root} \cup ids
  <2>. HIDE DEF ids
  <2>. QED
      BY <1>4, <1>5, <1>6, RootedFirm, RootNodes
<1>8. Tame(g)
  <2>. DEFINE f == [k \in pins |-> id(k)]
  <2>0. \A name, ver : PyId(name, ver).eco \notin Notes
      BY IdParts DEF PyId, Notes
  <2>1. root.eco \notin Notes /\ \A k \in DOMAIN f : f[k].eco \notin Notes
    <3>1. root.eco \notin Notes
        BY <2>0 DEF root, PyRoot
    <3>2. \A k \in DOMAIN f : f[k].eco \notin Notes
        BY <2>0
    <3>. QED
        BY <3>1, <3>2
  <2>2. ids = {f[k] : k \in DOMAIN f} /\ IsFiniteSet(DOMAIN f)
      BY <1>2
  <2>. HIDE DEF f, g, ids
  <2>. QED
      BY <1>7, <2>1, <2>2, NodesTame
<1>. HIDE DEF g
<1>. QED
    BY <1>1, <1>7, <1>8 DEF g

LEMMA PypiWhole == ASSUME NEW doc, PypiFile(doc) PROVE Whole(ReadPypi(doc))
<1>1. CASE doc.format \in NamedLock \cup {"uv"}
  <2>1. PyList(doc)
      BY <1>1 DEF PypiFile, NamedLock
  <2>. QED
      BY <1>1, <2>1, UvFirm, NamedLocksFirm DEF ReadPypi, NamedLock, Firm
<1>2. CASE doc.format = "pipfile"
    BY <1>2, PipfileFirm DEF ReadPypi, Firm
<1>3. CASE doc.format = "requirements"
  <2>1. IsList(doc.siblings) /\ doc.first \in DOMAIN doc.files /\ Texts(doc)
      BY <1>3 DEF PypiFile, NamedLock, Texts
  <2>2. ReadFiles(doc) \in Readings(doc)
      BY <2>1, FilesAreRead
  <2>. QED
      BY <1>3, <2>2, RequirementsFirm DEF ReadPypi, Firm
<1>4. CASE doc.format \in {"Pipfile", "pyproject"}
  <2>1. IsFiniteSet(doc.declares)
      BY <1>4 DEF PypiFile, NamedLock
  <2>. QED
      BY <1>4, <2>1, DeclaredFirm DEF ReadPypi, Firm
<1>5. CASE doc.format = "setup.py"
  <2>1. IsList(doc.items)
      BY <1>5 DEF PypiFile, NamedLock
  <2>. QED
      BY <1>5, <2>1, DeclaredFirm DEF ReadPypi, Firm
<1>. QED
    BY <1>1, <1>2, <1>3, <1>4, <1>5 DEF PypiFile

-----------------------------------------------------------------------------
(***************************************************************************)
(* The other ecosystems.                                                   *)
(***************************************************************************)
LEMMA OtherIds ==
    ASSUME NEW doc, NEW name, NEW ver, NEW k
    PROVE  /\ Id(name, k, ver, "none").src \in Sources
           /\ DirRoot(doc).src \in Sources /\ PkgId(doc, k).src \in Sources /\ NuId(name, ver).src \in Sources
           /\ CargoId(k).src \in Sources /\ Id(doc, name, ver, "path").src \in Sources
<1>1. {"none", "path"} \subseteq Classes /\ ClassOr(k.ref, "path") \in Classes
    BY KnownClasses DEF Classes
<1>. QED
    BY <1>1, IdParts DEF DirRoot, PkgId, NuId, CargoId

LEMMA NamesFirm == ASSUME NEW doc, NEW names, IsFiniteSet(names) PROVE Firm(ReadNames(doc, names))
BY OtherIds, OpenFirm DEF ReadNames

LEMMA NameLinksJoin ==
    ASSUME NEW doc, NEW V, NEW e \in NameLinks(doc, V)
    PROVE  {e[1], e[2]} \subseteq {PkgId(doc, doc.packages[i]) : i \in V}
<1>1. PICK i \in V :
          \E f \in Meant(doc.packages, V, doc.packages[i].name) :
              \E n \in doc.packages[i].needs : \E t \in Meant(doc.packages, V, n) :
                  e = <<PkgId(doc, doc.packages[f]), PkgId(doc, doc.packages[t])>>
    BY DEF NameLinks
<1>2. \A n : Meant(doc.packages, V, n) \subseteq V
    BY DEF Meant
<1>. QED
    BY <1>1, <1>2

LEMMA ComposerFirm == ASSUME NEW doc PROVE Firm(ReadComposer(doc))
<1>. DEFINE root   == DirRoot(doc)
            ids    == {PkgId(doc, doc.packages[i]) : i \in HasVersion(doc)}
            links  == NameLinks(doc, HasVersion(doc))
            direct == ids \ {e[2] : e \in links}
            at     == [id \in ids |-> [Plain EXCEPT !.direct = id \in direct, !.class = LastClass(doc, id, "none")]]
            edges  == links \cup {<<root, id>> : id \in direct}
<1>1. ReadComposer(doc) = Graph(Over(Only(root, Plain), at), edges, {root})
    BY DEF ReadComposer
<1>2. Sound(root, Plain)
    BY OtherIds, PlainSound
<1>3. DOMAIN at = ids
    OBVIOUS
<1>5. \A id \in DOMAIN at : Sound(id, at[id])
  <2>1. \A id \in ids : id.src \in Sources
      BY OtherIds
  <2>. HIDE DEF ids, direct
  <2>. QED
      BY <2>1, PlainCount DEF Sound
<1>4. \A e \in edges : {e[1], e[2]} \subseteq {root} \cup ids
  <2>1. \A e \in links : {e[1], e[2]} \subseteq ids
      BY NameLinksJoin
  <2>. HIDE DEF links, ids, root
  <2>. QED
      BY <2>1
<1>. HIDE DEF root, at, edges, ids
<1>. QED
    BY <1>1, <1>2, <1>3, <1>4, <1>5, RootedFirm

LEMMA GemsFirm ==
    ASSUME NEW doc
    PROVE  /\ Firm(ReadGems(doc))
           /\ DOMAIN ReadGems(doc).at = {DirRoot(doc)} \cup {PkgId(doc, doc.packages[i]) : i \in HasVersion(doc)}
<1>. DEFINE root   == DirRoot(doc)
            V      == HasVersion(doc)
            id(i)  == PkgId(doc, doc.packages[i])
            ids    == {id(i) : i \in V}
            meant  == {id(i) : i \in UNION {Meant(doc.packages, V, doc.packages[j].name) : j \in V}}
            links  == NameLinks(doc, V) \cup {<<root, x>> : x \in {y \in meant : y.name \in doc.directs}}
            at     == [x \in ids |-> [Plain EXCEPT !.direct = x.name \in doc.directs, !.class = LastClass(doc, x, "none")]]
            g      == Graph(Over(Only(root, Plain), at), links, {root})
<1>1. ReadGems(doc) = AttachUnneeded(g, root, meant)
    BY DEF ReadGems
<1>2. Sound(root, Plain)
    BY OtherIds, PlainSound
<1>3. DOMAIN at = ids
    OBVIOUS
<1>8. \A x \in DOMAIN at : Sound(x, at[x])
  <2>1. \A x \in ids : x.src \in Sources
      BY OtherIds
  <2>. HIDE DEF ids
  <2>. QED
      BY <2>1, PlainCount DEF Sound
<1>4. meant \subseteq ids
    BY DEF Meant
<1>5. \A e \in links : {e[1], e[2]} \subseteq {root} \cup ids
  <2>1. \A e \in NameLinks(doc, V) : {e[1], e[2]} \subseteq ids
      BY NameLinksJoin
  <2>. HIDE DEF meant, ids, root, V
  <2>. QED
      BY <1>4, <2>1
<1>. HIDE DEF root, at, links, ids, meant
<1>6. Firm(g)
    BY <1>2, <1>3, <1>5, <1>8, RootedFirm
<1>7. DOMAIN g.at = {root} \cup ids
    BY <1>3, Parts DEF Over, Only
<1>. HIDE DEF g
<1>9. Firm(ReadGems(doc)) /\ DOMAIN ReadGems(doc).at = {root} \cup ids
    BY <1>1, <1>4, <1>6, <1>7, AttachedFirm, AttachedNodes
<1>. QED
    BY <1>9 DEF root, ids

LEMMA PackagesLockFirm ==
    ASSUME NEW doc
    PROVE  /\ Firm(ReadPackagesLock(doc))
           /\ DOMAIN ReadPackagesLock(doc).at = {DirRoot(doc)} \cup {SlotId(doc, s) : s \in Slots(doc)}
<1>. DEFINE root  == DirRoot(doc)
            ids   == {SlotId(doc, s) : s \in Slots(doc)}
            own   == {x \in ids : SlotKind(doc, x) = "Direct"}
            needs(s) == UNION {SlotTarget(doc, s[1], d) : d \in doc.frameworks[s[1]][s[2]].needs}
            links == UNION {{<<SlotId(doc, s), to>> : to \in needs(s)} : s \in Slots(doc)}
            at    == [x \in ids |-> [Plain EXCEPT !.direct = x \in own,
                                                  !.class = IF SlotKind(doc, x) = "Project" THEN "path" ELSE "registry"]]
            edges == {e \in links : e[1] # e[2]} \cup {<<root, x>> : x \in own}
            g     == Graph(Over(Only(root, Plain), at), edges, {root})
<1>1. ReadPackagesLock(doc) = AttachUnneeded(g, root, ids)
    BY DEF ReadPackagesLock
<1>2. Sound(root, Plain)
    BY OtherIds, PlainSound DEF root
<1>3. \A x \in ids : x.src \in Sources
    BY OtherIds DEF SlotId
<1>4. \A s \in Slots(doc) : \A d : SlotTarget(doc, s[1], d) \subseteq ids
  <2>1. \A f \in DOMAIN doc.frameworks : \A n : Locks(doc, f, n) => <<f, n>> \in Slots(doc)
      BY DEF Slots, Locks
  <2>2. \A s \in Slots(doc) : s[1] \in DOMAIN doc.frameworks
      BY DEF Slots
  <2>. SUFFICES ASSUME NEW s \in Slots(doc), NEW d PROVE SlotTarget(doc, s[1], d) \subseteq ids
      OBVIOUS
  <2>3. CASE NuId(d[1], d[2]) \in ids
      BY <2>3 DEF SlotTarget
  <2>4. CASE NuId(d[1], d[2]) \notin ids
    <3>1. SlotTarget(doc, s[1], d) \subseteq (IF Locks(doc, s[1], d[1]) THEN {SlotId(doc, <<s[1], d[1]>>)} ELSE {})
        BY <2>4 DEF SlotTarget
    <3>2. Locks(doc, s[1], d[1]) => SlotId(doc, <<s[1], d[1]>>) \in ids
        BY <2>1, <2>2
    <3>. QED
        BY <3>1, <3>2
  <2>. QED
      BY <2>3, <2>4
<1>5. \A e \in links : e[1] \in ids /\ e[2] \in ids
  <2>1. \A s \in Slots(doc) : SlotId(doc, s) \in ids /\ needs(s) \subseteq ids
      BY <1>4
  <2>. HIDE DEF needs, ids
  <2>. QED
      BY <2>1
<1>6. \A x \in DOMAIN at : Sound(x, at[x])
  <2>. HIDE DEF ids, own
  <2>. QED
      BY <1>3, PlainCount DEF Sound
<1>7. DOMAIN at = ids /\ own \subseteq ids
    OBVIOUS
<1>8. \A e \in edges : {e[1], e[2]} \subseteq {root} \cup ids
  <2>. HIDE DEF links, own, ids, root
  <2>. QED
      BY <1>5, <1>7
<1>. HIDE DEF root, at, edges, ids, links, own
<1>9. Firm(g)
    BY <1>2, <1>6, <1>7, <1>8, RootedFirm
<1>10. DOMAIN g.at = {root} \cup ids
    BY <1>7, Parts DEF Over, Only
<1>. HIDE DEF g
<1>11. Firm(ReadPackagesLock(doc)) /\ DOMAIN ReadPackagesLock(doc).at = {root} \cup ids
    BY <1>1, <1>9, <1>10, AttachedFirm, AttachedNodes
<1>. QED
    BY <1>11 DEF root, ids

LEMMA AssetsFirm ==
    ASSUME NEW doc, IsList(doc.frameworks)
    PROVE  /\ Firm(ReadAssets(doc))
           /\ DOMAIN ReadAssets(doc).at \subseteq
                 {DirRoot(doc)} \cup {NuId(p[1], p[2]) : p \in UNION {DOMAIN doc.frameworks[f] : f \in DOMAIN doc.frameworks}}
<1>. DEFINE root     == DirRoot(doc)
            F        == doc.frameworks
            lib(f)   == {p \in DOMAIN F[f] : F[f][p].type = "package"}
            known(f) == UNION {lib(h) : h \in 1..f}
            links    == UNION {UNION {{<<NuId(p[1], p[2]), NuId(d[1], d[2])>> : d \in F[f][p].needs \cap known(f)} :
                                         p \in lib(f)} : f \in DOMAIN F}
            all      == known(Len(F))
            ids      == {NuId(p[1], p[2]) : p \in all}
            at       == [x \in ids |-> [Plain EXCEPT !.class = "registry"]]
            g        == Graph(Over(Only(root, Plain), at), links, {root})
<1>1. ReadAssets(doc) = AttachUnneeded(g, root, ids)
    BY DEF ReadAssets
<1>2. Sound(root, Plain)
  <2>1. root.src \in Sources
      BY OtherIds
  <2>. HIDE DEF root
  <2>. QED
      BY <2>1, PlainCount DEF Sound
<1>3. Len(F) \in Nat /\ DOMAIN F = 1..Len(F)
    BY ListDomain
<1>4. \A f \in DOMAIN F : lib(f) \subseteq all /\ known(f) \subseteq all
  <2>1. \A f \in DOMAIN F : 1..f \subseteq 1..Len(F) /\ f \in 1..Len(F)
    <3>. HIDE DEF F
    <3>. QED
        BY <1>3
  <2>. HIDE DEF lib, F
  <2>. QED
      BY <1>3, <2>1
<1>5. \A e \in links : {e[1], e[2]} \subseteq {root} \cup ids
  <2>. SUFFICES ASSUME NEW e \in links PROVE e[1] \in ids /\ e[2] \in ids
      OBVIOUS
  <2>1. PICK f \in DOMAIN F : \E p \in lib(f) : \E d \in F[f][p].needs \cap known(f) :
            e = <<NuId(p[1], p[2]), NuId(d[1], d[2])>>
    <3>. HIDE DEF lib, known, F
    <3>. QED
        OBVIOUS
  <2>2. PICK p \in all, d \in all : e = <<NuId(p[1], p[2]), NuId(d[1], d[2])>>
    <3>. HIDE DEF lib, known, F, all, links
    <3>. QED
        BY <1>4, <2>1
  <2>. HIDE DEF all, links
  <2>. QED
      BY <2>2
<1>6. \A x \in DOMAIN at : Sound(x, at[x])
  <2>1. \A x \in ids : x.src \in Sources
      BY OtherIds
  <2>. HIDE DEF ids
  <2>. QED
      BY <2>1, PlainCount DEF Sound
<1>7. DOMAIN at = ids
    OBVIOUS
<1>10. all \subseteq UNION {DOMAIN F[f] : f \in DOMAIN F}
  <2>1. \A f \in 1..Len(F) : lib(f) \subseteq DOMAIN F[f]
      OBVIOUS
  <2>. HIDE DEF lib, F
  <2>. QED
      BY <1>3, <2>1
<1>11. ids \subseteq {NuId(p[1], p[2]) : p \in UNION {DOMAIN F[f] : f \in DOMAIN F}}
  <2>. HIDE DEF all, F
  <2>. QED
      BY <1>10
<1>. HIDE DEF root, at, links, ids, all
<1>8. Firm(g)
    BY <1>2, <1>5, <1>6, <1>7, RootedFirm
<1>9. DOMAIN g.at = {root} \cup ids
    BY <1>7, Parts DEF Over, Only
<1>. HIDE DEF g
<1>12. Firm(ReadAssets(doc))
    BY <1>1, <1>8, <1>9, AttachedFirm
<1>13. DOMAIN ReadAssets(doc).at = {root} \cup ids
  <2>1. DOMAIN AttachUnneeded(g, root, ids).at = DOMAIN g.at
      BY ONLY AttachedNodes
  <2>. QED
      BY <1>1, <1>9, <2>1
<1>. QED
    BY <1>11, <1>12, <1>13 DEF root

LEMMA PaketFirm ==
    ASSUME NEW doc
    PROVE  /\ Firm(ReadPaket(doc))
           /\ DOMAIN ReadPaket(doc).at \subseteq {DirRoot(doc)} \cup {PkgId(doc, doc.packages[i]) : i \in HasVersion(doc)}
<1>. DEFINE root  == DirRoot(doc)
            id(i) == PkgId(doc, doc.packages[i])
            V     == {i \in HasVersion(doc) : \A j \in HasVersion(doc) : id(j) = id(i) => i <= j}
            named == UNION {Meant(doc.packages, V, doc.packages[i].name) : i \in V}
            links == UNION {{<<id(f), id(t)>> : f \in Meant(doc.packages, V, doc.packages[i].name),
                                                t \in UNION {Meant(doc.packages, V, n) : n \in doc.packages[i].needs}} :
                               i \in HasVersion(doc)}
            ids   == {id(i) : i \in V}
            among == {id(i) : i \in named}
            at    == [x \in ids |-> [Plain EXCEPT !.class = "registry"]]
            edges == {e \in links : e[1] # e[2]}
            g     == Graph(Over(Only(root, Plain), at), edges, {root})
<1>1. ReadPaket(doc) = AttachUnneeded(g, root, among)
    BY DEF ReadPaket
<1>2. Sound(root, Plain)
  <2>1. root.src \in Sources
      BY OtherIds
  <2>. HIDE DEF root
  <2>. QED
      BY <2>1, PlainCount DEF Sound
<1>3. \A n : Meant(doc.packages, V, n) \subseteq V
    BY DEF Meant
<1>4. among \subseteq ids
  <2>1. named \subseteq V
    <3>. HIDE DEF V
    <3>. QED
        BY <1>3
  <2>. HIDE DEF named, V
  <2>. QED
      BY <2>1
<1>5. \A e \in edges : {e[1], e[2]} \subseteq {root} \cup ids
  <2>1. \A e \in links : \E f \in V, t \in V : e = <<id(f), id(t)>>
    <3>. HIDE DEF V
    <3>. QED
        BY <1>3
  <2>2. \A f \in V : id(f) \in ids
      OBVIOUS
  <2>. HIDE DEF V, links, ids, root
  <2>. QED
      BY <2>1, <2>2
<1>6. \A x \in DOMAIN at : Sound(x, at[x])
  <2>1. \A x \in ids : x.src \in Sources
      BY OtherIds
  <2>. HIDE DEF ids
  <2>. QED
      BY <2>1, PlainCount DEF Sound
<1>7. DOMAIN at = ids
    OBVIOUS
<1>10. ids \subseteq {PkgId(doc, doc.packages[i]) : i \in HasVersion(doc)}
    OBVIOUS
<1>. HIDE DEF root, at, edges, ids, among
<1>8. Firm(g)
    BY <1>2, <1>5, <1>6, <1>7, RootedFirm
<1>9. DOMAIN g.at = {root} \cup ids
    BY <1>7, Parts DEF Over, Only
<1>. HIDE DEF g
<1>11. Firm(ReadPaket(doc)) /\ DOMAIN ReadPaket(doc).at = {root} \cup ids
    BY <1>1, <1>4, <1>8, <1>9, AttachedFirm, AttachedNodes
<1>. QED
    BY <1>10, <1>11 DEF root

LEMMA GoModFirm == ASSUME NEW doc PROVE Firm(ReadGoMod(doc))
<1>. DEFINE root   == Id("gomod", doc.name, "0.0.0", "none")
            id(r)  == Id("gomod", r[1], r[2], "none")
            direct(r) == ~doc.text[Min({i \in Go!RequireLines(doc.text) :
                                           <<doc.text[i].mod, doc.text[i].ver>> = r})].indirect
            R      == Go!Requires(doc.text)
            ids    == {id(r) : r \in R}
            nodes  == [x \in ids |-> [Plain EXCEPT !.direct = direct(<<x.name, x.ver>>)]]
            some   == R # {}
            a      == [Plain EXCEPT !.flat = some]
            edges  == {<<root, id(r)>> : r \in R}
<1>1. ReadGoMod(doc) = Graph(Over(nodes, Only(root, a)), edges, {root})
    BY DEF ReadGoMod
<1>2. root.src \in Sources /\ \A x \in ids : x.src \in Sources
    BY OtherIds
<1>3. Sound(root, a)
  <2>. HIDE DEF some, root
  <2>. QED
      BY <1>2, PlainCount DEF Sound
<1>4. DOMAIN nodes = ids
    OBVIOUS
<1>5. \A x \in DOMAIN nodes : Sound(x, nodes[x])
  <2>. HIDE DEF ids
  <2>. QED
      BY <1>2, PlainCount DEF Sound
<1>6. \A e \in edges : {e[1], e[2]} \subseteq {root} \cup ids
  <2>. HIDE DEF R, root
  <2>. QED
      OBVIOUS
<1>. HIDE DEF root, nodes, edges, ids, a
<1>. QED
    BY <1>1, <1>3, <1>4, <1>5, <1>6, RootedFirm

LEMMA ClojureFirm ==
    ASSUME NEW doc, IsFiniteSet(doc.declares), doc.unparsed \in Nat
    PROVE  Firm(ReadClojure(doc))
<1>. DEFINE root  == Id("maven", doc.name, doc.ver, "none")
            closed == doc.declares \ OpenIn(doc)
            id(d) == Id("maven", d.name, d.ver, "none")
            names == {d.name : d \in OpenIn(doc)}
            source(x) == (CHOOSE d \in doc.declares : id(d) = x).source
            ids   == {id(d) : d \in closed}
            count == Cardinality(names) + doc.unparsed
            a     == [Plain EXCEPT !.open = names, !.count = count, !.flat = TRUE]
            nodes == [x \in ids |-> [Plain EXCEPT !.direct = TRUE, !.class = source(x)]]
            edges == {<<root, id(d)>> : d \in closed}
<1>1. ReadClojure(doc) = Graph(Over(nodes, Only(root, a)), edges, {root})
    BY DEF ReadClojure
<1>2. root.src \in Sources /\ \A x \in ids : x.src \in Sources
    BY OtherIds
<1>3. count \in Nat
  <2>. DEFINE S == OpenIn(doc)
              h == [d \in S |-> d.name]
  <2>1. IsFiniteSet(S)
      BY FS_Subset DEF OpenIn
  <2>2. names = {h[d] : d \in DOMAIN h} /\ DOMAIN h = S
      OBVIOUS
  <2>. HIDE DEF S, h
  <2>3. IsFiniteSet(names)
      BY <2>1, <2>2, FiniteValues
  <2>. HIDE DEF names
  <2>. QED
      BY <2>3, FS_CardinalityType
<1>4. Sound(root, a)
  <2>. HIDE DEF names, root, count
  <2>. QED
      BY <1>2, <1>3 DEF Plain, Sound
<1>5. DOMAIN nodes = ids
    OBVIOUS
<1>6. \A x \in DOMAIN nodes : Sound(x, nodes[x])
  <2>. HIDE DEF ids
  <2>. QED
      BY <1>2, PlainCount DEF Sound
<1>7. \A e \in edges : {e[1], e[2]} \subseteq {root} \cup ids
  <2>. HIDE DEF closed, root
  <2>. QED
      OBVIOUS
<1>. HIDE DEF root, nodes, edges, ids, a
<1>. QED
    BY <1>1, <1>4, <1>5, <1>6, <1>7, RootedFirm

LEMMA ReferencesFinite ==
    ASSUME NEW files, IsFiniteSet(DOMAIN files), \A k \in DOMAIN files : IsList(files[k].refs)
    PROVE  IsFiniteSet(References(files))
<1>. DEFINE f == [k \in DOMAIN files |-> {k} \X DOMAIN files[k].refs]
<1>1. \A k \in DOMAIN files : IsFiniteSet({k} \X DOMAIN files[k].refs)
  <2>. SUFFICES ASSUME NEW k \in DOMAIN files PROVE IsFiniteSet({k} \X DOMAIN files[k].refs)
      OBVIOUS
  <2>. DEFINE s == files[k].refs
  <2>1. IsList(s)
      OBVIOUS
  <2>. HIDE DEF s
  <2>2. IsFiniteSet({k}) /\ IsFiniteSet(DOMAIN s)
      BY <2>1, ListDomain, FS_Singleton
  <2>3. IsFiniteSet({k} \X DOMAIN s)
      BY <2>2, FS_Product
  <2>. QED
      BY <2>3 DEF s
<1>2. DOMAIN f = DOMAIN files /\ \A k \in DOMAIN f : IsFiniteSet(f[k])
    BY <1>1
<1>3. References(files) = UNION {f[k] : k \in DOMAIN f}
    BY DEF References
<1>. HIDE DEF f
<1>. QED
    BY <1>2, <1>3, FiniteUnion

LEMMA ListsJoin ==
    ASSUME NEW s, NEW t, IsList(s), IsList(t)
    PROVE  IsFiniteSet(DOMAIN (s \o t)) /\ IsList(s \o t)
<1>. DEFINE S == {s[k] : k \in DOMAIN s}
            T == {t[k] : k \in DOMAIN t}
            U == S \cup T
<1>1. s \in Seq(S) /\ t \in Seq(T) /\ S \subseteq U /\ T \subseteq U
    BY DEF IsList
<1>. HIDE DEF S, T, U
<1>2. s \in Seq(U) /\ t \in Seq(U)
    BY <1>1
<1>3. s \o t \in Seq(U)
    BY <1>2
<1>. DEFINE j == s \o t
<1>4. j \in Seq(U)
    BY <1>3
<1>. HIDE DEF j
<1>5. Len(j) \in Nat /\ DOMAIN j = 1..Len(j)
    BY <1>4
<1>6. IsFiniteSet(DOMAIN j)
    BY <1>5, FS_Interval
<1>7. IsList(j)
  <2>. DEFINE V == {j[k] : k \in DOMAIN j}
  <2>1. j = [k \in 1..Len(j) |-> j[k]] /\ \A k \in 1..Len(j) : j[k] \in V
      BY <1>4, <1>5
  <2>2. j \in Seq(V)
    <3>. HIDE DEF V
    <3>. QED
        BY <1>4, <1>5, <2>1
  <2>. QED
      BY <2>2 DEF IsList
<1>. QED
    BY <1>6, <1>7 DEF j

LEMMA ReferencesRead ==
    ASSUME NEW doc, IsList(doc.above), IsList(doc.own), IsList(doc.tools),
           \A k \in DOMAIN InReadingOrder(doc) : IsList(InReadingOrder(doc)[k].refs)
    PROVE  IsFiniteSet(References(InReadingOrder(doc)))
<1>. DEFINE files == InReadingOrder(doc)
<1>1. IsFiniteSet(DOMAIN files)
  <2>. DEFINE u == doc.above
              v == doc.own
              w == doc.tools
  <2>1. IsList(u) /\ IsList(v) /\ IsList(w)
      OBVIOUS
  <2>2. files = (u \o v) \o w
      BY DEF InReadingOrder
  <2>. HIDE DEF u, v, w, files
  <2>3. IsList(u \o v)
      BY <2>1, ListsJoin
  <2>. QED
      BY <2>1, <2>2, <2>3, ListsJoin
<1>2. \A k \in DOMAIN files : IsList(files[k].refs)
    OBVIOUS
<1>. HIDE DEF files
<1>3. IsFiniteSet(References(files))
    BY <1>1, <1>2, ReferencesFinite
<1>. QED
    BY <1>3 DEF files

LEMMA ProjectFilesFirm ==
    ASSUME NEW doc, IsList(doc.above), IsList(doc.own), IsList(doc.tools),
           \A k \in DOMAIN InReadingOrder(doc) : IsList(InReadingOrder(doc)[k].refs)
    PROVE  Firm(ReadProjectFiles(doc))
<1>. DEFINE root   == DirRoot(doc)
            files  == InReadingOrder(doc)
            name(r) == files[r[1]].refs[r[2]].name
            ver(r)  == Concrete(files, r[1], files[r[1]].refs[r[2]])
            pinned == {r \in References(files) : ver(r) # NoVersion}
            open   == References(files) \ pinned
            ids    == ConfigPackages(doc) \cup {NuId(name(r), ver(r)) : r \in pinned}
            names  == {name(r) : r \in open}
            flat   == doc.msbuild
            count  == Cardinality(open)
            a      == [Plain EXCEPT !.open = names, !.count = count, !.flat = flat]
            at     == [x \in ids |-> [Plain EXCEPT !.direct = TRUE, !.class = "registry"]]
            edges  == {<<root, x>> : x \in ids}
<1>1. ReadProjectFiles(doc) = Graph(Over(Only(root, a), at), edges, {root})
    BY DEF ReadProjectFiles
<1>2. root.src \in Sources /\ \A x \in ids : x.src \in Sources
  <2>1. \A x \in ConfigPackages(doc) : x.src \in Sources
      BY OtherIds DEF ConfigPackages
  <2>. QED
      BY <2>1, OtherIds
<1>3. count \in Nat
  <2>. DEFINE all == References(files)
  <2>1. IsFiniteSet(all)
      BY ReferencesRead
  <2>2. open \subseteq all
      OBVIOUS
  <2>. HIDE DEF open, all
  <2>. QED
      BY <2>1, <2>2, FS_Subset, FS_CardinalityType
<1>4. Sound(root, a)
  <2>. HIDE DEF names, root, count, flat
  <2>. QED
      BY <1>2, <1>3 DEF Plain, Sound
<1>5. DOMAIN at = ids
    OBVIOUS
<1>6. \A x \in DOMAIN at : Sound(x, at[x])
  <2>. HIDE DEF ids
  <2>. QED
      BY <1>2, PlainCount DEF Sound
<1>7. \A e \in edges : {e[1], e[2]} \subseteq {root} \cup ids
  <2>. HIDE DEF ids, root
  <2>. QED
      OBVIOUS
<1>. HIDE DEF root, at, edges, ids, a
<1>. QED
    BY <1>1, <1>4, <1>5, <1>6, <1>7, RootedFirm

LEMMA CargoFirm ==
    ASSUME NEW doc, IsList(doc.packages), doc.packages # <<>>, doc.packages[1].ver # NoVersion,
           \A i \in DOMAIN doc.packages : IsFiniteSet(doc.packages[i].needs)
    PROVE  Firm(ReadCargo(doc)) /\ Tame(ReadCargo(doc))
<1>. DEFINE K        == Keys(doc)
            ids      == {CargoId(k) : k \in K}
            E        == {doc.packages[i] : i \in {j \in DOMAIN doc.packages : doc.packages[j].ver # NoVersion}}
            wants(id) == UNION {e.needs : e \in {x \in E : CargoId(x) = id}}
            edges    == {e \in UNION {{<<id, to>> : to \in UNION {ResolveDep(doc, d) : d \in wants(id)}} : id \in ids} :
                            e[1] # e[2]}
            lost(id) == {d.name : d \in {w \in wants(id) : /\ ResolveDep(doc, w) = {}
                                                           /\ Cardinality({k \in K : k.name = w.name}) > 1}}
            collided == {id \in ids : \E i, j \in DOMAIN doc.packages :
                            /\ i # j /\ CargoId(doc.packages[i]) = id
                            /\ \A f \in {"name", "ver", "ref"} : doc.packages[i][f] = doc.packages[j][f]}
            class(id) == IF id \in collided THEN "unknown"
                         ELSE ClassOr((CHOOSE k \in K : CargoId(k) = id).ref, "path")
            local    == {CargoId(k) : k \in {c \in K : c.ref = Empty}}
            roots    == CargoRoots(doc, ids, local, edges, collided)
            direct   == {e[2] : e \in {x \in edges : x[1] \in roots}}
            at       == [id \in ids |-> [Leaves(lost(id)) EXCEPT !.class = class(id), !.direct = id \in direct]]
            g        == Graph(at, edges, roots)
            new      == [id \in roots |-> [id EXCEPT !.src = "registry"]]
<1>1. ReadCargo(doc) = Rename(g, new)
    BY DEF ReadCargo
<1>2. Len(doc.packages) \in Nat \ {0} /\ DOMAIN doc.packages = 1..Len(doc.packages) /\ IsFiniteSet(DOMAIN doc.packages)
  <2>. DEFINE s == doc.packages
  <2>1. s \in Seq({s[k] : k \in DOMAIN s}) /\ s # <<>>
      BY DEF IsList
  <2>. DEFINE S == {s[k] : k \in DOMAIN s}
  <2>2. s \in Seq(S) /\ s # <<>>
      BY <2>1
  <2>. HIDE DEF s, S
  <2>3. Len(s) # 0
      BY <2>2
  <2>. QED
      BY <2>3, ListDomain DEF s
<1>3. IsFiniteSet(E) /\ \A e \in E : IsFiniteSet(e.needs)
  <2>. DEFINE I == {j \in DOMAIN doc.packages : doc.packages[j].ver # NoVersion}
              h == [i \in I |-> doc.packages[i]]
  <2>1. IsFiniteSet(I)
      BY <1>2, FS_Subset
  <2>2. E = {h[x] : x \in DOMAIN h} /\ DOMAIN h = I
      OBVIOUS
  <2>3. \A e \in E : IsFiniteSet(e.needs)
      OBVIOUS
  <2>. HIDE DEF I, h, E
  <2>. QED
      BY <2>1, <2>2, <2>3, FiniteValues
<1>4. IsFiniteSet(ids)
  <2>. DEFINE h == [e \in E |-> [name |-> e.name, ver |-> e.ver, ref |-> e.ref]]
              c == [k \in K |-> CargoId(k)]
  <2>1. K = {h[x] : x \in DOMAIN h} /\ DOMAIN h = E
      BY DEF Keys
  <2>2. ids = {c[x] : x \in DOMAIN c} /\ DOMAIN c = K
      OBVIOUS
  <2>. HIDE DEF h, c, K, E, ids
  <2>3. IsFiniteSet(K)
      BY <1>3, <2>1, FiniteValues
  <2>. QED
      BY <2>2, <2>3, FiniteValues
<1>5. CargoId(doc.packages[1]) \in ids
  <2>. DEFINE e == doc.packages[1]
              k == [name |-> e.name, ver |-> e.ver, ref |-> e.ref]
  <2>1. 1 \in DOMAIN doc.packages
      BY <1>2
  <2>2. k \in K
      BY <2>1 DEF Keys
  <2>3. CargoId(e) = CargoId(k)
      BY DEF CargoId
  <2>. HIDE DEF e, k, K
  <2>4. CargoId(e) \in ids
      BY <2>2, <2>3
  <2>. QED
      BY <2>4 DEF e
<1>6. roots \subseteq ids /\ roots # {}
  <2>1. local \subseteq ids
      OBVIOUS
  <2>. HIDE DEF local, ids, edges, collided
  <2>. QED
      BY <1>5, <2>1 DEF CargoRoots
<1>7. \A e \in edges : e[1] \in ids /\ e[2] \in ids
  <2>1. \A d : ResolveDep(doc, d) \subseteq ids
      BY DEF ResolveDep, Candidates
  <2>. HIDE DEF ids, wants
  <2>. QED
      BY <2>1
<1>8. ASSUME NEW id PROVE IsFiniteSet(lost(id))
  <2>. DEFINE S == {x \in E : CargoId(x) = id}
              f == [e \in S |-> e.needs]
              W == {w \in wants(id) : /\ ResolveDep(doc, w) = {}
                                      /\ Cardinality({k \in K : k.name = w.name}) > 1}
              h == [w \in W |-> w.name]
  <2>1. IsFiniteSet(S)
    <3>1. S \subseteq E
        OBVIOUS
    <3>. HIDE DEF S, E
    <3>. QED
        BY <1>3, <3>1, FS_Subset
  <2>2. wants(id) = UNION {f[x] : x \in DOMAIN f} /\ DOMAIN f = S
      OBVIOUS
  <2>3. \A e \in S : IsFiniteSet(f[e])
    <3>. HIDE DEF E
    <3>. QED
        BY <1>3
  <2>4. lost(id) = {h[x] : x \in DOMAIN h} /\ DOMAIN h = W /\ W \subseteq wants(id)
      OBVIOUS
  <2>. HIDE DEF S, f, h, W
  <2>5. IsFiniteSet(wants(id))
    <3>. HIDE DEF wants
    <3>. QED
        BY <2>1, <2>2, <2>3, FiniteUnion
  <2>. HIDE DEF wants, lost
  <2>6. IsFiniteSet(W)
      BY <2>4, <2>5, FS_Subset
  <2>. QED
      BY <2>4, <2>6, FiniteValues
<1>9. DOMAIN at = ids
    OBVIOUS
<1>10. \A id \in ids : id.src \in Sources
    BY OtherIds
<1>11. \A id \in DOMAIN at : Sound(id, at[id])
  <2>1. \A id \in ids : Leaves(lost(id)).count \in Nat /\ "count" \in DOMAIN Leaves(lost(id))
      BY <1>8, LeavesCount
  <2>. HIDE DEF ids, direct
  <2>. QED
      BY <1>10, <2>1 DEF Sound
<1>12. \A id \in DOMAIN new : new[id].src \in Sources /\ new[id].eco \notin Notes
  <2>1. \A id \in ids : "src" \in DOMAIN id /\ [id EXCEPT !.src = "registry"].eco \notin Notes
      BY DEF CargoId, Id, Notes
  <2>2. "registry" \in Sources
      BY DEF Sources
  <2>3. \A id \in ids : "src" \in DOMAIN id => [id EXCEPT !.src = "registry"].src = "registry"
      OBVIOUS
  <2>. HIDE DEF ids, roots
  <2>. QED
      BY <1>6, <2>1, <2>2, <2>3
<1>14. \A id \in ids : id.eco \notin Notes
    BY DEF CargoId, Id, Notes
<1>. HIDE DEF at, edges, roots, ids, new
<1>13. Firm(g)
  <2>1. IsFiniteSet(roots)
      BY <1>4, <1>6, FS_Subset
  <2>2. \A e \in edges : Joins(at, e)
      BY <1>7, <1>9 DEF Joins
  <2>. QED
      BY <1>6, <1>9, <1>11, <2>1, <2>2, BuiltFirm
<1>15. Tame(g)
  <2>1. DOMAIN g.at = ids
      BY <1>9 DEF Graph
  <2>. QED
      BY <1>4, <1>14, <2>1 DEF Tame
<1>. HIDE DEF g
<1>. QED
    BY <1>1, <1>12, <1>13, <1>15, RenamedFirm, RenamedTame

OtherFormat ==
    {"Cargo.lock", "composer.lock", "composer.json", "Gemfile.lock", "Gemfile", "packages.lock.json",
     "project.assets.json", "paket.lock", "project-files", "go.mod", "clj"}

LEMMA KnownFormats ==
    ASSUME NEW doc, doc.eco \in DOMAIN OtherFormats, OtherFile(doc)
    PROVE  doc.format \in OtherFormat
<1>1. PICK k \in DOMAIN OtherFormats[doc.eco] : OtherFormats[doc.eco][k] = doc.format
    BY DEF OtherFile
<1>2. doc.eco \in {"cargo", "composer", "gem", "nuget", "gomod", "clojure"}
    BY DEF OtherFormats
<1>. QED
    BY <1>1, <1>2 DEF OtherFormats, OtherFormat

LEMMA OtherWhole ==
    ASSUME NEW doc, doc.eco \in DOMAIN OtherFormats, OtherFile(doc), ~OtherFails(doc)
    PROVE  Whole(ReadOther(doc))
<1>1. CASE doc.format = "Cargo.lock"
  <2>1. /\ IsList(doc.packages) /\ (doc.packages # <<>> => doc.packages[1].ver # NoVersion)
        /\ \A i \in DOMAIN doc.packages : IsFiniteSet(doc.packages[i].needs)
      BY <1>1 DEF OtherFile
  <2>2. doc.packages # <<>>
      BY <1>1 DEF OtherFails
  <2>3. ReadOther(doc) = ReadCargo(doc)
      BY <1>1 DEF ReadOther
  <2>. QED
      BY <2>1, <2>2, <2>3, CargoFirm DEF Firm
<1>2. CASE doc.format \in {"composer.lock", "Gemfile.lock", "packages.lock.json", "paket.lock", "go.mod"}
    BY <1>2, ComposerFirm, GemsFirm, PackagesLockFirm, PaketFirm, GoModFirm DEF ReadOther, Firm
<1>3. CASE doc.format = "project.assets.json"
  <2>1. IsList(doc.frameworks)
      BY <1>3 DEF OtherFile
  <2>. QED
      BY <1>3, <2>1, AssetsFirm DEF ReadOther, Firm
<1>4. CASE doc.format = "project-files"
  <2>1. /\ IsList(doc.above) /\ IsList(doc.own) /\ IsList(doc.tools)
        /\ \A k \in DOMAIN InReadingOrder(doc) : IsList(InReadingOrder(doc)[k].refs)
      BY <1>4 DEF OtherFile
  <2>2. ReadOther(doc) = ReadProjectFiles(doc)
      BY <1>4 DEF ReadOther
  <2>. QED
      BY <2>1, <2>2, ProjectFilesFirm DEF Firm
<1>5. CASE doc.format = "clj"
  <2>1. IsFiniteSet(doc.declares) /\ doc.unparsed \in Nat
      BY <1>5 DEF OtherFile
  <2>. QED
      BY <1>5, <2>1, ClojureFirm DEF ReadOther, Firm
<1>6. CASE doc.format \in {"composer.json", "Gemfile"}
  <2>1. IsFiniteSet(doc.names)
      BY <1>6 DEF OtherFile
  <2>2. IsFiniteSet(doc.names \ doc.platform)
      BY <2>1, FS_Subset
  <2>. QED
      BY <1>6, <2>1, <2>2, NamesFirm DEF ReadOther, ReadComposerManifest, ReadGemfile, Firm
<1>. QED
  <2>1. doc.format \in OtherFormat
      BY KnownFormats
  <2>. QED
      BY <1>1, <1>2, <1>3, <1>4, <1>5, <1>6, <2>1 DEF OtherFormat

-----------------------------------------------------------------------------
(***************************************************************************)
(* What is read has finitely many nodes, none of which passes for a note   *)
(* of what was not read.                                                   *)
(***************************************************************************)
LEMMA NpmTame == ASSUME NEW doc, NpmFile(doc) PROVE Tame(ReadNpm(doc))
<1>. DEFINE root == NpmRoot(doc)
<1>1. ASSUME NEW name, NEW ver, NEW class PROVE NpmId(name, ver, class).eco \notin Notes
    BY IdParts DEF NpmId, Notes
<1>2. root.eco \notin Notes
    BY <1>1 DEF NpmRoot
<1>3. CASE doc.format = "package-lock" /\ doc.layout = 1
  <2>. DEFINE walked == {p \in DOMAIN doc.at : \A k \in 1..Len(p) : doc.at[Leading(p, k)].ver # NoVersion}
              ids == [p \in walked |-> IF p = <<>> THEN root ELSE NpmId(Last(p), doc.at[p].ver, "none")]
  <2>1. IsFiniteSet(DOMAIN ids) /\ \A p \in DOMAIN ids : ids[p].eco \notin Notes
      BY <1>1, <1>2, <1>3, FS_Subset DEF NpmFile
  <2>2. DOMAIN ReadTree(doc).at = {root} \cup {ids[p] : p \in DOMAIN ids}
      BY DEF ReadTree, Graph, Over, Only
  <2>. HIDE DEF ids, root
  <2>. QED
      BY <1>2, <1>3, <2>1, <2>2, NodesTame DEF ReadNpm
<1>4. CASE doc.format = "package-lock" /\ doc.layout # 1
  <2>. DEFINE kept == {p \in DOMAIN doc.at : EntryName(doc, p) # Empty /\ doc.at[p].ver # NoVersion}
              ids == [p \in kept |-> EntryId(doc, p)]
  <2>1. IsFiniteSet(DOMAIN ids) /\ \A p \in DOMAIN ids : ids[p].eco \notin Notes
      BY <1>1, <1>4, FS_Subset DEF NpmFile, EntryId
  <2>2. DOMAIN ReadPackages(doc).at = {root} \cup {ids[p] : p \in DOMAIN ids}
      BY DEF ReadPackages, Graph, Over, Only
  <2>. HIDE DEF ids, root
  <2>. QED
      BY <1>2, <1>4, <2>1, <2>2, NodesTame DEF ReadNpm
<1>5. CASE doc.format = "pnpm"
  <2>. DEFINE ids == [p \in doc.packages |-> NpmId(p[1], p[2], "registry")]
  <2>1. IsFiniteSet(DOMAIN ids) /\ \A p \in DOMAIN ids : ids[p].eco \notin Notes
      BY <1>1, <1>5 DEF NpmFile
  <2>3. {ids[p] : p \in DOMAIN ids} = {NpmId(p[1], p[2], "registry") : p \in doc.packages}
      OBVIOUS
  <2>2. DOMAIN ReadPnpm(doc).at = {root} \cup {ids[p] : p \in DOMAIN ids}
    <3>. HIDE DEF ids
    <3>. QED
        BY <2>3, PnpmFirm
  <2>. HIDE DEF ids, root
  <2>. QED
      BY <1>2, <1>5, <2>1, <2>2, NodesTame DEF ReadNpm
<1>6. CASE doc.format = "yarn"
  <2>. DEFINE ids == [i \in YarnEntries(doc) |-> YarnId(doc.entries[i])]
  <2>1. IsFiniteSet(DOMAIN ids) /\ \A i \in DOMAIN ids : ids[i].eco \notin Notes
      BY <1>1, <1>6, ListDomain, FS_Subset DEF NpmFile, YarnEntries, YarnId
  <2>2. DOMAIN ReadYarn(doc).at = {root} \cup {ids[i] : i \in DOMAIN ids}
      BY <1>6, YarnFirm DEF NpmFile
  <2>. HIDE DEF ids, root
  <2>. QED
      BY <1>2, <1>6, <2>1, <2>2, NodesTame DEF ReadNpm
<1>7. CASE doc.format = "bun"
  <2>. DEFINE own == NpmId(doc.name, "0.0.0", "none")
              ids == [p \in DOMAIN doc.at |-> BunId(doc.at[p])]
  <2>1. IsFiniteSet(DOMAIN ids) /\ \A p \in DOMAIN ids : ids[p].eco \notin Notes
      BY <1>1, <1>7 DEF NpmFile, BunId
  <2>2. DOMAIN ReadBun(doc).at = {own} \cup {ids[p] : p \in DOMAIN ids}
      BY DEF ReadBun, Graph, Over, Only
  <2>3. own.eco \notin Notes
      BY <1>1
  <2>. HIDE DEF ids, own
  <2>. QED
      BY <1>7, <2>1, <2>2, <2>3, NodesTame DEF ReadNpm
<1>8. CASE doc.format = "package.json"
  <2>1. DOMAIN ReadManifest(doc).at = {root}
      BY DEF ReadManifest, Graph, Only
  <2>. QED
      BY <1>2, <1>8, <2>1, FS_Singleton DEF ReadNpm, Tame
<1>. QED
    BY <1>3, <1>4, <1>5, <1>6, <1>7, <1>8 DEF NpmFile

LEMMA PypiTame == ASSUME NEW doc, PypiFile(doc) PROVE Tame(ReadPypi(doc))
<1>. DEFINE root == PyRoot(doc)
            entries == [i \in Versioned(doc) |-> EntryAt(doc, i)]
<1>1. ASSUME NEW name, NEW ver PROVE PyId(name, ver).eco \notin Notes
    BY IdParts DEF PyId, Notes
<1>2. root.eco \notin Notes /\ \A i \in DOMAIN entries : entries[i].eco \notin Notes
    BY <1>1 DEF PyRoot, EntryAt
<1>3. ASSUME IsList(doc.packages) PROVE IsFiniteSet(DOMAIN entries)
    BY <1>3, ListDomain, FS_Subset DEF Versioned
<1>4. CASE doc.format = "uv"
  <2>1. IsFiniteSet(DOMAIN entries)
      BY <1>3, <1>4 DEF PypiFile, PyList
  <2>2. PICK name, ver : DOMAIN ReadUv(doc).at = {PyId(name, ver)} \cup {entries[i] : i \in DOMAIN entries}
      BY <1>4, UvFirm DEF PypiFile, NamedLock
  <2>3. PyId(name, ver).eco \notin Notes
      BY <1>1
  <2>. HIDE DEF entries
  <2>. QED
      BY <1>2, <1>4, <2>1, <2>2, <2>3, NodesTame DEF ReadPypi
<1>5. ASSUME NEW scanned, PyList(doc), \A i \in DOMAIN doc.packages : IsFiniteSet(scanned[i].deps)
      PROVE  Tame(ReadNamed(doc, scanned))
  <2>1. IsFiniteSet(DOMAIN entries)
      BY <1>3, <1>5 DEF PyList
  <2>2. DOMAIN ReadNamed(doc, scanned).at = {root} \cup {entries[i] : i \in DOMAIN entries}
      BY <1>5, NamedFirm DEF PyList
  <2>. HIDE DEF entries, root
  <2>. QED
      BY <1>2, <2>1, <2>2, NodesTame
<1>6. CASE doc.format \in NamedLock
  <2>1. PyList(doc) /\ \A i \in DOMAIN doc.packages : \A t : IsFiniteSet(Part(doc.packages[i], t))
    <3>1. PyList(doc)
        BY <1>6 DEF PypiFile, NamedLock
    <3>. QED
        BY <3>1, PartFinite DEF PyList
  <2>2. CASE doc.format = "poetry"
    <3>. DEFINE s == [i \in DOMAIN doc.packages |-> ScanPoetry(doc.packages[i])]
    <3>1. \A i \in DOMAIN doc.packages : IsFiniteSet(s[i].deps)
        BY <2>1 DEF ScanPoetry
    <3>2. ReadPypi(doc) = ReadNamed(doc, s)
        BY <2>2 DEF ReadPypi, ReadPoetry
    <3>. HIDE DEF s
    <3>. QED
        BY <1>5, <2>1, <3>1, <3>2
  <2>4. CASE doc.format = "pdm"
    <3>. DEFINE s == [i \in DOMAIN doc.packages |-> ScanPdm(doc.packages[i])]
    <3>1. \A i \in DOMAIN doc.packages : IsFiniteSet(s[i].deps)
        BY <2>1 DEF ScanPdm
    <3>2. ReadPypi(doc) = ReadNamed(doc, s)
        BY <2>4 DEF ReadPypi, ReadPdm
    <3>. HIDE DEF s
    <3>. QED
        BY <1>5, <2>1, <3>1, <3>2
  <2>3. CASE doc.format = "pylock"
    <3>. DEFINE s == [i \in DOMAIN doc.packages |-> ScanPylock(doc.packages[i])]
                h == ReadNamed(doc, s)
    <3>1. \A i \in DOMAIN doc.packages : IsFiniteSet(s[i].deps)
        BY <2>1 DEF ScanPylock
    <3>2. ReadPypi(doc) = IF \A e \in h.edges : e[1] \in h.roots
                          THEN Graph([h.at EXCEPT ![PyRoot(doc)].flat = TRUE], h.edges, h.roots) ELSE h
        BY <2>3 DEF ReadPypi, ReadPylock
    <3>3. Tame(h)
      <4>. HIDE DEF s
      <4>. QED
          BY <1>5, <2>1, <3>1
    <3>. HIDE DEF h
    <3>. QED
        BY <3>2, <3>3 DEF Graph, Tame
  <2>. QED
      BY <1>6, <2>2, <2>3, <2>4 DEF NamedLock
<1>7. CASE doc.format = "pipfile"
  <2>1. IsFiniteSet(DOMAIN entries)
      BY <1>3, <1>7 DEF PypiFile, NamedLock
  <2>2. DOMAIN ReadPipfile(doc).at = {root} \cup {entries[i] : i \in DOMAIN entries}
      BY DEF ReadPipfile, Graph, Over, Only
  <2>. HIDE DEF entries, root
  <2>. QED
      BY <1>2, <1>7, <2>1, <2>2, NodesTame DEF ReadPypi
<1>8. CASE doc.format = "requirements"
  <2>1. ReadFiles(doc) \in Readings(doc)
      BY <1>8, FilesAreRead DEF PypiFile, NamedLock, Texts
  <2>. QED
      BY <1>8, <2>1, RequirementsFirm DEF ReadPypi
<1>9. CASE doc.format \in {"Pipfile", "pyproject", "setup.py"}
  <2>1. \A names : DOMAIN ReadDeclared(doc, names).at = {root}
      BY DEF ReadDeclared, Graph, Only
  <2>2. DOMAIN ReadPypi(doc).at = {root}
      BY <1>9, <2>1 DEF ReadPypi
  <2>. QED
      BY <1>2, <2>2, FS_Singleton DEF Tame
<1>. QED
    BY <1>4, <1>6, <1>7, <1>8, <1>9 DEF PypiFile

LEMMA ListedTame ==
    ASSUME NEW doc, doc.eco \notin Notes, IsList(doc.packages)
    PROVE  Tame(ReadComposer(doc)) /\ Tame(ReadGems(doc)) /\ Tame(ReadPaket(doc))
<1>. DEFINE root == DirRoot(doc)
            ids == [i \in HasVersion(doc) |-> PkgId(doc, doc.packages[i])]
<1>1. IsFiniteSet(DOMAIN ids)
    BY ListDomain, FS_Subset DEF HasVersion
<1>2. root.eco \notin Notes /\ \A i \in DOMAIN ids : ids[i].eco \notin Notes
    BY IdParts DEF DirRoot, PkgId
<1>3. DOMAIN ReadComposer(doc).at = {root} \cup {ids[i] : i \in DOMAIN ids}
    BY DEF ReadComposer, Graph, Over, Only
<1>4. DOMAIN ReadGems(doc).at = {root} \cup {ids[i] : i \in DOMAIN ids}
    BY GemsFirm
<1>5. DOMAIN ReadPaket(doc).at \subseteq {root} \cup {ids[i] : i \in DOMAIN ids}
    BY PaketFirm
<1>. HIDE DEF ids, root
<1>. QED
    BY <1>1, <1>2, <1>3, <1>4, <1>5, NodesTame

LEMMA FrameworksTame ==
    ASSUME NEW doc, doc.eco \notin Notes, IsList(doc.frameworks),
           \A f \in DOMAIN doc.frameworks : IsFiniteSet(DOMAIN doc.frameworks[f])
    PROVE  Tame(ReadPackagesLock(doc)) /\ Tame(ReadAssets(doc))
<1>. DEFINE root == DirRoot(doc)
            F == doc.frameworks
<1>1. root.eco \notin Notes /\ \A name, ver : NuId(name, ver).eco \notin Notes
    BY IdParts DEF DirRoot, NuId, Notes
<1>2. Len(F) \in Nat /\ DOMAIN F = 1..Len(F) /\ IsFiniteSet(DOMAIN F)
    BY ListDomain
<1>3. Tame(ReadPackagesLock(doc))
  <2>. DEFINE ids == [s \in Slots(doc) |-> SlotId(doc, s)]
              of == [f \in DOMAIN F |-> {f} \X DOMAIN F[f]]
  <2>1. IsFiniteSet(UNION {of[f] : f \in DOMAIN of})
    <3>1. DOMAIN of = DOMAIN F /\ \A f \in DOMAIN of : IsFiniteSet(of[f])
        BY FS_Singleton, FS_Product
    <3>. HIDE DEF of
    <3>. QED
        BY <1>2, <3>1, FiniteUnion
  <2>2. Slots(doc) \subseteq UNION {of[f] : f \in DOMAIN of}
      BY DEF Slots
  <2>. HIDE DEF of
  <2>3. IsFiniteSet(DOMAIN ids) /\ \A s \in DOMAIN ids : ids[s].eco \notin Notes
      BY <1>1, <2>1, <2>2, FS_Subset DEF SlotId
  <2>4. DOMAIN ReadPackagesLock(doc).at = {root} \cup {ids[s] : s \in DOMAIN ids}
      BY PackagesLockFirm
  <2>. HIDE DEF ids, root
  <2>. QED
      BY <1>1, <2>3, <2>4, NodesTame
<1>4. Tame(ReadAssets(doc))
  <2>. DEFINE of == [f \in DOMAIN F |-> DOMAIN F[f]]
  <2>1. IsFiniteSet(UNION {of[f] : f \in DOMAIN of})
    <3>1. DOMAIN of = DOMAIN F /\ \A f \in DOMAIN of : IsFiniteSet(of[f])
        OBVIOUS
    <3>. HIDE DEF of
    <3>. QED
        BY <1>2, <3>1, FiniteUnion
  <2>. DEFINE all == UNION {of[f] : f \in DOMAIN of}
              ids == [p \in all |-> NuId(p[1], p[2])]
  <2>3. all = UNION {DOMAIN F[f] : f \in DOMAIN F} /\ {ids[p] : p \in DOMAIN ids} = {NuId(p[1], p[2]) : p \in all}
      OBVIOUS
  <2>4. DOMAIN ReadAssets(doc).at \subseteq {root} \cup {ids[p] : p \in DOMAIN ids}
    <3>. HIDE DEF ids, all
    <3>. QED
        BY <2>3, AssetsFirm
  <2>5. DOMAIN ids = all /\ \A p \in DOMAIN ids : ids[p].eco \notin Notes
      BY <1>1
  <2>. HIDE DEF ids, root, all
  <2>. QED
      BY <1>1, <2>1, <2>4, <2>5, NodesTame DEF all
<1>. QED
    BY <1>3, <1>4

LEMMA ProjectFilesTame ==
    ASSUME NEW doc, doc.eco \notin Notes, IsFiniteSet(doc.config), IsFiniteSet(References(InReadingOrder(doc)))
    PROVE  Tame(ReadProjectFiles(doc))
<1>. DEFINE root == DirRoot(doc)
            files == InReadingOrder(doc)
            ver(r) == Concrete(files, r[1], files[r[1]].refs[r[2]])
            pinned == {r \in References(files) : ver(r) # NoVersion}
            given == [p \in doc.config |-> NuId(p[1], p[2])]
            found == [r \in pinned |-> NuId(files[r[1]].refs[r[2]].name, ver(r))]
            all == {given[p] : p \in DOMAIN given} \cup {found[r] : r \in DOMAIN found}
            ids == [x \in all |-> x]
<1>1. root.eco \notin Notes /\ \A name, ver_ : NuId(name, ver_).eco \notin Notes
    BY IdParts DEF DirRoot, NuId, Notes
<1>2. /\ IsFiniteSet(DOMAIN given) /\ IsFiniteSet(DOMAIN found)
      /\ \A p \in DOMAIN given : given[p].eco \notin Notes
      /\ \A r \in DOMAIN found : found[r].eco \notin Notes
    BY <1>1, FS_Subset
<1>3. DOMAIN ReadProjectFiles(doc).at = {root} \cup all
    BY DEF ReadProjectFiles, ConfigPackages, Graph, Over, Only
<1>. HIDE DEF given, found, root
<1>4. IsFiniteSet(all) /\ \A x \in all : x.eco \notin Notes
    BY <1>2, FiniteValues, FS_Union
<1>. HIDE DEF all
<1>5. DOMAIN ids = all /\ {ids[x] : x \in DOMAIN ids} = all /\ \A x \in DOMAIN ids : ids[x].eco \notin Notes
    BY <1>4
<1>. HIDE DEF ids
<1>. QED
    BY <1>1, <1>3, <1>4, <1>5, NodesTame

LEMMA GoModTame == ASSUME NEW doc, IsList(doc.text) PROVE Tame(ReadGoMod(doc))
<1>. DEFINE root == Id("gomod", doc.name, "0.0.0", "none")
            L    == Go!RequireLines(doc.text)
            R    == Go!Requires(doc.text)
            pair == [i \in L |-> <<doc.text[i].mod, doc.text[i].ver>>]
            ids  == [r \in R |-> Id("gomod", r[1], r[2], "none")]
<1>1. root.eco \notin Notes /\ \A r \in DOMAIN ids : ids[r].eco \notin Notes
    BY IdParts DEF Notes
<1>2. IsFiniteSet(L)
    BY ListDomain, FS_Subset DEF Go!RequireLines
<1>3. R = {pair[i] : i \in DOMAIN pair} /\ DOMAIN pair = L
    BY DEF Go!Requires
<1>4. DOMAIN ids = R /\ {ids[r] : r \in DOMAIN ids} = {Id("gomod", r[1], r[2], "none") : r \in R}
    OBVIOUS
<1>5. \E nodes, a, edges : /\ ReadGoMod(doc) = Graph(Over(nodes, Only(root, a)), edges, {root})
                           /\ DOMAIN nodes = {Id("gomod", r[1], r[2], "none") : r \in R}
  <2>. DEFINE direct(r) == ~doc.text[Min({i \in L : <<doc.text[i].mod, doc.text[i].ver>> = r})].indirect
              nodes == [x \in {Id("gomod", r[1], r[2], "none") : r \in R} |-> [Plain EXCEPT !.direct = direct(<<x.name, x.ver>>)]]
              a     == [Plain EXCEPT !.flat = R # {}]
              edges == {<<root, Id("gomod", r[1], r[2], "none")>> : r \in R}
  <2>1. ReadGoMod(doc) = Graph(Over(nodes, Only(root, a)), edges, {root})
      BY DEF ReadGoMod
  <2>2. DOMAIN nodes = {Id("gomod", r[1], r[2], "none") : r \in R}
      OBVIOUS
  <2>. HIDE DEF nodes, a, edges, root
  <2>. QED
      BY <2>1, <2>2
<1>. HIDE DEF L, R, pair, ids, root
<1>6. IsFiniteSet(DOMAIN ids)
    BY <1>2, <1>3, <1>4, FiniteValues
<1>. QED
  <2>1. PICK nodes, a, edges : /\ ReadGoMod(doc) = Graph(Over(nodes, Only(root, a)), edges, {root})
                              /\ DOMAIN nodes = {Id("gomod", r[1], r[2], "none") : r \in R}
      BY <1>5
  <2>2. DOMAIN ReadGoMod(doc).at = {root} \cup {ids[r] : r \in DOMAIN ids}
      BY <1>4, <2>1, RootNodes
  <2>. QED
      BY <1>1, <1>6, <2>2, NodesTame

LEMMA ClojureTame == ASSUME NEW doc, IsFiniteSet(doc.declares) PROVE Tame(ReadClojure(doc))
<1>. DEFINE root == Id("maven", doc.name, doc.ver, "none")
            ids == [d \in doc.declares \ OpenIn(doc) |-> Id("maven", d.name, d.ver, "none")]
<1>1. root.eco \notin Notes /\ \A d \in DOMAIN ids : ids[d].eco \notin Notes
    BY IdParts DEF Notes
<1>2. IsFiniteSet(DOMAIN ids)
    BY FS_Subset
<1>3. DOMAIN ReadClojure(doc).at = {root} \cup {ids[d] : d \in DOMAIN ids}
    BY DEF ReadClojure, Graph, Over, Only
<1>. HIDE DEF ids, root
<1>. QED
    BY <1>1, <1>2, <1>3, NodesTame

LEMMA OtherTame ==
    ASSUME NEW doc, doc.eco \in DOMAIN OtherFormats, OtherFile(doc), ~OtherFails(doc)
    PROVE  Tame(ReadOther(doc))
<1>1. doc.eco \notin Notes
    BY DEF OtherFormats, Notes
<1>2. CASE doc.format = "Cargo.lock"
  <2>1. /\ IsList(doc.packages) /\ doc.packages # <<>> /\ doc.packages[1].ver # NoVersion
        /\ \A i \in DOMAIN doc.packages : IsFiniteSet(doc.packages[i].needs)
      BY <1>2 DEF OtherFile, OtherFails
  <2>. QED
      BY <1>2, <2>1, CargoFirm DEF ReadOther
<1>3. CASE doc.format \in {"composer.lock", "Gemfile.lock", "paket.lock"}
  <2>1. IsList(doc.packages)
      BY <1>3 DEF OtherFile
  <2>. QED
      BY <1>1, <1>3, <2>1, ListedTame DEF ReadOther
<1>4. CASE doc.format \in {"packages.lock.json", "project.assets.json"}
  <2>1. IsList(doc.frameworks) /\ \A f \in DOMAIN doc.frameworks : IsFiniteSet(DOMAIN doc.frameworks[f])
      BY <1>4 DEF OtherFile
  <2>. QED
      BY <1>1, <1>4, <2>1, FrameworksTame DEF ReadOther
<1>5. CASE doc.format = "project-files"
  <2>1. /\ IsList(doc.above) /\ IsList(doc.own) /\ IsList(doc.tools) /\ IsFiniteSet(doc.config)
        /\ \A k \in DOMAIN InReadingOrder(doc) : IsList(InReadingOrder(doc)[k].refs)
      BY <1>5 DEF OtherFile
  <2>3. IsFiniteSet(References(InReadingOrder(doc)))
      BY <2>1, ReferencesRead
  <2>. QED
      BY <1>1, <1>5, <2>1, <2>3, ProjectFilesTame DEF ReadOther
<1>6. CASE doc.format = "go.mod"
    BY <1>6, GoModTame DEF ReadOther, OtherFile
<1>7. CASE doc.format = "clj"
    BY <1>7, ClojureTame DEF ReadOther, OtherFile
<1>8. CASE doc.format \in {"composer.json", "Gemfile"}
  <2>1. \A names : DOMAIN ReadNames(doc, names).at = {DirRoot(doc)}
      BY DEF ReadNames, Graph, Only
  <2>2. DOMAIN ReadOther(doc).at = {DirRoot(doc)}
      BY <1>8, <2>1 DEF ReadOther, ReadComposerManifest, ReadGemfile
  <2>3. DirRoot(doc).eco \notin Notes
      BY <1>1, IdParts DEF DirRoot
  <2>. QED
      BY <2>2, <2>3, FS_Singleton DEF Tame
<1>. QED
  <2>1. doc.format \in OtherFormat
      BY KnownFormats
  <2>. QED
      BY <1>2, <1>3, <1>4, <1>5, <1>6, <1>7, <1>8, <2>1 DEF OtherFormat

-----------------------------------------------------------------------------
(***************************************************************************)
(* What reconstruction moves lies in the graph.                            *)
(***************************************************************************)
\* What it leaves: the nodes with their counts, the roots, and all links but those of
\* the Python projects.
Kept(g, h) ==
    /\ DOMAIN h.at = DOMAIN g.at /\ h.roots = g.roots
    /\ \A id \in DOMAIN g.at : h.at[id].count = g.at[id].count
    /\ \A e \in g.edges : e \in h.edges \/ (e[1] \in g.roots /\ e[1].eco = "pypi")

LEMMA ReconstructWhole ==
    ASSUME NEW g, Whole(g), NEW root \in g.roots, root.eco = "pypi", NEW requires
    PROVE  Whole(Reconstruct(g, root, requires)) /\ Kept(g, Reconstruct(g, root, requires))
<1>. DEFINE pinned     == {e[2] : e \in {d \in g.edges : d[1] = root}}
            parents(x) == {z \in pinned \cap DOMAIN requires : z # x /\ x.name \in requires[z]}
            moved      == {x \in pinned : parents(x) # {}}
            full       == moved = pinned
            at         == [id \in DOMAIN g.at |->
                              IF id \in moved THEN [g.at[id] EXCEPT !.direct = FALSE]
                              ELSE IF id = root /\ full THEN [g.at[id] EXCEPT !.flat = FALSE] ELSE g.at[id]]
            edges      == (g.edges \ {<<root, x>> : x \in moved}) \cup UNION {parents(x) \X {x} : x \in moved}
            h          == Graph(at, edges, g.roots)
<1>1. Reconstruct(g, root, requires) = IF pinned = {} THEN g ELSE h
    BY DEF Reconstruct
<1>2. pinned \subseteq DOMAIN g.at
    BY DEF Whole, Joins, Dangles
<1>3. DOMAIN at = DOMAIN g.at /\ \A id \in DOMAIN g.at : Sound(id, at[id]) /\ at[id].count = g.at[id].count
  <2>1. \A id \in DOMAIN g.at : Sound(id, g.at[id])
      BY DEF Whole
  <2>2. \A id \in DOMAIN g.at : at[id] \in {g.at[id], [g.at[id] EXCEPT !.direct = FALSE], [g.at[id] EXCEPT !.flat = FALSE]}
    <3>. HIDE DEF moved, full
    <3>. QED
        OBVIOUS
  <2>3. DOMAIN at = DOMAIN g.at
      OBVIOUS
  <2>. HIDE DEF at
  <2>. QED
      BY <2>1, <2>2, <2>3 DEF Sound
<1>4. \A e \in edges : Joins(at, e) \/ (e[1] \in DOMAIN at /\ Dangles(e))
  <2>1. \A x \in moved : x \in pinned /\ parents(x) \subseteq pinned
      OBVIOUS
  <2>2. \A e \in g.edges : Joins(at, e) \/ (e[1] \in DOMAIN at /\ Dangles(e))
    <3>. HIDE DEF at
    <3>. QED
        BY <1>3 DEF Whole, Joins
  <2>. HIDE DEF at, moved, parents, pinned
  <2>. QED
      BY <1>2, <1>3, <2>1, <2>2 DEF Joins
<1>. HIDE DEF at, edges
<1>5. h.at = at /\ h.edges = edges /\ h.roots = g.roots
    BY Parts
<1>6. Whole(h)
    BY <1>3, <1>4, <1>5 DEF Whole
<1>7. \A e \in g.edges : e \in edges \/ (e[1] \in g.roots /\ e[1].eco = "pypi")
  <2>. HIDE DEF moved, parents
  <2>. QED
      BY DEF edges
<1>8. Kept(g, h)
    BY <1>3, <1>5, <1>7 DEF Kept
<1>9. Kept(g, g)
    BY DEF Kept
<1>. QED
    BY <1>1, <1>6, <1>8, <1>9

\* One of a set, as FoldSet takes them.
OneOf(T) == CHOOSE x \in T : TRUE

\* The graph with the projects of each set reconstructed.
InTurn(f, g, S, requires) ==
    f = [T \in SUBSET S |-> IF T = {} THEN g ELSE Reconstruct(f[T \ {OneOf(T)}], OneOf(T), requires)]

LEMMA OneOfIn ==
    ASSUME NEW S, IsFiniteSet(S), NEW T \in SUBSET S, T # {}
    PROVE  /\ OneOf(T) \in T /\ T \ {OneOf(T)} \in SUBSET S
           /\ Cardinality(T) \in Nat /\ Cardinality(T \ {OneOf(T)}) = Cardinality(T) - 1
<1>1. OneOf(T) \in T
    BY DEF OneOf
<1>2. IsFiniteSet(T)
    BY FS_Subset
<1>. QED
    BY <1>1, <1>2, FS_CardinalityType, FS_RemoveElement

LEMMA TurnsTaken ==
    ASSUME NEW g, NEW S, IsFiniteSet(S), NEW requires
    PROVE  \E f : InTurn(f, g, S, requires)
<1>. DEFINE N == Cardinality(S)
            upTo(n) == {T \in SUBSET S : Cardinality(T) <= n}
            turn(f, T) == IF T = {} THEN g ELSE Reconstruct(f[T \ {OneOf(T)}], OneOf(T), requires)
            taken(n, f) == f = [T \in upTo(n) |-> turn(f, T)]
            A == {n \in 0..N : \E f : taken(n, f)}
<1>1. N \in Nat /\ \A T \in SUBSET S : Cardinality(T) \in Nat /\ Cardinality(T) <= N
    BY FS_CardinalityType, FS_Subset
<1>2. \A T \in SUBSET S : T # {} => T \ {OneOf(T)} \in SUBSET S /\ Cardinality(T \ {OneOf(T)}) = Cardinality(T) - 1
    BY OneOfIn
<1>3. 0 \in A
  <2>. DEFINE f == [T \in upTo(0) |-> g]
  <2>1. \A T \in upTo(0) : T = {}
    <3>. SUFFICES ASSUME NEW T \in SUBSET S, Cardinality(T) <= 0, T # {} PROVE FALSE
        OBVIOUS
    <3>1. Cardinality(T \ {OneOf(T)}) = Cardinality(T) - 1 /\ T \ {OneOf(T)} \in SUBSET S
        BY <1>2
    <3>. QED
        BY <1>1, <3>1
  <2>2. f = [T \in upTo(0) |-> turn(f, T)]
    <3>. HIDE DEF upTo
    <3>. QED
        BY <2>1
  <2>. HIDE DEF f, upTo, turn
  <2>3. \E h : taken(0, h)
      BY <2>2
  <2>4. 0 \in 0..N
    <3>. HIDE DEF N
    <3>. QED
        BY <1>1
  <2>. HIDE DEF taken, N
  <2>. QED
      BY <2>3, <2>4
<1>4. \A n \in 1..N : n - 1 \in A => n \in A
  <2>. SUFFICES ASSUME NEW n \in 1..N, NEW f, taken(n - 1, f) PROVE \E h : taken(n, h)
    <3>1. \A i \in 1..N : i \in 0..N
        BY <1>1
    <3>. HIDE DEF taken
    <3>. QED
        BY <3>1
  <2>. DEFINE h == [T \in upTo(n) |-> IF T \in upTo(n - 1) THEN f[T] ELSE turn(f, T)]
  <2>1. \A T \in upTo(n) : T # {} => T \ {OneOf(T)} \in upTo(n - 1) /\ T \ {OneOf(T)} \in upTo(n)
    <3>. SUFFICES ASSUME NEW T \in upTo(n), T # {}
                  PROVE  T \ {OneOf(T)} \in upTo(n - 1) /\ T \ {OneOf(T)} \in upTo(n)
        OBVIOUS
    <3>1. Cardinality(T) \in Nat /\ Cardinality(T) <= n /\ Cardinality(T \ {OneOf(T)}) = Cardinality(T) - 1
        BY <1>1, <1>2
    <3>. DEFINE U == T \ {OneOf(T)}
    <3>2. U \in SUBSET S /\ Cardinality(U) = Cardinality(T) - 1
        BY <1>2
    <3>. HIDE DEF U
    <3>3. Cardinality(U) <= n - 1 /\ Cardinality(U) <= n
        BY <3>1, <3>2
    <3>. QED
        BY <3>2, <3>3 DEF U
  <2>2. \A T \in upTo(n - 1) : f[T] = turn(f, T)
    <3>. HIDE DEF turn, upTo
    <3>. QED
        OBVIOUS
  <2>3. \A T \in upTo(n) : h[T] = turn(f, T)
    <3>. HIDE DEF turn, upTo
    <3>. QED
        BY <2>2
  <2>4. \A T \in upTo(n - 1) : T \in upTo(n) => h[T] = f[T]
    <3>. HIDE DEF turn, upTo
    <3>. QED
        OBVIOUS
  <2>5. \A T \in upTo(n) : turn(f, T) = turn(h, T)
    <3>. SUFFICES ASSUME NEW T \in upTo(n), T # {} PROVE f[T \ {OneOf(T)}] = h[T \ {OneOf(T)}]
        OBVIOUS
    <3>. HIDE DEF h, upTo
    <3>. QED
        BY <2>1, <2>4
  <2>6. h = [T \in upTo(n) |-> turn(h, T)]
    <3>1. h = [T \in upTo(n) |-> h[T]]
      <4>. HIDE DEF upTo, turn
      <4>. QED
          OBVIOUS
    <3>2. \A T \in upTo(n) : h[T] = turn(h, T)
      <4>. HIDE DEF upTo, turn, h
      <4>. QED
          BY <2>3, <2>5
    <3>. HIDE DEF h, upTo, turn
    <3>. QED
        BY <3>1, <3>2
  <2>. QED
      BY <2>6
<1>5. N \in A
  <2>. HIDE DEF A
  <2>1. 0..N \subseteq A
      BY <1>1, <1>3, <1>4, AllCounted
  <2>. QED
      BY <1>1, <2>1
<1>6. PICK f : taken(N, f)
    BY <1>5
<1>7. upTo(N) = SUBSET S
    BY <1>1
<1>8. f = [T \in SUBSET S |-> turn(f, T)]
  <2>. HIDE DEF turn, upTo
  <2>. QED
      BY <1>6, <1>7
<1>. QED
    BY <1>8 DEF InTurn

LEMMA TurnsWhole ==
    ASSUME NEW g, Whole(g), NEW S, IsFiniteSet(S), S \subseteq g.roots, \A r \in S : r.eco = "pypi",
           NEW requires, NEW f, InTurn(f, g, S, requires)
    PROVE  Whole(f[S]) /\ Kept(g, f[S])
<1>. DEFINE N == Cardinality(S)
            Fine(h) == Whole(h) /\ Kept(g, h)
            A == {n \in 0..N : \A T \in SUBSET S : Cardinality(T) = n => Fine(f[T])}
<1>1. N \in Nat /\ \A T \in SUBSET S : Cardinality(T) \in Nat /\ Cardinality(T) <= N
    BY FS_CardinalityType, FS_Subset
<1>2. \A T \in SUBSET S : f[T] = IF T = {} THEN g ELSE Reconstruct(f[T \ {OneOf(T)}], OneOf(T), requires)
    BY DEF InTurn
<1>3. \A T \in SUBSET S : T # {} => /\ OneOf(T) \in T /\ T \ {OneOf(T)} \in SUBSET S
                                    /\ Cardinality(T \ {OneOf(T)}) = Cardinality(T) - 1
    BY OneOfIn
<1>4. 0 \in A
  <2>1. \A T \in SUBSET S : Cardinality(T) = 0 => T = {}
    <3>. SUFFICES ASSUME NEW T \in SUBSET S, Cardinality(T) = 0, T # {} PROVE FALSE
        OBVIOUS
    <3>1. Cardinality(T \ {OneOf(T)}) = 0 - 1 /\ T \ {OneOf(T)} \in SUBSET S
        BY <1>3
    <3>. QED
        BY <1>1, <3>1
  <2>2. Fine(g)
      BY DEF Kept
  <2>. HIDE DEF Fine
  <2>. QED
      BY <1>1, <1>2, <2>1, <2>2
<1>5. \A n \in 1..N : n - 1 \in A => n \in A
  <2>. SUFFICES ASSUME NEW n \in 1..N, \A T \in SUBSET S : Cardinality(T) = n - 1 => Fine(f[T]),
                       NEW T \in SUBSET S, Cardinality(T) = n
                PROVE  Fine(f[T])
    <3>1. \A i \in 1..N : i \in 0..N
        BY <1>1
    <3>. HIDE DEF Fine
    <3>. QED
        BY <3>1
  <2>1. T # {}
    <3>. SUFFICES ASSUME T = {} PROVE FALSE
        OBVIOUS
    <3>1. Cardinality(T) = 0
        BY FS_EmptySet
    <3>. HIDE DEF N
    <3>. QED
        BY <1>1, <3>1
  <2>. DEFINE U == T \ {OneOf(T)}
              r == OneOf(T)
  <2>2. Fine(f[U])
    <3>1. U \in SUBSET S /\ Cardinality(U) = n - 1
        BY <1>3, <2>1
    <3>. HIDE DEF Fine, U
    <3>. QED
        BY <3>1
  <2>3. r \in g.roots /\ r.eco = "pypi" /\ f[T] = Reconstruct(f[U], r, requires)
      BY <1>2, <1>3, <2>1
  <2>. HIDE DEF U, r
  <2>4. r \in f[U].roots
      BY <2>2, <2>3 DEF Kept
  <2>5. Whole(f[T]) /\ Kept(f[U], f[T])
      BY <2>2, <2>3, <2>4, ReconstructWhole
  <2>6. Kept(g, f[T])
      BY <2>2, <2>5 DEF Kept
  <2>. QED
      BY <2>5, <2>6
<1>6. N \in A
  <2>. HIDE DEF A
  <2>1. 0..N \subseteq A
      BY <1>1, <1>4, <1>5, AllCounted
  <2>. QED
      BY <1>1, <2>1
<1>7. S \in SUBSET S /\ Cardinality(S) = N
    OBVIOUS
<1>. HIDE DEF N
<1>8. Fine(f[S])
  <2>. HIDE DEF Fine
  <2>. QED
      BY <1>6, <1>7
<1>. QED
    BY <1>8

=============================================================================
