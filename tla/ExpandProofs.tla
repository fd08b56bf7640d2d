---------------------------- MODULE ExpandProofs ----------------------------
(***************************************************************************)
(* Proofs about Expand, for every set of projects, every registry content, *)
(* every resolver answer and every bound.                                  *)
(***************************************************************************)
EXTENDS Expand, FiniteSetTheorems, TLAPS

-----------------------------------------------------------------------------
(***************************************************************************)
(* Reachability.                                                           *)
(***************************************************************************)
LEMMA ReachableInside ==
    ASSUME NEW N, NEW E, NEW n
    PROVE  ReachableIn(N, E, n) \subseteq N
BY DEF ReachableIn

LEMMA ReachableSelf ==
    ASSUME NEW N, NEW E, NEW n \in N
    PROVE  n \in ReachableIn(N, E, n)
BY DEF ReachableIn

LEMMA ReachableStep ==
    ASSUME NEW N, NEW E, NEW n, NEW e \in E, e[1] \in ReachableIn(N, E, n), e[2] \in N
    PROVE  e[2] \in ReachableIn(N, E, n)
BY DEF ReachableIn

LEMMA ReachableTransitive ==
    ASSUME NEW N, NEW E, NEW n, NEW a \in ReachableIn(N, E, n)
    PROVE  ReachableIn(N, E, a) \subseteq ReachableIn(N, E, n)
BY DEF ReachableIn

\* A graph that grows reaches at least what it reached.
LEMMA ReachableGrows ==
    ASSUME NEW N, NEW E, NEW M, NEW F, NEW n,
           E \subseteq N \X N, N \subseteq M, E \subseteq F, n \in N
    PROVE  ReachableIn(N, E, n) \subseteq ReachableIn(M, F, n)
<1> SUFFICES ASSUME NEW m \in ReachableIn(N, E, n),
                    NEW S \in SUBSET M, n \in S, \A e \in F : e[1] \in S => e[2] \in S
             PROVE  m \in S
    BY DEF ReachableIn
<1>1. S \cap N \in SUBSET N /\ n \in S \cap N
    OBVIOUS
<1>2. \A e \in E : e[1] \in S \cap N => e[2] \in S \cap N
    OBVIOUS
<1>. QED
    BY <1>1, <1>2 DEF ReachableIn

-----------------------------------------------------------------------------
(***************************************************************************)
(* Everything is finite.                                                   *)
(***************************************************************************)
LEMMA PackageFinite == IsFiniteSet(Package)
<1>. DEFINE Triple == (Name \X (Version \cup {NoVersion})) \X BOOLEAN
            AsPackage(t) == [name |-> t[1][1], version |-> t[1][2], registry |-> t[2]]
<1>1. IsFiniteSet(Version \cup {NoVersion})
    BY FS_AddElement, ExpandAssumption
<1>2. IsFiniteSet(Name \X (Version \cup {NoVersion}))
    BY <1>1, FS_Product, ExpandAssumption
<1>3. IsFiniteSet(BOOLEAN)
  <2>1. BOOLEAN = {TRUE} \cup {FALSE}
      OBVIOUS
  <2>2. IsFiniteSet({TRUE}) /\ IsFiniteSet({FALSE})
      BY FS_Singleton
  <2>3. IsFiniteSet({TRUE} \cup {FALSE})
      BY <2>2, FS_Union
  <2>. QED
      BY <2>1, <2>3
<1>4. IsFiniteSet(Triple)
    BY <1>2, <1>3, FS_Product
<1>. DEFINE f == [t \in Triple |-> AsPackage(t)]
<1>5. f \in Surjection(Triple, Package)
  <2>1. \A t \in Triple : f[t] \in Package
      BY DEF Package
  <2>2. ASSUME NEW p \in Package PROVE \E t \in Triple : f[t] = p
    <3>1. <<<<p.name, p.version>>, p.registry>> \in Triple
        BY DEF Package
    <3>2. p = AsPackage(<<<<p.name, p.version>>, p.registry>>)
        BY DEF Package
    <3>. QED
        BY <3>1, <3>2
  <2>. QED
      BY <2>1, <2>2 DEF Surjection
<1>. QED
    BY <1>4, <1>5, FS_Surjection

LEMMA PackagesCounted ==
    ASSUME NEW S \in SUBSET Package
    PROVE  IsFiniteSet(S) /\ Cardinality(S) \in Nat /\ (S # {} => Cardinality(S) > 0)
<1>1. IsFiniteSet(S)
    BY PackageFinite, FS_Subset
<1>2. Cardinality(S) \in Nat
    BY <1>1, FS_CardinalityType
<1>3. S # {} => Cardinality(S) # 0
    BY <1>1, FS_EmptySet
<1>. QED
    BY <1>1, <1>2, <1>3

-----------------------------------------------------------------------------
(***************************************************************************)
(* What presume answers.                                                   *)
(***************************************************************************)
LEMMA BestAdmitted ==
    ASSUME NEW ok \in SUBSET Version, ok # {}
    PROVE  Best(ok) \in ok
BY OrderAssumption DEF Best

\* The presumed node has the name asked for, and a version exactly when it is
\* presumed: one that every constraint admits.
IsPresumption(p, m, constraints) ==
    /\ p.node \in Package
    /\ p.node.name = m
    /\ p.node.registry = TRUE
    /\ p.truth \in Truth
    /\ p.truth # "asserted"
    /\ p.truth = "presumed" <=> p.node.version # NoVersion
    /\ p.node.version # NoVersion => \A c \in constraints : c # Unevaluable /\ p.node.version \in c

LEMMA PresumeAnswers ==
    ASSUME NEW m \in Name, NEW constraints, NEW missing, world \in World
    PROVE  IsPresumption(Presume(m, constraints, missing), m, constraints)
<1>. DEFINE p == Presume(m, constraints, missing)
<1>. DEFINE all == Versions(m, missing)
            ok  == {v \in all : \A c \in constraints : c # Unevaluable /\ v \in c}
<1>1. ok \in SUBSET Version
    BY ExpandAssumption DEF Versions
<1>2. CASE all = {}
    BY <1>2 DEF Presume, Presumption, Identify, Package, Truth, NoVersion, IsPresumption
<1>3. CASE all # {} /\ (Unevaluable \in constraints \/ ok = {})
    BY <1>3 DEF Presume, Presumption, Identify, Package, Truth, NoVersion, IsPresumption
<1>4. CASE all # {} /\ ~(Unevaluable \in constraints \/ ok = {})
  <2>1. p = Presumption(m, Best(ok), "presumed")
      BY <1>4 DEF Presume
  <2>2. Best(ok) \in ok
      BY <1>1, <1>4, BestAdmitted
  <2>3. Best(ok) \in Version /\ Best(ok) # NoVersion
      BY <2>2, <1>1, ExpandAssumption
  <2>4. p.node.version = Best(ok) /\ p.node.name = m /\ p.node.registry = TRUE
        /\ p.truth = "presumed" /\ p.node \in Package
      BY <2>1, <2>3 DEF Presumption, Identify, Package
  <2>5. \A c \in constraints : c # Unevaluable /\ Best(ok) \in c
      BY <2>2
  <2>. QED
      BY <2>3, <2>4, <2>5 DEF Truth, IsPresumption
<1>. QED
    BY <1>2, <1>3, <1>4

\* Presumptions add their own nodes and leave the truth of the others alone.
LEMMA PresumedGraph ==
    ASSUME NEW ps, \A p \in ps : p.node \in Package /\ p.truth \in Truth, TypeOK
    PROVE  /\ DOMAIN WithPresumed(ps) = Node \cup {p.node : p \in ps}
           /\ WithPresumed(ps) \in [Node \cup {p.node : p \in ps} -> Truth]
           /\ \A n \in Node : WithPresumed(ps)[n] = truth[n]
           /\ \A n \in DOMAIN WithPresumed(ps) \ Node :
                 \E p \in ps : p.node = n /\ WithPresumed(ps)[n] = p.truth
<1>. DEFINE about(n) == CHOOSE p \in ps : p.node = n
            N == Node \cup {p.node : p \in ps}
<1>1. WithPresumed(ps) = [n \in N |-> IF n \in Node THEN truth[n] ELSE about(n).truth]
    BY DEF WithPresumed
<1>2. \A n \in N \ Node : about(n) \in ps /\ about(n).node = n
    OBVIOUS
<1>3. \A n \in Node : truth[n] \in Truth
    BY DEF TypeOK
<1>. HIDE DEF about
<1>. QED
    BY <1>1, <1>2, <1>3

\* A pending name's presumption, and what it was constrained by.
Child(m, missing) == Presume(m, Constraints(m), missing)

LEMMA PendingNames ==
    ASSUME TypeOK
    PROVE  /\ Pending \subseteq Name
           /\ \A q \in queue : q[1] \in Node /\ q[2] \in Declaration /\ q = <<q[1], q[2]>>
                               /\ q[2].name \in Pending
BY DEF TypeOK, Pending, Declaration

LEMMA ChildAnswers ==
    ASSUME TypeOK, NEW m \in Pending, NEW missing
    PROVE  IsPresumption(Child(m, missing), m, Constraints(m))
<1>1. m \in Name /\ world \in World
    BY PendingNames DEF TypeOK
<1>. QED
    BY <1>1, PresumeAnswers DEF Child

-----------------------------------------------------------------------------
(***************************************************************************)
(* Every step only adds.                                                   *)
(***************************************************************************)
Grows ==
    /\ world' = world /\ bound' = bound
    /\ Node \subseteq Node' /\ edges \subseteq edges'
    /\ marked \subseteq marked' /\ closed \subseteq closed' /\ todo' \subseteq todo
    /\ \A n \in Node : truth'[n] = truth[n] \/ (truth[n] = "unset" /\ truth'[n] = "observed")

LEMMA NodeNext == Node' = DOMAIN (truth')
BY DEF Node

LEMMA MergeGraph ==
    ASSUME TypeOK, NEW part, NEW from, NEW holes, Merge(part, from, holes)
    PROVE  /\ Node' = Node \cup Asserted(part, from)
           /\ \A n \in Node : truth'[n] = truth[n]
           /\ \A n \in Asserted(part, from) : truth'[n] = "asserted"
           /\ truth' = [n \in Node' |-> truth'[n]]
BY NodeNext DEF Merge, Asserted

LEMMA StepGrows ==
    ASSUME TypeOK, [Next]_vars
    PROVE  Grows
<1>1. ASSUME NEW r \in Root, Start(r) PROVE Grows
    BY <1>1 DEF Start, Grows, TypeOK, inputs, Node
<1>2. ASSUME NEW d \in seeds, SeedLink(d) PROVE Grows
    BY <1>2 DEF SeedLink, Grows, TypeOK, inputs, Node
<1>3. ASSUME NEW d \in seeds, NEW missing \in SUBSET {d.name}, SeedPresume(d, missing) PROVE Grows
  <2>. DEFINE p == Presume(d.name, {d.admits}, missing)
  <2>0. d.name \in Name /\ world \in World
      BY DEF TypeOK, Declaration
  <2>1. p.node \in Package /\ p.truth \in Truth
      BY <2>0, PresumeAnswers DEF IsPresumption
  <2>2. truth' = WithPresumed({p})
      BY <1>3 DEF SeedPresume
  <2>3. Node \subseteq Node' /\ \A n \in Node : truth'[n] = truth[n]
      BY <2>1, <2>2, PresumedGraph, NodeNext
  <2>. QED
      BY <1>3, <2>3 DEF SeedPresume, Grows, inputs
<1>4. ASSUME AssertLocalRoot PROVE Grows
  <2>1. \E part, holes :
            /\ Merge(part, root, holes)
            /\ closed' = closed \cup Grown(root) \cup Asserted(part, root)
      BY <1>4 DEF AssertLocalRoot
  <2>. QED
      BY <1>4, <2>1, MergeGraph DEF AssertLocalRoot, Merge, Grows, inputs
<1>5. ASSUME NEW dep \in direct, AssertRoot(dep) PROVE Grows
  <2>1. \E part, holes :
            /\ Merge(part, dep, holes)
            /\ closed \subseteq closed'
      BY <1>5 DEF AssertRoot
  <2>. QED
      BY <1>5, <2>1, MergeGraph DEF AssertRoot, Merge, Grows, inputs
<1>6. ASSUME NEW absent \in SUBSET Batch, ReadLayer(absent) PROVE Grows
    BY <1>6 DEF ReadLayer, MarkedWith, Grows, inputs, Node
<1>7. ASSUME NEW missing \in SUBSET Pending, PresumeLayer(missing) PROVE Grows
  <2>. DEFINE ps == {Child(m, missing) : m \in Pending}
  <2>1. \A p \in ps : p.node \in Package /\ p.truth \in Truth
    <3> SUFFICES ASSUME NEW m \in Pending
                 PROVE  Child(m, missing).node \in Package /\ Child(m, missing).truth \in Truth
        OBVIOUS
    <3>. QED
        BY ChildAnswers DEF IsPresumption
  <2>2. truth' = WithPresumed(ps)
      BY <1>7 DEF PresumeLayer, Child
  <2>3. Node \subseteq Node' /\ \A n \in Node : truth'[n] = truth[n]
      BY <2>1, <2>2, PresumedGraph, NodeNext
  <2>. QED
      BY <1>7, <2>3 DEF PresumeLayer, Grows, inputs
<1>8. ASSUME \/ Seeded \/ AssertDirectDeps \/ AllAsserted \/ Stop \/ Finish \/ Done
             \/ \E dep \in direct : Unresolved(dep)
             \/ UNCHANGED vars
      PROVE  Grows
    BY <1>8 DEF Seeded, AssertDirectDeps, AllAsserted, Stop, Finish, Done, Unresolved, Grows,
                vars, inputs, graph, walking, Node
<1>. QED
    BY <1>1, <1>2, <1>3, <1>4, <1>5, <1>6, <1>7, <1>8 DEF Next

-----------------------------------------------------------------------------
(***************************************************************************)
(* Types.                                                                  *)
(***************************************************************************)
LEMMA Inputs ==
    ASSUME TypeOK
    PROVE  /\ \A n \in Package : Requires[world][n] \subseteq Declaration
           /\ \A r \in Root : Declared[world][r] \subseteq Declaration
           /\ \A n \in Node : \A answer \in Subtree[world][n] : answer \subseteq Link
           /\ \A r \in Root : \A answer \in BuildList[world][r] : answer \subseteq Link
BY ExpandAssumption DEF TypeOK, Answer

LEMMA PairsWithin ==
    ASSUME NEW A, NEW E \in SUBSET (A \X A), NEW B, \A e \in E : e[1] \in B /\ e[2] \in B
    PROVE  E \subseteq B \X B
OBVIOUS

LEMMA RootIsNode ==
    ASSUME TypeOK, stage \notin {"idle", "done"}
    PROVE  root \in Root /\ root \in Node
BY DEF TypeOK

LEMMA BoundLayers ==
    ASSUME TypeOK
    PROVE  bound.layers \in Nat
BY ExpandAssumption DEF TypeOK, Bound

LEMMA InitTypes ==
    ASSUME Init
    PROVE  TypeOK
<1>1. /\ Locked[world].nodes \subseteq Package
      /\ Locked[world].edges \subseteq Locked[world].nodes \X Locked[world].nodes
      /\ Root \subseteq Locked[world].nodes
  <2>1. /\ Locked[world].nodes \in SUBSET Package
        /\ Locked[world].edges \in SUBSET Link
        /\ Root \cup Ends(Locked[world].edges) \subseteq Locked[world].nodes
      BY ExpandAssumption DEF Init
  <2>. QED
      BY <2>1 DEF Ends, Link
<1>2. Node = Locked[world].nodes
    BY DEF Init, Node
<1>3. bound.layers \in Nat \ {0}
    BY ExpandAssumption DEF Init, Bound
<1>. QED
    BY <1>1, <1>2, <1>3 DEF Init, TypeOK, Truth, Stage

\* An index finds a name's node among those of N, or nothing.
IsIndex(f, N) ==
    /\ f \in [Name -> N \cup {NoNode}]
    /\ \A m \in Name : f[m] # NoNode => f[m].name = m

LEMMA IndexedTypes ==
    ASSUME NEW old, NEW N, IsIndex(old, N), NEW S, S \subseteq N, NEW f \in Indexed(old, S)
    PROVE  IsIndex(f, N)
BY DEF Indexed, NamedIn, IsIndex

LEMMA MergeTypes ==
    ASSUME TypeOK, NEW from \in Node, NEW answer \in SUBSET Link, NEW holes \in Holes(answer, from),
           Merge(Partial(answer, holes), from, holes)
    PROVE  /\ Node' \subseteq Package /\ truth' \in [Node' -> Truth]
           /\ Node \subseteq Node'
           /\ edges' \subseteq Node' \X Node'
           /\ marked' \subseteq Node'
           /\ unread' \in Nat
           /\ Grown(from) \subseteq Node'
           /\ holes \subseteq Package
<1>. DEFINE part == Partial(answer, holes)
<1>1. /\ Node' = Node \cup Asserted(part, from)
      /\ \A n \in Node : truth'[n] = truth[n]
      /\ \A n \in Asserted(part, from) : truth'[n] = "asserted"
      /\ truth' = [n \in Node' |-> truth'[n]]
    BY MergeGraph
<1>2. part \subseteq Link /\ Ends(part) \subseteq Package /\ Ends(part) \subseteq Node'
    BY <1>1 DEF Partial, Link, Ends, Asserted
<1>3. \A n \in Node : truth[n] \in Truth
    BY DEF TypeOK
<1>4. Node' \subseteq Package /\ truth' \in [Node' -> Truth]
    BY <1>1, <1>2, <1>3 DEF Truth, TypeOK, Asserted
<1>5. edges' \subseteq Node' \X Node'
  <2>0. PICK N : N = Node'
      OBVIOUS
  <2>1. \A e \in part : e[1] \in Ends(part) /\ e[2] \in Ends(part)
      BY DEF Ends
  <2>2. part \in SUBSET (Package \X Package) /\ \A e \in part : e[1] \in N /\ e[2] \in N
      BY <2>0, <2>1, <1>2 DEF Link
  <2>3. edges' = edges \cup part /\ edges \in SUBSET (Node \X Node) /\ Node \subseteq N
      BY <2>0, <1>1 DEF Merge, TypeOK
  <2>. HIDE DEF part
  <2>4. part \subseteq N \X N
      BY <2>2, PairsWithin
  <2>5. edges' \subseteq N \X N
      BY <2>3, <2>4
  <2>. QED
      BY <2>0, <2>5
<1>6. holes \subseteq Ends(part)
    BY DEF Holes
<1>7. unread' \in Nat
    BY <1>2, <1>6, PackagesCounted DEF Merge, TypeOK
<1>8. Grown(from) \subseteq Node'
    BY ReachableInside DEF Grown
<1>. QED
    BY <1>1, <1>2, <1>4, <1>5, <1>6, <1>7, <1>8 DEF Merge, TypeOK

LEMMA MergeCounts ==
    ASSUME TypeOK, NEW from, NEW answer \in SUBSET Link, NEW holes \in Holes(answer, from),
           Merge(Partial(answer, holes), from, holes)
    PROVE  unread' >= unread
<1>1. holes \in SUBSET Package
    BY DEF Holes, Ends, Partial, Link
<1>. QED
    BY <1>1, PackagesCounted DEF Merge, TypeOK

LEMMA StepTypes ==
    ASSUME TypeOK, [Next]_vars
    PROVE  TypeOK'
<1>1. ASSUME NEW r \in Root, Start(r) PROVE TypeOK'
  <2>1. Reachable(r) \subseteq Node
      BY ReachableInside DEF Reachable
  <2>2. Node' = Node /\ truth' \in [Node -> Truth]
      BY <1>1, NodeNext DEF Start, TypeOK, Truth
  <2>3. /\ byName' \in [Name -> Node \cup {NoNode}]
        /\ \A m \in Name : byName'[m] # NoNode => byName'[m].name = m
    <3>. DEFINE none == [m \in Name |-> NoNode]
    <3>1. none \in [Name -> Node \cup {NoNode}] /\ \A m \in Name : none[m] # NoNode => none[m].name = m
        OBVIOUS
    <3>2. byName' \in Indexed(none, Reachable(r))
        BY <1>1 DEF Start
    <3>3. Reachable(r) \in SUBSET Node
        BY <2>1
    <3>. HIDE DEF none
    <3>4. IsIndex(none, Node)
        BY <3>1 DEF IsIndex
    <3>5. IsIndex(byName', Node)
        BY <3>2, <3>3, <3>4, IndexedTypes
    <3>. QED
        BY <3>5 DEF IsIndex
  <2>4. seeds' \subseteq Declaration
      BY <1>1, Inputs DEF Start
  <2>5. 0 \in 0..bound.layers
      BY BoundLayers
  <2>6. /\ world' = world /\ bound' = bound /\ edges' = edges /\ marked' = marked
        /\ unread' = unread /\ truncated' = truncated /\ direct' = direct /\ queue' = queue
        /\ closed' = closed /\ unlisted' = unlisted /\ stage = "idle" /\ stage' = "seed"
        /\ todo' = todo \ {r} /\ root' = r /\ frontier' \subseteq Reachable(r)
        /\ expanded' = {} /\ layer' = 0
      BY <1>1 DEF Start, inputs
  <2>7. r # NoNode
      BY ExpandAssumption
  <2>. QED
      BY <2>1, <2>2, <2>3, <2>4, <2>5, <2>6, <2>7 DEF TypeOK, Stage
<1>2. ASSUME NEW d \in seeds, SeedLink(d) PROVE TypeOK'
  <2>1. <<root, byName[d.name]>> \in Node \X Node
      BY <1>2 DEF SeedLink, TypeOK, Declaration
  <2>. QED
      BY <1>2, <2>1 DEF SeedLink, TypeOK, Node, inputs
<1>3. ASSUME NEW d \in seeds, NEW missing \in SUBSET {d.name}, SeedPresume(d, missing) PROVE TypeOK'
  <2>. DEFINE p == Presume(d.name, {d.admits}, missing)
  <2>0. d.name \in Name /\ world \in World
      BY DEF TypeOK, Declaration
  <2>1. p.node \in Package /\ p.truth \in Truth /\ p.node.name = d.name
    <3>1. IsPresumption(p, d.name, {d.admits})
        BY <2>0, PresumeAnswers
    <3>. QED
        BY <3>1 DEF IsPresumption
  <2>2. /\ stage = "seed"
        /\ truth' = WithPresumed({p})
        /\ edges' = edges \cup {<<root, p.node>>}
        /\ byName' = [byName EXCEPT ![d.name] = p.node]
        /\ \/ frontier' = frontier \cup {p.node} /\ marked' = marked
           \/ marked' = marked \cup {p.node} /\ frontier' = frontier
        /\ unlisted' = unlisted \cup missing
        /\ seeds' = seeds \ {d}
      BY <1>3 DEF SeedPresume
  <2>. HIDE DEF p
  <2>3. /\ Node' = Node \cup {p.node}
        /\ truth' \in [Node' -> Truth]
    <3>1. \A q \in {p} : q.node \in Package /\ q.truth \in Truth
        BY <2>1
    <3>2. DOMAIN WithPresumed({p}) = Node \cup {q.node : q \in {p}}
          /\ WithPresumed({p}) \in [Node \cup {q.node : q \in {p}} -> Truth]
        BY <3>1, PresumedGraph
    <3>3. {q.node : q \in {p}} = {p.node}
        OBVIOUS
    <3>. QED
        BY <2>2, <3>2, <3>3, NodeNext
  <2>4. edges' \subseteq Node' \X Node'
    <3>1. edges \in SUBSET (Node \X Node)
        BY DEF TypeOK
    <3>2. root \in Node
        BY <2>2, RootIsNode
    <3>0. PICK N : N = Node'
        OBVIOUS
    <3>3. Node \subseteq N /\ p.node \in N
        BY <2>3, <3>0
    <3>4. edges \cup {<<root, p.node>>} \subseteq N \X N
        BY <3>1, <3>2, <3>3
    <3>. QED
        BY <2>2, <3>0, <3>4
  <2>5. /\ byName' \in [Name -> Node' \cup {NoNode}]
        /\ \A m \in Name : byName'[m] # NoNode => byName'[m].name = m
      BY <2>0, <2>1, <2>2, <2>3 DEF TypeOK
  <2>6. frontier' \subseteq Node' /\ marked' \subseteq Node'
      BY <2>2, <2>3 DEF TypeOK
  <2>. QED
      BY <1>3, <2>0, <2>1, <2>3, <2>4, <2>5, <2>6 DEF SeedPresume, TypeOK, Node, inputs
<1>4. ASSUME AssertLocalRoot PROVE TypeOK'
  <2>1. root \in Root /\ root \in Node
      BY <1>4 DEF AssertLocalRoot, TypeOK
  <2>2. PICK answer \in BuildList[world][root] : \E holes \in Holes(answer, root) :
            /\ Merge(Partial(answer, holes), root, holes)
            /\ expanded' = expanded \cup Grown(root)
            /\ closed' = closed \cup Grown(root) \cup Asserted(Partial(answer, holes), root)
      BY <1>4 DEF AssertLocalRoot
  <2>3. PICK holes \in Holes(answer, root) :
            /\ Merge(Partial(answer, holes), root, holes)
            /\ expanded' = expanded \cup Grown(root)
            /\ closed' = closed \cup Grown(root) \cup Asserted(Partial(answer, holes), root)
      BY <2>2
  <2>4. answer \in SUBSET Link
      BY <2>1, Inputs
  <2>5. /\ Node' \subseteq Package /\ truth' \in [Node' -> Truth]
        /\ Node \subseteq Node'
        /\ edges' \subseteq Node' \X Node'
        /\ marked' \subseteq Node'
        /\ unread' \in Nat
        /\ Grown(root) \subseteq Node'
      BY <2>1, <2>3, <2>4, MergeTypes
  <2>6. Asserted(Partial(answer, holes), root) \subseteq Node'
      BY <2>3, MergeGraph
  <2>. QED
      BY <1>4, <2>1, <2>3, <2>5, <2>6 DEF AssertLocalRoot, TypeOK, Node, inputs, Stage
<1>5. ASSUME NEW dep \in direct, AssertRoot(dep) PROVE TypeOK'
  <2>. DEFINE Closes(part) ==
                  /\ expanded' = expanded \cup {dep}
                  /\ closed' = closed \cup {dep} \cup Asserted(part, dep)
                  /\ byName' \in Indexed(byName, Grown(dep))
  <2>1. dep \in Node
      BY DEF TypeOK
  <2>2. PICK answer \in Subtree[world][dep] : \E holes \in Holes(answer, dep) :
            /\ Merge(Partial(answer, holes), dep, holes)
            /\ UNCHANGED <<expanded, closed, byName>> \/ Closes(Partial(answer, holes))
      BY <1>5 DEF AssertRoot
  <2>3. PICK holes \in Holes(answer, dep) :
            /\ Merge(Partial(answer, holes), dep, holes)
            /\ UNCHANGED <<expanded, closed, byName>> \/ Closes(Partial(answer, holes))
      BY <2>2
  <2>4. answer \in SUBSET Link
      BY <2>1, Inputs
  <2>5. /\ Node' \subseteq Package /\ truth' \in [Node' -> Truth]
        /\ Node \subseteq Node'
        /\ edges' \subseteq Node' \X Node'
        /\ marked' \subseteq Node'
        /\ unread' \in Nat
        /\ Grown(dep) \subseteq Node'
      BY <2>1, <2>3, <2>4, MergeTypes
  <2>6. Asserted(Partial(answer, holes), dep) \subseteq Node'
      BY <2>3, MergeGraph
  <2>7. expanded' \subseteq Node' /\ closed' \subseteq Node'
      BY <2>1, <2>3, <2>5, <2>6 DEF TypeOK
  <2>8. /\ byName' \in [Name -> Node' \cup {NoNode}]
        /\ \A m \in Name : byName'[m] # NoNode => byName'[m].name = m
    <3>1. /\ byName \in [Name -> Node' \cup {NoNode}]
          /\ \A m \in Name : byName[m] # NoNode => byName[m].name = m
        BY <2>5 DEF TypeOK
    <3>2. CASE byName' = byName
        BY <3>1, <3>2
    <3>3. CASE byName' \in Indexed(byName, Grown(dep))
      <4>1. IsIndex(byName, Node')
          BY <3>1 DEF IsIndex
      <4>2. IsIndex(byName', Node')
          BY <3>3, <4>1, <2>5, IndexedTypes
      <4>. QED
          BY <4>2 DEF IsIndex
    <3>. QED
        BY <2>3, <3>2, <3>3
  <2>. QED
      BY <1>5, <2>5, <2>7, <2>8 DEF AssertRoot, TypeOK, Node, inputs
<1>6. ASSUME NEW absent \in SUBSET Batch, ReadLayer(absent) PROVE TypeOK'
  <2>. DEFINE declared == DeclaredBy(Batch \ absent)
  <2>1. Batch \subseteq Node
      BY DEF Batch, TypeOK
  <2>2. declared \subseteq Node \X Declaration
      BY <2>1, Inputs DEF DeclaredBy, TypeOK
  <2>3. edges' \subseteq Node \X Node
    <3>. DEFINE linked == {p \in declared : byName[p[2].name] # NoNode}
    <3>1. \A q \in linked : <<q[1], byName[q[2].name]>> \in Node \X Node
        BY <2>2 DEF TypeOK, Declaration
    <3>2. edges' = edges \cup {<<q[1], byName[q[2].name]>> : q \in linked}
        BY <1>6 DEF ReadLayer
    <3>3. edges \in SUBSET (Node \X Node)
        BY DEF TypeOK
    <3>. HIDE DEF linked
    <3>. QED
        BY <3>1, <3>2, <3>3
  <2>4. queue' \subseteq Node \X Declaration
      BY <1>6, <2>2 DEF ReadLayer
  <2>5. unread' \in Nat
      BY <1>6, <2>1, PackagesCounted DEF ReadLayer, UnreadWith, TypeOK
  <2>. QED
      BY <1>6, <2>1, <2>3, <2>4, <2>5 DEF ReadLayer, MarkedWith, TypeOK, Node, inputs, Stage
<1>7. ASSUME NEW missing \in SUBSET Pending, PresumeLayer(missing) PROVE TypeOK'
  <2>. DEFINE ps    == {Child(m, missing) : m \in Pending}
              nodes == {Child(m, missing).node : m \in Pending}
  <2>1. \A m \in Pending : Child(m, missing).node \in Package /\ Child(m, missing).truth \in Truth
                          /\ Child(m, missing).node.name = m
    <3> SUFFICES ASSUME NEW m \in Pending
                 PROVE  Child(m, missing).node \in Package /\ Child(m, missing).truth \in Truth
                        /\ Child(m, missing).node.name = m
        OBVIOUS
    <3>. QED
        BY ChildAnswers DEF IsPresumption
  <2>2. truth' = WithPresumed(ps)
      BY <1>7 DEF PresumeLayer, Child
  <2>3. \A p \in ps : p.node \in Package /\ p.truth \in Truth
      BY <2>1
  <2>4. Node' = Node \cup nodes /\ truth' \in [Node' -> Truth]
    <3>1. nodes = {p.node : p \in ps}
        OBVIOUS
    <3>2. Node' = Node \cup {p.node : p \in ps} /\ truth' \in [Node \cup {p.node : p \in ps} -> Truth]
        BY <2>2, <2>3, PresumedGraph, NodeNext
    <3>. QED
        BY <3>1, <3>2
  <2>5. nodes \subseteq Package
      BY <2>1
  <2>6. edges' \subseteq Node' \X Node'
    <3>1. edges' = edges \cup {<<q[1], Child(q[2].name, missing).node>> : q \in queue}
        BY <1>7 DEF PresumeLayer, Child
    <3>2. \A q \in queue : q[1] \in Node /\ Child(q[2].name, missing).node \in nodes
        BY PendingNames
    <3>3. edges \in SUBSET (Node \X Node)
        BY DEF TypeOK
    <3>0. PICK N : N = Node'
        OBVIOUS
    <3>4. Node \subseteq N /\ nodes \subseteq N
        BY <2>4, <3>0
    <3>. HIDE DEF nodes
    <3>5. \A q \in queue : <<q[1], Child(q[2].name, missing).node>> \in N \X N
        BY <3>2, <3>4
    <3>6. edges' \subseteq N \X N
        BY <3>1, <3>3, <3>4, <3>5
    <3>. QED
        BY <3>0, <3>6
  <2>7. /\ byName' \in [Name -> Node' \cup {NoNode}]
        /\ \A m \in Name : byName'[m] # NoNode => byName'[m].name = m
    <3>1. byName' = [m \in Name |-> IF m \in Pending THEN Child(m, missing).node ELSE byName[m]]
        BY <1>7 DEF PresumeLayer, Child
    <3>. QED
        BY <2>1, <2>4, <3>1 DEF TypeOK
  <2>8. marked' \subseteq Node' /\ frontier' \subseteq Node'
    <3>1. /\ marked' = marked \cup {n \in nodes : n.version = NoVersion}
          /\ frontier' = {n \in nodes : n.version # NoVersion} \ expanded
        BY <1>7 DEF PresumeLayer, Child
    <3>. QED
        BY <2>4, <3>1 DEF TypeOK
  <2>9. layer' \in 0..bound.layers
      BY <1>7, ExpandAssumption DEF PresumeLayer, TypeOK, Bound
  <2>10. /\ world' = world /\ bound' = bound /\ unread' = unread /\ truncated' = truncated
         /\ todo' = todo /\ root' = root /\ seeds' = seeds /\ direct' = direct
         /\ expanded' = expanded /\ closed' = closed /\ unlisted' = unlisted \cup missing
         /\ queue' = {} /\ stage = "presume" /\ stage' = "read"
      BY <1>7 DEF PresumeLayer, inputs
  <2>11. missing \subseteq Name
      BY PendingNames
  <2>12. Node \subseteq Node' /\ Node' \subseteq Package
      BY <2>4, <2>5 DEF TypeOK
  <2>. HIDE DEF ps, nodes
  <2>. QED
      BY <2>4, <2>6, <2>7, <2>8, <2>9, <2>10, <2>11, <2>12 DEF TypeOK, Stage
<1>8. CASE Seeded \/ AssertDirectDeps \/ AllAsserted \/ Finish \/ Done \/ UNCHANGED vars
           \/ \E dep \in direct : Unresolved(dep)
    BY <1>8 DEF Seeded, AssertDirectDeps, AllAsserted, Finish, Done, Unresolved, TypeOK, Node,
                vars, inputs, graph, walking, Stage, DirectDeps
<1>9. CASE Stop
  <2>1. truncated' \in Nat
      BY <1>9, PackagesCounted DEF Stop, TypeOK
  <2>. QED
      BY <1>9, <2>1 DEF Stop, TypeOK, Node, inputs, Stage
<1>. QED
    BY <1>1, <1>2, <1>3, <1>4, <1>5, <1>6, <1>7, <1>8, <1>9 DEF Next

\* Every reachable state is well typed, whatever projects and registries are
\* considered: edges, marks and the walk's own indexes only ever hold nodes of
\* the graph (internal/expand, ExpandRoot).
THEOREM TypeCorrect == Spec => []TypeOK
<1>1. Init => TypeOK
    BY InitTypes
<1>2. TypeOK /\ [Next]_vars => TypeOK'
    BY StepTypes
<1>. QED
    BY <1>1, <1>2, PTL DEF Spec

-----------------------------------------------------------------------------
(***************************************************************************)
(* Facts are kept.                                                         *)
(***************************************************************************)

\* A node that a resolver added is asserted and has a version.
LEMMA AssertedNodes ==
    ASSUME TypeOK, NEW from \in Node, NEW answer \in Answer(from), NEW holes,
           Merge(Partial(answer, holes), from, holes)
    PROVE  \A n \in Node' \ Node : truth'[n] = "asserted" /\ n.version # NoVersion
<1>1. /\ Node' = Node \cup Asserted(Partial(answer, holes), from)
      /\ \A n \in Asserted(Partial(answer, holes), from) : truth'[n] = "asserted"
    BY MergeGraph
<1>2. Ends(Partial(answer, holes)) \subseteq Ends(answer)
    BY DEF Partial, Ends
<1>. QED
    BY <1>1, <1>2 DEF Answer, Readable, Asserted

\* A node the walk adds is presumed exactly when it has a version.
ArePresumptions(ps) ==
    \A p \in ps : /\ p.node \in Package /\ p.truth \in Truth /\ p.truth # "asserted"
                  /\ p.truth = "presumed" <=> p.node.version # NoVersion

LEMMA PresumedNodes ==
    ASSUME TypeOK, NEW ps, truth' = WithPresumed(ps), ArePresumptions(ps)
    PROVE  \A n \in Node' \ Node : truth'[n] \in {"presumed", "asserted"} <=> n.version # NoVersion
<1>1. \A n \in DOMAIN WithPresumed(ps) \ Node : \E p \in ps : p.node = n /\ WithPresumed(ps)[n] = p.truth
  <2>1. \A p \in ps : p.node \in Package /\ p.truth \in Truth
      BY DEF ArePresumptions
  <2>. QED
      BY <2>1, PresumedGraph
<1>. QED
    BY <1>1, NodeNext DEF ArePresumptions

LEMMA StepKeepsFacts ==
    ASSUME TypeOK, [Next]_vars
    PROVE  KeepsFacts \/ UNCHANGED vars
<1>. DEFINE Versioned == \A n \in Node' \ Node : truth'[n] \in {"presumed", "asserted"} <=> n.version # NoVersion
            Counts == unread <= unread' /\ truncated <= truncated'
<1>0. unread \in Nat /\ truncated \in Nat
    BY DEF TypeOK
<1>1. ASSUME NEW d \in seeds, NEW missing \in SUBSET {d.name}, SeedPresume(d, missing)
      PROVE  Versioned /\ Counts
  <2>. DEFINE p == Presume(d.name, {d.admits}, missing)
  <2>1. IsPresumption(p, d.name, {d.admits})
    <3>1. d.name \in Name /\ world \in World
        BY DEF TypeOK, Declaration
    <3>. QED
        BY <3>1, PresumeAnswers
  <2>2. truth' = WithPresumed({p}) /\ Counts
      BY <1>0, <1>1 DEF SeedPresume
  <2>. HIDE DEF p
  <2>3. ArePresumptions({p})
      BY <2>1 DEF IsPresumption, ArePresumptions
  <2>. QED
      BY <2>2, <2>3, PresumedNodes
<1>2. ASSUME NEW missing \in SUBSET Pending, PresumeLayer(missing)
      PROVE  Versioned /\ Counts
  <2>. DEFINE ps == {Child(m, missing) : m \in Pending}
  <2>1. ArePresumptions(ps)
    <3>1. ASSUME NEW m \in Pending
          PROVE  /\ Child(m, missing).node \in Package
                 /\ Child(m, missing).truth \in Truth /\ Child(m, missing).truth # "asserted"
                 /\ Child(m, missing).truth = "presumed" <=> Child(m, missing).node.version # NoVersion
        BY ChildAnswers DEF IsPresumption
    <3>. QED
        BY <3>1 DEF ArePresumptions
  <2>2. truth' = WithPresumed(ps) /\ Counts
      BY <1>0, <1>2 DEF PresumeLayer, Child
  <2>. HIDE DEF ps
  <2>. QED
      BY <2>1, <2>2, PresumedNodes
<1>3. ASSUME AssertLocalRoot PROVE Versioned /\ Counts
  <2>1. root \in Root /\ root \in Node
      BY <1>3, RootIsNode DEF AssertLocalRoot
  <2>2. PICK answer \in BuildList[world][root] :
            \E holes \in Holes(answer, root) : Merge(Partial(answer, holes), root, holes)
      BY <1>3 DEF AssertLocalRoot
  <2>3. PICK holes \in Holes(answer, root) : Merge(Partial(answer, holes), root, holes)
      BY <2>2
  <2>4. answer \in Answer(root) /\ answer \in SUBSET Link
      BY <2>1, ExpandAssumption DEF TypeOK, Answer
  <2>5. \A n \in Node' \ Node : truth'[n] = "asserted" /\ n.version # NoVersion
      BY <2>1, <2>3, <2>4, AssertedNodes
  <2>6. Counts
      BY <1>0, <1>3, <2>1, <2>3, <2>4, MergeCounts DEF AssertLocalRoot
  <2>. QED
      BY <2>5, <2>6
<1>4. ASSUME NEW dep \in direct, AssertRoot(dep) PROVE Versioned /\ Counts
  <2>1. dep \in Node /\ dep \in Package
      BY DEF TypeOK
  <2>2. PICK answer \in Subtree[world][dep] :
            \E holes \in Holes(answer, dep) : Merge(Partial(answer, holes), dep, holes)
      BY <1>4 DEF AssertRoot
  <2>3. PICK holes \in Holes(answer, dep) : Merge(Partial(answer, holes), dep, holes)
      BY <2>2
  <2>4. answer \in Answer(dep) /\ answer \in SUBSET Link
      BY <2>1, ExpandAssumption DEF TypeOK, Answer
  <2>5. \A n \in Node' \ Node : truth'[n] = "asserted" /\ n.version # NoVersion
      BY <2>1, <2>3, <2>4, AssertedNodes
  <2>6. Counts
      BY <1>0, <1>4, <2>1, <2>3, <2>4, MergeCounts DEF AssertRoot
  <2>. QED
      BY <2>5, <2>6
<1>5. ASSUME NEW absent \in SUBSET Batch, ReadLayer(absent) PROVE Versioned /\ Counts
  <2>1. absent \in SUBSET Package
      BY DEF Batch, TypeOK
  <2>2. Cardinality(absent) \in Nat
      BY <2>1, PackagesCounted
  <2>. QED
      BY <1>0, <1>5, <2>2 DEF ReadLayer, UnreadWith, Node
<1>6. ASSUME Stop PROVE Versioned /\ Counts
  <2>1. Cardinality(frontier) \in Nat
      BY PackagesCounted DEF TypeOK
  <2>. QED
      BY <1>0, <1>6, <2>1 DEF Stop, Node
<1>7. ASSUME NEW r \in Root, Start(r) PROVE Versioned /\ Counts
    BY <1>0, <1>7, NodeNext DEF Start
<1>8. ASSUME \/ Seeded \/ AssertDirectDeps \/ AllAsserted \/ Finish
             \/ \E dep \in direct : Unresolved(dep)
             \/ \E d \in seeds : SeedLink(d)
      PROVE  Versioned /\ Counts
    BY <1>0, <1>8 DEF Seeded, AssertDirectDeps, AllAsserted, Finish, Unresolved, SeedLink, Node, graph
<1>9. UNCHANGED vars \/ (Versioned /\ Counts)
  <2>1. CASE Next
    <3>. HIDE DEF Versioned, Counts
    <3>. QED
        BY <2>1, <1>1, <1>2, <1>3, <1>4, <1>5, <1>6, <1>7, <1>8 DEF Next, Done
  <2>. QED
      BY <2>1
<1>. QED
    BY <1>9, StepGrows DEF KeepsFacts, Grows

\* Whatever a run of the walk discovers stays: nodes, edges, marks and counts are
\* never taken back, and no later answer restates the truth of a node that has
\* one (AddNode's first-write-wins and the walk's use of it).
THEOREM KeepsWhatItFound == Spec => FactsKept
<1>1. TypeOK /\ [Next]_vars => [KeepsFacts]_vars
    BY StepKeepsFacts
<1>. QED
    BY <1>1, TypeCorrect, PTL DEF Spec, FactsKept

-----------------------------------------------------------------------------
(***************************************************************************)
(* No silent hole.                                                         *)
(***************************************************************************)

\* What is linked, known or reached stays so: a step only adds.
LEMMA StepMonotone ==
    ASSUME TypeOK, TypeOK', Grows
    PROVE  /\ \A n, d : Linked(n, d) => Linked(n, d)'
           /\ \A n : Known(n) => Known(n)'
           /\ \A n \in Node : Reachable(n) \subseteq Reachable(n)'
           /\ Stranded' = Stranded
<1>1. ASSUME NEW n, NEW d, Linked(n, d) PROVE Linked(n, d)'
    BY <1>1 DEF Linked, Grows
<1>2. ASSUME NEW n, Known(n) PROVE Known(n)'
    BY <1>1, <1>2 DEF Known, Grows
<1>3. ASSUME NEW n \in Node PROVE Reachable(n) \subseteq Reachable(n)'
  <2>1. edges \subseteq Node \X Node /\ Node \subseteq Node' /\ edges \subseteq edges'
      BY DEF TypeOK, Grows
  <2>2. ReachableIn(Node, edges, n) \subseteq ReachableIn(Node', edges', n)
      BY <2>1, ReachableGrows
  <2>. QED
      BY <2>2 DEF Reachable
<1>4. Stranded' = Stranded
    BY DEF Stranded, Grows
<1>. QED
    BY <1>1, <1>2, <1>3, <1>4

\* A package whose declarations came back is answered in its layer, any other
\* is marked.
LEMMA LayerRead ==
    ASSUME TypeOK, NEW absent \in SUBSET Batch, ReadLayer(absent), NEW n \in Batch
    PROVE  n \in marked' \/ Answered(n)'
<1>. DEFINE declared == DeclaredBy(Batch \ absent)
<1>1. CASE n \in absent
    BY <1>1 DEF ReadLayer, MarkedWith
<1>2. CASE n \notin absent
  <2>1. SUFFICES ASSUME NEW d \in Requires[world][n] PROVE Linked(n, d)' \/ <<n, d>> \in queue'
      BY DEF Answered, ReadLayer, inputs
  <2>2. <<n, d>> \in declared
      BY <1>2 DEF DeclaredBy
  <2>3. n \in Package /\ d \in Declaration
    <3>1. n \in Package
        BY DEF Batch, TypeOK
    <3>. QED
        BY <3>1, Inputs
  <2>4. CASE byName[d.name] = NoNode
    <3>1. queue' = {q \in declared : byName[q[2].name] = NoNode}
        BY DEF ReadLayer
    <3>. HIDE DEF declared
    <3>. QED
        BY <2>2, <2>4, <3>1
  <2>5. CASE byName[d.name] # NoNode
    <3>1. byName[d.name].name = d.name
        BY <2>3, <2>5 DEF TypeOK, Declaration
    <3>2. edges' = edges \cup {<<q[1], byName[q[2].name]>> : q \in {p \in declared : byName[p[2].name] # NoNode}}
        BY DEF ReadLayer
    <3>. HIDE DEF declared
    <3>3. <<n, byName[d.name]>> \in edges'
        BY <2>2, <2>5, <3>2
    <3>. QED
        BY <3>1, <3>3 DEF Linked
  <2>. QED
      BY <2>4, <2>5
<1>. QED
    BY <1>1, <1>2

\* What a layer queued, the next presumption links.
LEMMA LayerPresumed ==
    ASSUME TypeOK, TypeOK', Grows, NEW missing \in SUBSET Pending, PresumeLayer(missing),
           NEW n, Answered(n)
    PROVE  Known(n)'
<1>1. SUFFICES ASSUME NEW d \in Requires[world][n], <<n, d>> \in queue PROVE Linked(n, d)'
    BY StepMonotone DEF Answered, Known, Grows
<1>2. edges' = edges \cup {<<q[1], Child(q[2].name, missing).node>> : q \in queue}
    BY DEF PresumeLayer, Child
<1>3. <<n, Child(d.name, missing).node>> \in edges'
    BY <1>1, <1>2
<1>4. Child(d.name, missing).node.name = d.name
  <2>1. d.name \in Pending
      BY <1>1, PendingNames
  <2>. QED
      BY <2>1, ChildAnswers DEF IsPresumption
<1>. QED
    BY <1>3, <1>4 DEF Linked

\* The nodes that a presumption adds.
LEMMA SeedNodes ==
    ASSUME TypeOK, NEW d \in seeds, NEW missing \in SUBSET {d.name}, SeedPresume(d, missing)
    PROVE  LET p == Presume(d.name, {d.admits}, missing)
           IN  /\ IsPresumption(p, d.name, {d.admits})
               /\ Node' = Node \cup {p.node}
               /\ \A n \in Node : truth'[n] = truth[n]
               /\ p.node \notin Node => truth'[p.node] = p.truth
<1>. DEFINE p == Presume(d.name, {d.admits}, missing)
<1>1. IsPresumption(p, d.name, {d.admits})
  <2>1. d.name \in Name /\ world \in World
      BY DEF TypeOK, Declaration
  <2>. QED
      BY <2>1, PresumeAnswers
<1>2. truth' = WithPresumed({p})
    BY DEF SeedPresume
<1>. HIDE DEF p
<1>3. \A q \in {p} : q.node \in Package /\ q.truth \in Truth
    BY <1>1 DEF IsPresumption
<1>4. /\ DOMAIN WithPresumed({p}) = Node \cup {q.node : q \in {p}}
      /\ \A n \in Node : WithPresumed({p})[n] = truth[n]
      /\ \A n \in DOMAIN WithPresumed({p}) \ Node :
            \E q \in {p} : q.node = n /\ WithPresumed({p})[n] = q.truth
    BY <1>3, PresumedGraph
<1>5. {q.node : q \in {p}} = {p.node}
    OBVIOUS
<1>6. /\ IsPresumption(p, d.name, {d.admits})
      /\ Node' = Node \cup {p.node}
      /\ \A n \in Node : truth'[n] = truth[n]
      /\ p.node \notin Node => truth'[p.node] = p.truth
    BY <1>1, <1>2, <1>4, <1>5, NodeNext
<1>. QED
    BY <1>6 DEF p

LEMMA LayerNodes ==
    ASSUME TypeOK, NEW missing \in SUBSET Pending, PresumeLayer(missing)
    PROVE  /\ \A m \in Pending : IsPresumption(Child(m, missing), m, Constraints(m))
           /\ Node' = Node \cup {Child(m, missing).node : m \in Pending}
           /\ \A n \in Node : truth'[n] = truth[n]
           /\ \A n \in Node' \ Node : truth'[n] # "asserted"
<1>. DEFINE ps == {Child(m, missing) : m \in Pending}
<1>1. \A m \in Pending : IsPresumption(Child(m, missing), m, Constraints(m))
    BY ChildAnswers
<1>2. truth' = WithPresumed(ps)
    BY DEF PresumeLayer, Child
<1>3. \A p \in ps : p.node \in Package /\ p.truth \in Truth /\ p.truth # "asserted"
  <2>1. SUFFICES ASSUME NEW m \in Pending
                 PROVE  /\ Child(m, missing).node \in Package /\ Child(m, missing).truth \in Truth
                        /\ Child(m, missing).truth # "asserted"
      OBVIOUS
  <2>. QED
      BY <1>1 DEF IsPresumption
<1>4. {Child(m, missing).node : m \in Pending} = {p.node : p \in ps}
    OBVIOUS
<1>. HIDE DEF ps
<1>5. \A p \in ps : p.node \in Package /\ p.truth \in Truth
    BY <1>3
<1>6. DOMAIN WithPresumed(ps) = Node \cup {p.node : p \in ps}
    BY <1>5, PresumedGraph
<1>7. Node' = Node \cup {Child(m, missing).node : m \in Pending}
    BY <1>2, <1>4, <1>6, NodeNext
<1>8. \A n \in Node : truth'[n] = truth[n]
    BY <1>2, <1>5, PresumedGraph
<1>9. \A n \in Node' \ Node : truth'[n] # "asserted"
  <2>1. \A n \in DOMAIN WithPresumed(ps) \ Node :
            \E p \in ps : p.node = n /\ WithPresumed(ps)[n] = p.truth
      BY <1>5, PresumedGraph
  <2>. QED
      BY <1>2, <1>3, <2>1, NodeNext
<1>. QED
    BY <1>1, <1>7, <1>8, <1>9

\* What a resolver's answer adds: asserted nodes, and marks that were counted.
LEMMA MergeMarks ==
    ASSUME TypeOK, NEW from, NEW answer \in SUBSET Link, NEW holes \in Holes(answer, from),
           Merge(Partial(answer, holes), from, holes)
    PROVE  unread' >= unread /\ (marked' \subseteq marked \/ unread' > 0)
<1>1. holes \in SUBSET Package
    BY DEF Holes, Ends, Partial, Link
<1>2. Cardinality(holes) \in Nat /\ (holes # {} => Cardinality(holes) > 0)
    BY <1>1, PackagesCounted
<1>3. unread \in Nat /\ unread' = unread + Cardinality(holes) /\ marked' = marked \cup holes
    BY DEF Merge, TypeOK
<1>4. holes # {} => unread' > 0
    BY <1>2, <1>3
<1>. QED
    BY <1>2, <1>3, <1>4

LEMMA LocalRootAsserted ==
    ASSUME TypeOK, AssertLocalRoot
    PROVE  /\ Node' \ Node \subseteq closed'
           /\ expanded' \subseteq expanded \cup closed'
           /\ unread' >= unread /\ (marked' \subseteq marked \/ unread' > 0)
<1>1. root \in Root /\ root \in Node
    BY RootIsNode DEF AssertLocalRoot
<1>2. PICK answer \in BuildList[world][root] : \E holes \in Holes(answer, root) :
          /\ Merge(Partial(answer, holes), root, holes)
          /\ expanded' = expanded \cup Grown(root)
          /\ closed' = closed \cup Grown(root) \cup Asserted(Partial(answer, holes), root)
    BY DEF AssertLocalRoot
<1>3. PICK holes \in Holes(answer, root) :
          /\ Merge(Partial(answer, holes), root, holes)
          /\ expanded' = expanded \cup Grown(root)
          /\ closed' = closed \cup Grown(root) \cup Asserted(Partial(answer, holes), root)
    BY <1>2
<1>4. answer \in SUBSET Link
    BY <1>1, Inputs
<1>5. unread' >= unread /\ (marked' \subseteq marked \/ unread' > 0)
    BY <1>3, <1>4, MergeMarks
<1>6. Node' = Node \cup Asserted(Partial(answer, holes), root)
    BY <1>3, MergeGraph
<1>. QED
    BY <1>3, <1>5, <1>6

LEMMA DirectDepAsserted ==
    ASSUME TypeOK, NEW dep \in direct, AssertRoot(dep)
    PROVE  /\ Node' \ Node \subseteq closed'
           /\ expanded' \subseteq expanded \cup closed'
           /\ unread' >= unread /\ (marked' \subseteq marked \/ unread' > 0)
           /\ byName' = byName \/ byName' \in Indexed(byName, Grown(dep))
<1>. DEFINE Closes(part) ==
                /\ expanded' = expanded \cup {dep}
                /\ closed' = closed \cup {dep} \cup Asserted(part, dep)
                /\ byName' \in Indexed(byName, Grown(dep))
            Effects(part) ==
                \/ Asserted(part, dep) = {} /\ UNCHANGED <<expanded, closed, byName>>
                \/ Closes(part)
<1>1. dep \in Node
    BY DEF TypeOK
<1>2. PICK answer \in Subtree[world][dep] : \E holes \in Holes(answer, dep) :
          Merge(Partial(answer, holes), dep, holes) /\ Effects(Partial(answer, holes))
    BY DEF AssertRoot
<1>3. PICK holes \in Holes(answer, dep) :
          Merge(Partial(answer, holes), dep, holes) /\ Effects(Partial(answer, holes))
    BY <1>2
<1>4. answer \in SUBSET Link
    BY <1>1, Inputs
<1>5. unread' >= unread /\ (marked' \subseteq marked \/ unread' > 0)
    BY <1>3, <1>4, MergeMarks
<1>6. Node' = Node \cup Asserted(Partial(answer, holes), dep)
    BY <1>3, MergeGraph
<1>7. CASE Asserted(Partial(answer, holes), dep) = {} /\ UNCHANGED <<expanded, closed, byName>>
    BY <1>5, <1>6, <1>7
<1>8. CASE Closes(Partial(answer, holes))
    BY <1>5, <1>6, <1>8
<1>. QED
    BY <1>3, <1>7, <1>8

\* A node that was accounted for stays so.
LEMMA OldNodeAccounted ==
    ASSUME IInv, TypeOK', Grows, [Next]_vars, NEW n \in Node, Readable(n), Accounted(n)
    PROVE  Accounted(n)'
<1>0. TypeOK
    BY DEF IInv
<1>1. CASE Known(n)
    BY <1>0, <1>1, StepMonotone DEF Accounted
<1>2. CASE n \in marked
    BY <1>2 DEF Accounted, Grows
<1>3. CASE n \in frontier /\ stage # "presume"
  <2>1. stage \notin {"idle", "done"}
      BY <1>3 DEF IInv, StagesApart
  <2>2. ASSUME NEW absent \in SUBSET Batch, ReadLayer(absent) PROVE Accounted(n)'
    <3>1. stage = "read" /\ stage' = "presume"
        BY <2>2 DEF ReadLayer
    <3>2. CASE n \in Batch
        BY <1>0, <2>2, <3>1, <3>2, LayerRead DEF Accounted
    <3>3. CASE n \notin Batch
      <4>1. Known(n) \/ n \in marked
          BY <1>3, <2>1, <3>3 DEF Batch, IInv, ExpandedFinished
      <4>. QED
          BY <1>1, <1>2, <4>1
    <3>. QED
        BY <3>2, <3>3
  <2>3. CASE Stop
      BY <1>3, <2>3 DEF Stop, Accounted
  <2>4. ASSUME NEW d \in seeds, NEW missing \in SUBSET {d.name}, SeedPresume(d, missing)
        PROVE  Accounted(n)'
    <3>1. frontier \subseteq frontier' /\ stage' = "seed"
        BY <2>4 DEF SeedPresume
    <3>. QED
        BY <1>3, <3>1 DEF Accounted
  <2>5. CASE \/ \E d \in seeds : SeedLink(d)
             \/ Seeded \/ AssertLocalRoot \/ AssertDirectDeps \/ AllAsserted
             \/ \E dep \in direct : Unresolved(dep) \/ AssertRoot(dep)
    <3>1. frontier' = frontier /\ stage' # "presume"
        BY <2>5 DEF SeedLink, Seeded, AssertLocalRoot, AssertDirectDeps, AllAsserted, Unresolved,
                    AssertRoot, walking
    <3>. QED
        BY <1>3, <3>1 DEF Accounted
  <2>6. CASE UNCHANGED vars
    <3>1. frontier' = frontier /\ stage' = stage
        BY <2>6 DEF vars, walking
    <3>. QED
        BY <1>3, <3>1 DEF Accounted
  <2>7. ~Finish /\ ~Done /\ (\A r \in Root : ~Start(r))
        /\ \A missing \in SUBSET Pending : ~PresumeLayer(missing)
      BY <1>3, <2>1 DEF Finish, Done, Start, PresumeLayer
  <2>. QED
      BY <2>2, <2>3, <2>4, <2>5, <2>6, <2>7 DEF Next
<1>4. CASE stage = "presume" /\ Answered(n)
  <2>1. ASSUME NEW missing \in SUBSET Pending, PresumeLayer(missing) PROVE Accounted(n)'
      BY <1>0, <1>4, <2>1, LayerPresumed DEF Accounted
  <2>2. CASE UNCHANGED vars
    <3>1. Accounted(n)' <=> Accounted(n)
        BY <2>2 DEF vars, inputs, graph, walking, Accounted, Known, Answered, Linked, Reachable, Node
    <3>. QED
        BY <3>1
  <2>3. CASE Next
    <3>1. \E missing \in SUBSET Pending : PresumeLayer(missing)
        BY <1>4, <2>3 DEF Next, Start, SeedLink, SeedPresume, Seeded, AssertLocalRoot, AssertDirectDeps,
                          Unresolved, AssertRoot, AllAsserted, ReadLayer, Stop, Finish, Done
    <3>. QED
        BY <2>1, <3>1
  <2>. QED
      BY <2>2, <2>3
<1>5. CASE \E r \in todo : n \in Reachable(r)
  <2>1. PICK r \in todo : n \in Reachable(r)
      BY <1>5
  <2>2. r \in Node /\ r \in Root
      BY <1>0 DEF TypeOK
  <2>3. n \in Reachable(r)'
      BY <1>0, <2>1, <2>2, StepMonotone
  <2>4. CASE r \in todo'
      BY <2>3, <2>4 DEF Accounted
  <2>5. CASE r \notin todo'
    <3>1. Start(r)
        BY <2>1, <2>5 DEF Next, Start, SeedLink, SeedPresume, Seeded, AssertLocalRoot, AssertDirectDeps,
                          Unresolved, AssertRoot, AllAsserted, ReadLayer, PresumeLayer, Stop, Finish, Done,
                          vars, walking
    <3>2. CASE truth[n] = "asserted"
      <4>1. n \in closed
          BY <3>2 DEF IInv, AssertedClosed
      <4>. QED
          BY <1>1, <4>1 DEF Known
    <3>3. CASE truth[n] # "asserted"
      <4>1. n \in frontier' /\ stage' = "seed"
          BY <2>1, <3>1, <3>3 DEF Start
      <4>. QED
          BY <4>1 DEF Accounted
    <3>. QED
        BY <3>2, <3>3
  <2>. QED
      BY <2>4, <2>5
<1>. QED
    BY <1>1, <1>2, <1>3, <1>4, <1>5 DEF Accounted

\* The steps that add no node.
LEMMA NodesKept ==
    ASSUME TypeOK, [Next]_vars
    PROVE  \/ Node' = Node
           \/ \E d \in seeds : \E missing \in SUBSET {d.name} : SeedPresume(d, missing)
           \/ AssertLocalRoot
           \/ \E dep \in direct : AssertRoot(dep)
           \/ \E missing \in SUBSET Pending : PresumeLayer(missing)
BY DEF Next, Start, SeedLink, Seeded, AssertDirectDeps, Unresolved, AllAsserted, ReadLayer, Stop,
       Finish, Done, vars, graph, Node

\* A node that is new is closed by the answer it came with, or is to be read.
LEMMA NewNodeAccounted ==
    ASSUME TypeOK, TypeOK', [Next]_vars, NEW n \in Node' \ Node, Readable(n)
    PROVE  Accounted(n)'
<1>1. ASSUME NEW d \in seeds, NEW missing \in SUBSET {d.name}, SeedPresume(d, missing)
      PROVE  Accounted(n)'
  <2>. DEFINE p == Presume(d.name, {d.admits}, missing)
  <2>1. Node' = Node \cup {p.node}
      BY <1>1, SeedNodes
  <2>2. n.version # NoVersion
      BY DEF Readable
  <2>3. /\ p.node.version # NoVersion => frontier' = frontier \cup {p.node}
        /\ stage' = "seed"
      BY <1>1 DEF SeedPresume
  <2>. HIDE DEF p
  <2>4. n \in frontier'
      BY <2>1, <2>2, <2>3
  <2>. QED
      BY <2>3, <2>4 DEF Accounted
<1>2. ASSUME AssertLocalRoot PROVE Accounted(n)'
    BY <1>2, LocalRootAsserted DEF Accounted, Known
<1>3. ASSUME NEW dep \in direct, AssertRoot(dep) PROVE Accounted(n)'
    BY <1>3, DirectDepAsserted DEF Accounted, Known
<1>4. ASSUME NEW missing \in SUBSET Pending, PresumeLayer(missing) PROVE Accounted(n)'
  <2>1. n \in {Child(m, missing).node : m \in Pending}
      BY <1>4, LayerNodes
  <2>2. n.version # NoVersion /\ n \notin expanded
      BY DEF Readable, TypeOK
  <2>3. /\ frontier' = {k \in {Child(m, missing).node : m \in Pending} : k.version # NoVersion} \ expanded
        /\ stage' = "read"
      BY <1>4 DEF PresumeLayer, Child
  <2>4. n \in frontier'
      BY <2>1, <2>2, <2>3
  <2>. QED
      BY <2>3, <2>4 DEF Accounted
<1>. QED
    BY <1>1, <1>2, <1>3, <1>4, NodesKept

LEMMA StepLosesNothing ==
    ASSUME IInv, TypeOK', Grows, [Next]_vars
    PROVE  NothingLost'
<1>0. TypeOK /\ NothingLost
    BY DEF IInv
<1>1. SUFFICES ASSUME NEW n \in Node', n \notin Stranded, Readable(n) PROVE Accounted(n)'
    BY <1>0, StepMonotone DEF NothingLost
<1>2. CASE n \in Node
  <2>1. Accounted(n)
      BY <1>0, <1>1, <1>2 DEF NothingLost
  <2>. QED
      BY <1>1, <1>2, <2>1, OldNodeAccounted
<1>3. CASE n \notin Node
    BY <1>0, <1>1, <1>3, NewNodeAccounted
<1>. QED
    BY <1>2, <1>3

LEMMA StepLinksSeeds ==
    ASSUME IInv, TypeOK', Grows, [Next]_vars
    PROVE  SeedsLinked'
<1>0. TypeOK /\ SeedsLinked /\ Root' = Root
    BY DEF IInv
<1>. SUFFICES ASSUME NEW r \in Root, r \notin todo', NEW d \in Declared[world][r]
              PROVE  Linked(r, d)' \/ (stage' = "seed" /\ r = root' /\ d \in seeds')
    BY DEF SeedsLinked, Grows
<1>1. d \in Declaration
    BY <1>0, Inputs
<1>2. CASE r \in todo
  <2>1. Start(r)
      BY <1>2 DEF Next, Start, SeedLink, SeedPresume, Seeded, AssertLocalRoot, AssertDirectDeps,
                  Unresolved, AssertRoot, AllAsserted, ReadLayer, PresumeLayer, Stop, Finish, Done,
                  vars, walking
  <2>. QED
      BY <2>1 DEF Start
<1>3. CASE Linked(r, d)
    BY <1>0, <1>3, StepMonotone
<1>4. CASE stage = "seed" /\ r = root /\ d \in seeds
  <2>1. CASE SeedLink(d)
    <3>1. byName[d.name] # NoNode /\ byName[d.name].name = d.name
        BY <1>0, <1>1, <2>1 DEF SeedLink, TypeOK, Declaration
    <3>2. <<r, byName[d.name]>> \in edges'
        BY <1>4, <2>1 DEF SeedLink
    <3>. QED
        BY <3>1, <3>2 DEF Linked
  <2>2. ASSUME NEW missing \in SUBSET {d.name}, SeedPresume(d, missing) PROVE Linked(r, d)'
    <3>. DEFINE p == Presume(d.name, {d.admits}, missing)
    <3>1. p.node.name = d.name
        BY <1>0, <1>4, <2>2, SeedNodes DEF IsPresumption
    <3>2. <<r, p.node>> \in edges'
        BY <1>4, <2>2 DEF SeedPresume
    <3>. HIDE DEF p
    <3>. QED
        BY <3>1, <3>2 DEF Linked
  <2>3. CASE /\ ~SeedLink(d) /\ \A missing \in SUBSET {d.name} : ~SeedPresume(d, missing)
    <3>1. ASSUME NEW b \in seeds, SeedLink(b) \/ \E missing \in SUBSET {b.name} : SeedPresume(b, missing)
          PROVE  stage' = "seed" /\ root' = root /\ d \in seeds'
      <4>1. b # d
          BY <2>3, <3>1
      <4>2. stage' = stage /\ root' = root /\ seeds' = seeds \ {b}
          BY <3>1 DEF SeedLink, SeedPresume
      <4>. QED
          BY <1>4, <4>1, <4>2
    <3>2. CASE UNCHANGED vars
        BY <1>4, <3>2 DEF vars, walking
    <3>3. CASE Next
      <4>1. \E b \in seeds : SeedLink(b) \/ \E missing \in SUBSET {b.name} : SeedPresume(b, missing)
          BY <1>4, <3>3 DEF Next, Start, Seeded, AssertLocalRoot, AssertDirectDeps, Unresolved,
                            AssertRoot, AllAsserted, ReadLayer, PresumeLayer, Stop, Finish, Done
      <4>2. stage' = "seed" /\ root' = root /\ d \in seeds'
          BY <3>1, <4>1
      <4>. QED
          BY <1>4, <4>2
    <3>. QED
        BY <3>2, <3>3
  <2>. QED
      BY <2>1, <2>2, <2>3
<1>. QED
    BY <1>0, <1>2, <1>3, <1>4 DEF SeedsLinked

LEMMA StepFinishesExpanded ==
    ASSUME IInv, TypeOK', Grows, [Next]_vars
    PROVE  ExpandedFinished'
<1>0. TypeOK
    BY DEF IInv
<1>. SUFFICES ASSUME stage' \notin {"idle", "done"}, NEW n \in expanded'
              PROVE  Known(n)' \/ n \in marked' \/ (stage' = "presume" /\ Answered(n)')
    BY DEF ExpandedFinished
<1>1. ASSUME n \in expanded, stage \notin {"idle", "done", "presume"}
      PROVE  Known(n)' \/ n \in marked'
  <2>1. Known(n) \/ n \in marked
      BY <1>1 DEF IInv, ExpandedFinished
  <2>. QED
      BY <1>0, <2>1, StepMonotone DEF Grows
<1>2. ASSUME NEW r \in Root, Start(r) PROVE FALSE
    BY <1>2 DEF Start
<1>3. CASE \/ \E d \in seeds : SeedLink(d) \/ \E missing \in SUBSET {d.name} : SeedPresume(d, missing)
           \/ Seeded \/ AssertDirectDeps \/ AllAsserted
           \/ \E dep \in direct : Unresolved(dep)
  <2>1. expanded' = expanded /\ stage \notin {"idle", "done", "presume"}
      BY <1>3 DEF SeedLink, SeedPresume, Seeded, AssertDirectDeps, AllAsserted, Unresolved, walking
  <2>. QED
      BY <1>1, <2>1
<1>4. CASE AssertLocalRoot
  <2>1. n \in expanded \/ n \in closed'
      BY <1>0, <1>4, LocalRootAsserted
  <2>2. stage = "assert"
      BY <1>4 DEF AssertLocalRoot
  <2>. QED
      BY <1>1, <2>1, <2>2 DEF Known
<1>5. ASSUME NEW dep \in direct, AssertRoot(dep) PROVE Known(n)' \/ n \in marked'
  <2>1. n \in expanded \/ n \in closed'
      BY <1>0, <1>5, DirectDepAsserted
  <2>2. stage = "direct"
      BY <1>5 DEF AssertRoot
  <2>. QED
      BY <1>1, <2>1, <2>2 DEF Known
<1>6. ASSUME NEW absent \in SUBSET Batch, ReadLayer(absent)
      PROVE  Known(n)' \/ n \in marked' \/ (stage' = "presume" /\ Answered(n)')
  <2>1. stage = "read" /\ stage' = "presume" /\ expanded' = expanded \cup Batch
      BY <1>6 DEF ReadLayer
  <2>. QED
      BY <1>0, <1>1, <1>6, <2>1, LayerRead
<1>7. ASSUME NEW missing \in SUBSET Pending, PresumeLayer(missing) PROVE Known(n)' \/ n \in marked'
  <2>1. n \in expanded /\ stage = "presume"
      BY <1>7 DEF PresumeLayer
  <2>2. Known(n) \/ n \in marked \/ Answered(n)
      BY <2>1 DEF IInv, ExpandedFinished
  <2>. QED
      BY <1>0, <1>7, <2>2, LayerPresumed, StepMonotone DEF Grows
<1>8. CASE Stop \/ Finish \/ Done
    BY <1>8 DEF Stop, Finish, Done, vars
<1>9. CASE UNCHANGED vars
  <2>1. /\ Known(n)' <=> Known(n)
        /\ Answered(n)' <=> Answered(n)
        /\ stage' = stage /\ expanded' = expanded /\ marked' = marked
      BY <1>9 DEF vars, inputs, graph, walking, Known, Answered, Linked
  <2>. QED
      BY <2>1 DEF IInv, ExpandedFinished
<1>. QED
    BY <1>2, <1>3, <1>4, <1>5, <1>6, <1>7, <1>8, <1>9 DEF Next

LEMMA StepClosesAsserted ==
    ASSUME IInv, TypeOK', Grows, [Next]_vars
    PROVE  AssertedClosed'
<1>0. TypeOK /\ AssertedClosed
    BY DEF IInv
<1>. SUFFICES ASSUME NEW n \in Node', truth'[n] = "asserted"
              PROVE  n \in closed'
    BY DEF AssertedClosed
<1>1. CASE n \in Node
  <2>1. truth[n] = "asserted"
      BY <1>1 DEF Grows
  <2>. QED
      BY <1>0, <1>1, <2>1 DEF AssertedClosed, Grows
<1>2. CASE n \notin Node
  <2>1. ASSUME NEW d \in seeds, NEW missing \in SUBSET {d.name}, SeedPresume(d, missing) PROVE FALSE
    <3>. DEFINE p == Presume(d.name, {d.admits}, missing)
    <3>1. /\ IsPresumption(p, d.name, {d.admits})
          /\ Node' = Node \cup {p.node}
          /\ p.node \notin Node => truth'[p.node] = p.truth
        BY <1>0, <2>1, SeedNodes
    <3>. HIDE DEF p
    <3>. QED
        BY <1>2, <3>1 DEF IsPresumption
  <2>2. ASSUME NEW missing \in SUBSET Pending, PresumeLayer(missing) PROVE FALSE
      BY <1>0, <1>2, <2>2, LayerNodes
  <2>3. AssertLocalRoot \/ \E dep \in direct : AssertRoot(dep)
      BY <1>0, <1>2, <2>1, <2>2, NodesKept
  <2>. QED
      BY <1>0, <1>2, <2>3, LocalRootAsserted, DirectDepAsserted
<1>. QED
    BY <1>1, <1>2

LEMMA CountsAdd ==
    ASSUME NEW a \in Nat, NEW b \in Nat, NEW c \in Nat, NEW d \in Nat,
           a <= c, b <= d, a + b > 0 \/ c > 0 \/ d > 0
    PROVE  c + d > 0
OBVIOUS

LEMMA StepCountsMarks ==
    ASSUME IInv, TypeOK', Grows, [Next]_vars
    PROVE  MarksCounted'
<1>0. TypeOK /\ unread \in Nat /\ truncated \in Nat /\ unread' \in Nat /\ truncated' \in Nat
    BY DEF IInv, TypeOK
<1>. SUFFICES ASSUME NEW n \in marked', n.version # NoVersion
              PROVE  (unread + truncated > 0)'
    BY DEF MarksCounted
<1>1. unread <= unread' /\ truncated <= truncated'
  <2>1. KeepsFacts \/ UNCHANGED vars
      BY <1>0, StepKeepsFacts
  <2>. QED
      BY <1>0, <2>1 DEF KeepsFacts, vars
<1>2. CASE n \in marked
  <2>1. unread + truncated > 0
      BY <1>2 DEF IInv, MarksCounted
  <2>. QED
      BY <1>0, <1>1, <2>1, CountsAdd
<1>3. CASE n \notin marked
  <2>1. ASSUME NEW d \in seeds, NEW missing \in SUBSET {d.name}, SeedPresume(d, missing) PROVE FALSE
    <3>. DEFINE p == Presume(d.name, {d.admits}, missing)
    <3>1. IF p.node.version # NoVersion
          THEN UNCHANGED marked ELSE marked' = marked \cup {p.node}
        BY <2>1 DEF SeedPresume
    <3>. HIDE DEF p
    <3>. QED
        BY <1>3, <3>1
  <2>2. ASSUME NEW missing \in SUBSET Pending, PresumeLayer(missing) PROVE FALSE
      BY <1>3, <2>2 DEF PresumeLayer
  <2>3. ASSUME AssertLocalRoot \/ \E dep \in direct : AssertRoot(dep) PROVE unread' > 0
      BY <1>0, <1>3, <2>3, LocalRootAsserted, DirectDepAsserted
  <2>4. ASSUME NEW absent \in SUBSET Batch, ReadLayer(absent) PROVE unread' > 0
    <3>1. marked' = marked \cup absent /\ unread' = unread + Cardinality(absent)
        BY <2>4 DEF ReadLayer, MarkedWith, UnreadWith
    <3>2. absent # {} /\ absent \in SUBSET Package
        BY <1>0, <1>3, <3>1 DEF Batch, TypeOK
    <3>. QED
        BY <1>0, <3>1, <3>2, PackagesCounted
  <2>5. ASSUME Stop PROVE truncated' > 0
    <3>1. marked' = marked \cup frontier /\ truncated' = truncated + Cardinality(frontier)
        BY <2>5 DEF Stop
    <3>2. frontier # {} /\ frontier \in SUBSET Package
        BY <1>0, <1>3, <3>1 DEF TypeOK
    <3>. QED
        BY <1>0, <3>1, <3>2, PackagesCounted
  <2>6. ASSUME \/ \E r \in Root : Start(r)
               \/ \E d \in seeds : SeedLink(d)
               \/ Seeded \/ AssertDirectDeps \/ AllAsserted \/ Finish \/ Done
               \/ \E dep \in direct : Unresolved(dep)
               \/ UNCHANGED vars
        PROVE  FALSE
    <3>1. marked' = marked
        BY <2>6 DEF Start, SeedLink, Seeded, AssertDirectDeps, AllAsserted, Finish, Done, Unresolved,
                    vars, graph
    <3>. QED
        BY <1>3, <3>1
  <2>7. unread' > 0 \/ truncated' > 0
      BY <2>1, <2>2, <2>3, <2>4, <2>5, <2>6 DEF Next
  <2>. QED
      BY <1>0, <1>1, <2>7, CountsAdd
<1>. QED
    BY <1>2, <1>3

LEMMA StepQueuesWhole ==
    ASSUME IInv, TypeOK', Grows, [Next]_vars
    PROVE  QueuedWhole'
<1>1. ASSUME NEW absent \in SUBSET Batch, ReadLayer(absent) PROVE QueuedWhole'
  <2>1. queue' = {q \in DeclaredBy(Batch \ absent) : byName[q[2].name] = NoNode} /\ world' = world
      BY <1>1 DEF ReadLayer, inputs
  <2>2. ASSUME NEW q \in queue', NEW d \in Requires[world][q[1]], d.name = q[2].name
        PROVE  <<q[1], d>> \in queue'
      BY <2>1, <2>2 DEF DeclaredBy
  <2>. QED
      BY <2>1, <2>2 DEF QueuedWhole
<1>2. CASE \E missing \in SUBSET Pending : PresumeLayer(missing)
    BY <1>2 DEF PresumeLayer, QueuedWhole
<1>3. CASE queue' = queue
    BY <1>3 DEF IInv, QueuedWhole, Grows
<1>4. \/ queue' = queue
      \/ \E absent \in SUBSET Batch : ReadLayer(absent)
      \/ \E missing \in SUBSET Pending : PresumeLayer(missing)
    BY DEF Next, Start, SeedLink, SeedPresume, Seeded, AssertLocalRoot, AssertDirectDeps,
           Unresolved, AssertRoot, AllAsserted, Stop, Finish, Done, vars, walking
<1>. QED
    BY <1>1, <1>2, <1>3, <1>4

LEMMA StepKeepsStagesApart ==
    ASSUME IInv, TypeOK', Grows, [Next]_vars
    PROVE  StagesApart'
<1>0. StagesApart
    BY DEF IInv
<1>1. CASE \/ \E r \in Root : Start(r)
           \/ \E d \in seeds : SeedLink(d) \/ \E missing \in SUBSET {d.name} : SeedPresume(d, missing)
    BY <1>0, <1>1 DEF StagesApart, Start, SeedLink, SeedPresume
<1>2. CASE Seeded \/ AllAsserted \/ Finish \/ Done \/ UNCHANGED vars
    BY <1>0, <1>2 DEF StagesApart, Seeded, AllAsserted, Finish, Done, vars, walking
<1>3. CASE AssertLocalRoot \/ AssertDirectDeps \/ \E dep \in direct : Unresolved(dep) \/ AssertRoot(dep)
    BY <1>0, <1>3 DEF StagesApart, AssertLocalRoot, AssertDirectDeps, Unresolved, AssertRoot
<1>4. CASE \/ \E absent \in SUBSET Batch : ReadLayer(absent)
           \/ \E missing \in SUBSET Pending : PresumeLayer(missing)
           \/ Stop
    BY <1>0, <1>4 DEF StagesApart, ReadLayer, PresumeLayer, Stop
<1>. QED
    BY <1>1, <1>2, <1>3, <1>4 DEF Next

\* What a step matches, reads and queues is reached from the root it walks.
LEMMA StepContained ==
    ASSUME IInv, TypeOK', Grows, [Next]_vars
    PROVE  Contained'
<1>. DEFINE mine == Reachable(root) \cup {NoNode}
            Within == /\ \A m \in Name : byName'[m] \in mine'
                      /\ direct' \subseteq mine' /\ frontier' \subseteq mine'
                      /\ \A q \in queue' : q[1] \in mine'
<1>0. TypeOK
    BY DEF IInv
<1>. SUFFICES ASSUME stage' \notin {"idle", "done"} PROVE Within
    BY DEF Contained
<1>1. ASSUME stage \notin {"idle", "done"}
      PROVE  /\ \A m \in Name : byName[m] \in mine
             /\ direct \subseteq mine /\ frontier \subseteq mine
             /\ \A q \in queue : q[1] \in mine
    BY <1>1 DEF IInv, Contained
<1>2. ASSUME root' = root, stage \notin {"idle", "done"}
      PROVE  mine \subseteq mine'
  <2>1. root \in Node
      BY <1>0, <1>2, RootIsNode
  <2>. QED
      BY <1>0, <1>2, <2>1, StepMonotone
<1>3. ASSUME NEW r \in Root, Start(r) PROVE Within
  <2>. DEFINE none == [m \in Name |-> NoNode]
  <2>1. mine' = Reachable(r) \cup {NoNode}
      BY <1>3, NodeNext DEF Start, Reachable
  <2>2. byName' \in Indexed(none, Reachable(r))
      BY <1>3 DEF Start
  <2>3. \A m \in Name : byName'[m] \in Reachable(r) \cup {NoNode}
      BY <2>2 DEF Indexed
  <2>4. direct' = {} /\ queue' = {} /\ frontier' \subseteq Reachable(r)
      BY <1>3 DEF Start, IInv, StagesApart
  <2>. HIDE DEF mine
  <2>. QED
      BY <2>1, <2>3, <2>4
<1>4. ASSUME NEW d \in seeds, SeedLink(d) PROVE Within
  <2>1. mine \subseteq mine'
      BY <1>2, <1>4 DEF SeedLink
  <2>. HIDE DEF mine
  <2>. QED
      BY <1>1, <1>4, <2>1 DEF SeedLink
<1>5. ASSUME NEW d \in seeds, NEW missing \in SUBSET {d.name}, SeedPresume(d, missing) PROVE Within
  <2>. DEFINE p == Presume(d.name, {d.admits}, missing)
  <2>1. mine \subseteq mine'
      BY <1>2, <1>5 DEF SeedPresume
  <2>2. p.node \in mine'
    <3>1. root \in Node
        BY <1>0, <1>5, RootIsNode DEF SeedPresume
    <3>2. /\ Node \subseteq Node' /\ p.node \in Node'
        BY <1>0, <1>5, SeedNodes
    <3>3. <<root, p.node>> \in edges' /\ root' = root
        BY <1>5 DEF SeedPresume
    <3>. HIDE DEF p
    <3>4. root \in ReachableIn(Node', edges', root)
        BY <3>1, <3>2, ReachableSelf
    <3>5. p.node \in ReachableIn(Node', edges', root)
        BY <3>2, <3>3, <3>4, ReachableStep
    <3>. QED
        BY <3>3, <3>5 DEF Reachable
  <2>3. /\ byName' = [byName EXCEPT ![d.name] = p.node] /\ byName \in [Name -> Node \cup {NoNode}]
        /\ frontier' \subseteq frontier \cup {p.node}
        /\ direct' = direct /\ queue' = queue /\ stage = "seed"
      BY <1>0, <1>5 DEF SeedPresume, TypeOK
  <2>. HIDE DEF mine, p
  <2>4. \A m \in Name : byName'[m] \in mine'
      BY <1>1, <2>1, <2>2, <2>3
  <2>. QED
      BY <1>1, <2>1, <2>2, <2>3, <2>4
<1>6. CASE Seeded \/ AssertLocalRoot \/ AllAsserted \/ \E dep \in direct : Unresolved(dep)
  <2>1. mine \subseteq mine'
      BY <1>2, <1>6 DEF Seeded, AssertLocalRoot, AllAsserted, Unresolved, walking
  <2>2. /\ byName' = byName /\ direct' \subseteq direct /\ frontier' = frontier /\ queue' = queue
        /\ stage \notin {"idle", "done"}
      BY <1>6 DEF Seeded, AssertLocalRoot, AllAsserted, Unresolved, walking
  <2>. HIDE DEF mine
  <2>. QED
      BY <1>1, <2>1, <2>2
<1>7. CASE AssertDirectDeps
  <2>1. mine \subseteq mine'
      BY <1>2, <1>7 DEF AssertDirectDeps
  <2>2. DirectDeps(root) \subseteq mine
    <3>1. root \in Node
        BY <1>0, <1>7, RootIsNode DEF AssertDirectDeps
    <3>2. root \in ReachableIn(Node, edges, root)
        BY <3>1, ReachableSelf
    <3>. SUFFICES ASSUME NEW n \in Node, <<root, n>> \in edges
                  PROVE  n \in ReachableIn(Node, edges, root)
        BY DEF DirectDeps, Reachable
    <3>3. <<root, n>>[1] = root /\ <<root, n>>[2] = n
        OBVIOUS
    <3>. QED
        BY <3>2, <3>3, ReachableStep
  <2>3. /\ byName' = byName /\ direct' \subseteq DirectDeps(root) /\ frontier' = frontier
        /\ queue' = queue /\ stage \notin {"idle", "done"}
      BY <1>7 DEF AssertDirectDeps
  <2>. HIDE DEF mine
  <2>. QED
      BY <1>1, <2>1, <2>2, <2>3
<1>8. ASSUME NEW dep \in direct, AssertRoot(dep) PROVE Within
  <2>1. mine \subseteq mine'
      BY <1>2, <1>8 DEF AssertRoot
  <2>2. Grown(dep) \subseteq mine'
    <3>1. dep \in mine /\ dep \in Node /\ dep # NoNode
        BY <1>0, <1>1, <1>8, ExpandAssumption DEF AssertRoot, TypeOK
    <3>2. dep \in ReachableIn(Node', edges', root')
        BY <2>1, <3>1 DEF Reachable
    <3>3. ReachableIn(Node', edges', dep) \subseteq ReachableIn(Node', edges', root')
        BY <3>2, ReachableTransitive
    <3>. QED
        BY <3>3 DEF Grown, Reachable
  <2>3. /\ direct' \subseteq direct /\ frontier' = frontier /\ queue' = queue
        /\ stage \notin {"idle", "done"}
      BY <1>8 DEF AssertRoot
  <2>. HIDE DEF mine
  <2>4. \A m \in Name : byName'[m] \in mine'
    <3>1. CASE byName' = byName
        BY <1>1, <2>1, <2>3, <3>1
    <3>2. CASE byName' \in Indexed(byName, Grown(dep))
      <4>1. \A m \in Name : byName'[m] = byName[m] \/ byName'[m] \in Grown(dep)
          BY <3>2 DEF Indexed, NamedIn
      <4>. QED
          BY <1>1, <2>1, <2>2, <2>3, <4>1
    <3>. QED
        BY <1>0, <1>8, <3>1, <3>2, DirectDepAsserted
  <2>. QED
      BY <1>1, <2>1, <2>3, <2>4
<1>9. ASSUME NEW absent \in SUBSET Batch, ReadLayer(absent) PROVE Within
  <2>1. mine \subseteq mine'
      BY <1>2, <1>9 DEF ReadLayer
  <2>2. /\ byName' = byName /\ direct' = direct /\ frontier' = frontier
        /\ \A q \in queue' : q[1] \in frontier
        /\ stage \notin {"idle", "done"}
      BY <1>9 DEF ReadLayer, DeclaredBy, Batch
  <2>. HIDE DEF mine
  <2>. QED
      BY <1>1, <2>1, <2>2
<1>10. ASSUME NEW missing \in SUBSET Pending, PresumeLayer(missing) PROVE Within
  <2>1. mine \subseteq mine'
      BY <1>2, <1>10 DEF PresumeLayer
  <2>2. ASSUME NEW m \in Pending PROVE Child(m, missing).node \in mine'
    <3>1. PICK q \in queue : q[2].name = m
        BY <2>2 DEF Pending
    <3>2. q[1] \in mine /\ q[1] \in Node /\ q[1] # NoNode
        BY <1>0, <1>1, <1>10, <3>1, ExpandAssumption DEF PresumeLayer, TypeOK
    <3>3. q[1] \in ReachableIn(Node', edges', root')
        BY <2>1, <3>2 DEF Reachable
    <3>4. <<q[1], Child(m, missing).node>> \in edges'
      <4>1. edges' = edges \cup {<<k[1], Child(k[2].name, missing).node>> : k \in queue}
          BY <1>10 DEF PresumeLayer, Child
      <4>. QED
          BY <3>1, <4>1
    <3>5. Child(m, missing).node \in Node'
        BY <1>0, <1>10, LayerNodes
    <3>6. Child(m, missing).node \in ReachableIn(Node', edges', root')
        BY <3>3, <3>4, <3>5, ReachableStep
    <3>. QED
        BY <3>6 DEF Reachable
  <2>3. /\ byName' = [m \in Name |-> IF m \in Pending THEN Child(m, missing).node ELSE byName[m]]
        /\ frontier' \subseteq {Child(m, missing).node : m \in Pending}
        /\ direct' = direct /\ queue' = {} /\ stage \notin {"idle", "done"}
      BY <1>10 DEF PresumeLayer, Child
  <2>. HIDE DEF mine
  <2>. QED
      BY <1>1, <2>1, <2>2, <2>3
<1>11. CASE Stop \/ Finish \/ Done
    BY <1>11 DEF Stop, Finish, Done, vars
<1>12. CASE UNCHANGED vars
  <2>1. mine' = mine
      BY <1>12 DEF vars, graph, walking, Reachable, Node
  <2>2. /\ byName' = byName /\ direct' = direct /\ frontier' = frontier /\ queue' = queue
        /\ stage' = stage
      BY <1>12 DEF vars, walking
  <2>. HIDE DEF mine
  <2>. QED
      BY <1>1, <2>1, <2>2
<1>. QED
    BY <1>3, <1>4, <1>5, <1>6, <1>7, <1>8, <1>9, <1>10, <1>11, <1>12 DEF Next

LEMMA InitInvariant ==
    ASSUME Init
    PROVE  IInv
<1>1. TypeOK
    BY InitTypes
<1>2. Node = Locked[world].nodes /\ edges = Locked[world].edges /\ todo = Root
    BY DEF Init, Node
<1>3. NothingLost
    BY <1>2 DEF NothingLost, Stranded, Accounted, Reachable
<1>4. SeedsLinked /\ ExpandedFinished /\ AssertedClosed /\ MarksCounted /\ Contained
      /\ QueuedWhole /\ StagesApart
    BY <1>2 DEF Init, Node, SeedsLinked, ExpandedFinished, AssertedClosed, MarksCounted, Contained,
                QueuedWhole, StagesApart
<1>. QED
    BY <1>1, <1>3, <1>4 DEF IInv

LEMMA StepInvariant ==
    ASSUME IInv, [Next]_vars
    PROVE  IInv'
<1>1. TypeOK
    BY DEF IInv
<1>2. TypeOK'
    BY <1>1, StepTypes
<1>3. Grows
    BY <1>1, StepGrows
<1>. QED
    BY <1>2, <1>3, StepLosesNothing, StepLinksSeeds, StepFinishesExpanded, StepClosesAsserted,
       StepCountsMarks, StepContained, StepQueuesWhole, StepKeepsStagesApart DEF IInv

\* The invariant of the walk: no package with a coordinate is lost between the
\* roots still to be walked, the frontier, the layer being read, the resolver's
\* answers and the marks (internal/expand, ExpandRoot and its helpers).
THEOREM Invariance == Spec => []IInv
<1>. QED
    BY InitInvariant, StepInvariant, PTL DEF Spec

LEMMA NothingHidden ==
    ASSUME IInv
    PROVE  NoSilentHole
<1>. SUFFICES ASSUME stage = "done"
              PROVE  /\ \A n \in Node \ Stranded : Readable(n) => Known(n) \/ n \in marked
                     /\ \A r \in Root : \A d \in Declared[world][r] : Linked(r, d)
    BY DEF NoSilentHole
<1>1. todo = {} /\ frontier = {}
    BY DEF IInv, StagesApart
<1>2. \A n \in Node \ Stranded : Readable(n) => Known(n) \/ n \in marked
    BY <1>1 DEF IInv, NothingLost, Accounted
<1>3. \A r \in Root : \A d \in Declared[world][r] : Linked(r, d)
    BY <1>1 DEF IInv, SeedsLinked
<1>. QED
    BY <1>2, <1>3

\* A finished scan has no silent hole, whatever the lockfiles pinned, whatever
\* the registries and resolvers answered or failed to answer, in every order and
\* at every depth bound: each package with a coordinate that a root reaches was
\* read, was closed by a resolver or carries the frontier mark, and each
\* declaration of a manifest has its edge.
THEOREM NoHole == Spec => []NoSilentHole
<1>. QED
    BY Invariance, NothingHidden, PTL

LEMMA NothingMissing ==
    ASSUME IInv
    PROVE  CleanIsComplete
<1>. SUFFICES ASSUME stage = "done", ~bound.chosen, Gaps = 0, NEW n \in Node \ Stranded, Readable(n)
              PROVE  Known(n)
    BY DEF CleanIsComplete
<1>1. Known(n) \/ n \in marked
    BY NothingHidden DEF NoSilentHole
<1>2. unread + truncated = 0
    BY DEF Gaps
<1>3. n \notin marked
  <2>1. n.version # NoVersion
      BY DEF Readable
  <2>. QED
      BY <1>2, <2>1 DEF IInv, MarksCounted
<1>. QED
    BY <1>1, <1>3

\* A walk that reports no gap, under a depth bound nobody chose, knows the
\* dependencies of every package it could have asked about (expandTransitive,
\* cmd/depsnort/main.go).
THEOREM CleanWalk == Spec => []CleanIsComplete
<1>. QED
    BY Invariance, NothingMissing, PTL

-----------------------------------------------------------------------------
(***************************************************************************)
(* No pin answers for another project.                                     *)
(***************************************************************************)
LEMMA StepJustifiesLinks ==
    ASSUME IInv, [Next]_vars
    PROVE  JustifiesLinks
<1>. DEFINE Justified(e) ==
                \/ e[2] \in Reachable(root)
                \/ e[2].version = NoVersion
                \/ \A d \in Declarations(e[1]) :
                      d.name = e[2].name => d.admits # Unevaluable /\ e[2].version \in d.admits
<1>0. TypeOK
    BY DEF IInv
<1>. SUFFICES ASSUME stage \notin {"assert", "direct"}, NEW e \in edges' \ edges PROVE Justified(e)
    BY DEF JustifiesLinks
<1>1. ASSUME NEW m \in Name, byName[m] # NoNode, stage \notin {"idle", "done"}
      PROVE  byName[m] \in Reachable(root)
    BY <1>1 DEF IInv, Contained
<1>2. ASSUME NEW d \in seeds, SeedLink(d) PROVE Justified(e)
  <2>1. d.name \in Name
      BY <1>0 DEF TypeOK, Declaration
  <2>2. byName[d.name] # NoNode /\ stage = "seed" /\ e = <<root, byName[d.name]>>
      BY <1>2 DEF SeedLink
  <2>. QED
      BY <1>1, <2>1, <2>2
<1>3. ASSUME NEW d \in seeds, NEW missing \in SUBSET {d.name}, SeedPresume(d, missing)
      PROVE  Justified(e)
  <2>. DEFINE p == Presume(d.name, {d.admits}, missing)
  <2>1. IsPresumption(p, d.name, {d.admits})
      BY <1>0, <1>3, SeedNodes
  <2>2. e = <<root, p.node>> /\ stage = "seed" /\ seeds' = seeds \ {d}
      BY <1>3 DEF SeedPresume
  <2>. HIDE DEF p
  <2>3. Declarations(e[1]) = {d}
      BY <2>2 DEF Declarations
  <2>. QED
      BY <2>1, <2>2, <2>3 DEF IsPresumption
<1>4. ASSUME NEW absent \in SUBSET Batch, ReadLayer(absent) PROVE Justified(e)
  <2>. DEFINE linked == {p \in DeclaredBy(Batch \ absent) : byName[p[2].name] # NoNode}
  <2>1. edges' = edges \cup {<<q[1], byName[q[2].name]>> : q \in linked} /\ stage = "read"
      BY <1>4 DEF ReadLayer
  <2>2. PICK q \in linked : e = <<q[1], byName[q[2].name]>>
      BY <2>1
  <2>3. q[2].name \in Name
    <3>1. q[1] \in Package /\ q[2] \in Requires[world][q[1]]
        BY <1>0 DEF DeclaredBy, Batch, TypeOK
    <3>2. q[2] \in Declaration
        BY <1>0, <3>1, Inputs
    <3>. QED
        BY <3>2 DEF Declaration
  <2>. QED
      BY <1>1, <2>1, <2>2, <2>3
<1>5. ASSUME NEW missing \in SUBSET Pending, PresumeLayer(missing) PROVE Justified(e)
  <2>1. edges' = edges \cup {<<q[1], Child(q[2].name, missing).node>> : q \in queue}
        /\ stage = "presume"
      BY <1>5 DEF PresumeLayer, Child
  <2>2. PICK q \in queue : e = <<q[1], Child(q[2].name, missing).node>>
      BY <2>1
  <2>. DEFINE p == Child(q[2].name, missing)
  <2>3. IsPresumption(p, q[2].name, Constraints(q[2].name))
    <3>1. q[2].name \in Pending
        BY <1>0, PendingNames
    <3>. QED
        BY <1>0, <3>1, ChildAnswers
  <2>4. e = <<q[1], p.node>>
      BY <2>2
  <2>. HIDE DEF p
  <2>5. ASSUME NEW d \in Declarations(e[1]), d.name = e[2].name, p.node.version # NoVersion
        PROVE  d.admits # Unevaluable /\ p.node.version \in d.admits
    <3>1. d \in Requires[world][q[1]] /\ d.name = q[2].name
        BY <2>1, <2>3, <2>4, <2>5 DEF Declarations, IsPresumption
    <3>2. <<q[1], d>> \in queue
        BY <3>1 DEF IInv, QueuedWhole
    <3>3. d.admits \in Constraints(q[2].name)
        BY <3>1, <3>2 DEF Constraints
    <3>. QED
        BY <2>3, <2>5, <3>3 DEF IsPresumption
  <2>. QED
      BY <2>4, <2>5
<1>6. ASSUME \/ \E r \in Root : Start(r)
             \/ Seeded \/ AssertLocalRoot \/ AssertDirectDeps \/ AllAsserted
             \/ \E dep \in direct : Unresolved(dep) \/ AssertRoot(dep)
             \/ Stop \/ Finish \/ Done \/ UNCHANGED vars
      PROVE  FALSE
    BY <1>6 DEF Start, Seeded, AssertLocalRoot, AssertDirectDeps, AllAsserted, Unresolved, AssertRoot,
                Stop, Finish, Done, vars, graph
<1>. HIDE DEF Justified
<1>. QED
    BY <1>2, <1>3, <1>4, <1>5, <1>6 DEF Next

\* One project's pin never answers another's declaration, in any order of the
\* roots: outside the resolver's answers an edge is drawn only to a node of the
\* root's own subtree, to one without a version, or to a version that all the
\* declarations behind it admit (byName, presume and expandLayer).
THEOREM JustifiedLinks == Spec => LinksJustified
<1>1. IInv /\ [Next]_vars => [JustifiesLinks]_vars
    BY StepJustifiesLinks
<1>. QED
    BY <1>1, Invariance, PTL DEF Spec, LinksJustified

=============================================================================
