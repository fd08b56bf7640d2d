------------------------------- MODULE Expand -------------------------------
(***************************************************************************)
(* internal/expand: the walk that grows the dependency graph past what the *)
(* lockfiles recorded.  ExpandRoot runs once per project root, over one    *)
(* shared graph, in four stages: seed the declarations no lockfile pinned, *)
(* let a resolver assert whole subtrees, then alternate reading one layer  *)
(* of declarations and presuming a version for each newly declared name,   *)
(* until the tree or the depth bound is exhausted.                         *)
(*                                                                         *)
(* Every answer from outside may be missing: a package's declarations, its *)
(* list of versions, a resolver's subtree or a part of it.                 *)
(*                                                                         *)
(* One ecosystem.  Optional declarations are not in the model: nothing in  *)
(* cmd/ turns Options.IncludeOptional on.                                  *)
(***************************************************************************)
EXTENDS Integers, FiniteSets

CONSTANTS
    Name, Version, Root,
    World,          \* the projects and registries considered
    Locked,         \* the nodes and edges the lockfiles' adapters resolved
    Declared,       \* what a manifest declares and no lockfile pins, per root
    Requires,       \* what the registry says a package declares
    Published,      \* the versions the registry lists for a name
    Subtree,        \* the answers a resolver may have for a package
    BuildList,      \* the answers a resolver may have for a whole local root
    Bounds,         \* depth bounds, and whether the operator chose them
    PrefersLowest,  \* whether the ecosystem's installer takes the lowest version
    NoNode

NoVersion == 0

\* A constraint in a grammar the tool does not read.
Unevaluable == {NoVersion}

\* A node of the graph.  registry: its origin is one a package registry speaks for.
Package     == [name: Name, version: Version \cup {NoVersion}, registry: BOOLEAN]
Declaration == [name: Name, admits: SUBSET Version \cup {Unevaluable}]
Link        == Package \X Package
Truth       == {"unset", "observed", "presumed", "asserted", "contested"}
Bound       == [layers: Nat \ {0}, chosen: BOOLEAN]

RegistryQueryable(n) == n.registry
Readable(n)          == n.version # NoVersion /\ RegistryQueryable(n)

\* Identify: the node of a name at a version, as the walk creates it.
Identify(m, v) == [name |-> m, version |-> v, registry |-> TRUE]

Ends(E) == {e[1] : e \in E} \cup {e[2] : e \in E}

\* The edges of a resolver's answer about n: what it resolved has a coordinate.
Answer(n) == {E \in SUBSET Link : \A m \in Ends(E) \ {n} : Readable(m)}

ASSUME ExpandAssumption ==
    /\ Version \subseteq Nat \ {NoVersion} /\ IsFiniteSet(Version)
    /\ IsFiniteSet(Name)
    /\ Root \subseteq Package
    /\ NoNode \notin Package
    /\ Locked \in [World -> [nodes: SUBSET Package, edges: SUBSET Link]]
    /\ \A w \in World : Root \cup Ends(Locked[w].edges) \subseteq Locked[w].nodes
    /\ Declared \in [World -> [Root -> SUBSET Declaration]]
    /\ Requires \in [World -> [Package -> SUBSET Declaration]]
    /\ Published \in [World -> [Name -> SUBSET Version]]
    /\ \A w \in World : /\ \A n \in Package : Subtree[w][n] \subseteq Answer(n)
                        /\ \A r \in Root : BuildList[w][r] \subseteq Answer(r)
    /\ Bounds \subseteq Bound
    /\ PrefersLowest \in BOOLEAN

\* Versions are totally ordered: any published ones have a highest and a lowest.
ASSUME OrderAssumption ==
    \A S \in SUBSET Version : S # {} => /\ \E v \in S : \A w \in S : w <= v
                                        /\ \E v \in S : \A w \in S : v <= w

VARIABLES
    world, bound,  \* the inputs, fixed during a scan
    truth,         \* version truth of each node: its domain is the graph's nodes
    edges,         \* the depends-on edges
    marked,        \* nodes with AttrFrontier
    unread, truncated,  \* Result.Unread and Result.DepthTruncated, over the roots so far
    stage,
    todo,          \* roots not walked yet
    root,          \* the one being walked
    byName,        \* the node a declared name matches within this root's subtree
    seeds,         \* declarations of the root still to be seeded
    direct,        \* direct dependencies still to be handed to the resolver
    frontier, expanded,
    layer,         \* layers read so far
    queue,         \* what the layer declared and no name matched, with who declared it
    closed,        \* history: nodes whose subtree a resolver's answer stands for
    unlisted       \* history: names whose version list could not be read

inputs  == <<world, bound>>
graph   == <<truth, edges, marked>>
walking == <<todo, root, byName, seeds, direct, frontier, expanded, layer, queue>>
vars    == <<inputs, graph, unread, truncated, stage, walking, closed, unlisted>>

Stage == {"idle", "seed", "assert", "direct", "read", "presume", "done"}

Node == DOMAIN truth

-----------------------------------------------------------------------------
(***************************************************************************)
(* Reachability over declared edges, as membership of every closed set     *)
(* that holds the source.                                                  *)
(***************************************************************************)
ReachableIn(N, E, n) ==
    LET Enclosing == {S \in SUBSET N : n \in S /\ \A e \in E : e[1] \in S => e[2] \in S}
    IN  {m \in N : \A S \in Enclosing : m \in S}

Reachable(n) == ReachableIn(Node, edges, n)

\* Lockfile packages that no root reaches (the graph reports them as orphans).
Stranded ==
    {n \in Locked[world].nodes :
        \A r \in Root : n \notin ReachableIn(Locked[world].nodes, Locked[world].edges, r)}

\* The operators named ...Globally, ...Overwriting, ...Versioned, ...Uncounted,
\* ...OnFailure and ...OfReads are faults: no action uses them, and each breaks
\* a property.
NamedIn(S, m) == {n \in S : n.name = m}

\* Matches a name anywhere in the graph instead of in this root's subtree.
IndexedGlobally(old, S) ==
    {f \in [Name -> Node \cup {NoNode}] :
        \A m \in Name : IF NamedIn(Node, m) = {} THEN f[m] = NoNode ELSE f[m] \in NamedIn(Node, m)}

\* Fill the names that match nothing yet from S; which of several nodes of one
\* name wins is left to a range over a Go map.
Indexed(old, S) ==
    {f \in [Name -> S \cup {old[m] : m \in Name} \cup {NoNode}] :
        \A m \in Name : IF old[m] # NoNode \/ NamedIn(S, m) = {}
                        THEN f[m] = old[m]
                        ELSE f[m] \in NamedIn(S, m)}

DirectDeps(r) == {n \in Node : <<r, n>> \in edges}

-----------------------------------------------------------------------------
(***************************************************************************)
(* presume: the highest (or lowest) published version that every           *)
(* accumulated constraint admits.                                          *)
(***************************************************************************)
Best(ok) ==
    CHOOSE v \in ok : \A w \in ok : IF PrefersLowest THEN v <= w ELSE w <= v

Presumption(m, v, t) == [node |-> Identify(m, v), truth |-> t]

\* What the index lists for a name; nothing when it could not be read.
Versions(m, missing) == IF m \in missing THEN {} ELSE Published[world][m]

Presume(m, constraints, missing) ==
    LET all == Versions(m, missing)
        ok  == {v \in all : \A c \in constraints : c # Unevaluable /\ v \in c}
    IN  IF all = {} THEN Presumption(m, NoVersion, "unset")
        ELSE IF Unevaluable \in constraints \/ ok = {} THEN Presumption(m, NoVersion, "contested")
        ELSE Presumption(m, Best(ok), "presumed")

\* Lets the presumption of a name restate the truth of a node already there.
WithPresumedOverwriting(ps) ==
    LET about(n) == CHOOSE p \in ps : p.node = n
    IN  [n \in Node \cup {p.node : p \in ps} |->
            IF \E p \in ps : p.node = n THEN about(n).truth ELSE truth[n]]

\* The graph's nodes with the presumed ones that were not among them.
WithPresumed(ps) ==
    LET about(n) == CHOOSE p \in ps : p.node = n
    IN  [n \in Node \cup {p.node : p \in ps} |-> IF n \in Node THEN truth[n] ELSE about(n).truth]

-----------------------------------------------------------------------------
Init ==
    /\ world \in World
    /\ bound \in Bounds
    /\ truth = [n \in Locked[world].nodes |-> "unset"]
    /\ edges = Locked[world].edges
    /\ marked = {}
    /\ unread = 0
    /\ truncated = 0
    /\ stage = "idle"
    /\ todo = Root
    /\ root = NoNode
    /\ byName = [m \in Name |-> NoNode]
    /\ seeds = {}
    /\ direct = {}
    /\ frontier = {}
    /\ expanded = {}
    /\ layer = 0
    /\ queue = {}
    /\ closed = {}
    /\ unlisted = {}

Start(r) ==
    LET mine  == Reachable(r)
        first == {n \in mine : Readable(n) /\ truth[n] # "asserted"}
    IN  /\ stage = "idle"
        /\ r \in todo
        /\ todo' = todo \ {r}
        /\ root' = r
        /\ byName' \in Indexed([m \in Name |-> NoNode], mine)
        /\ frontier' = first
        /\ truth' = [n \in Node |-> IF n \in first \ {r} /\ truth[n] = "unset"
                                    THEN "observed" ELSE truth[n]]
        /\ seeds' = Declared[world][r]
        /\ expanded' = {}
        /\ layer' = 0
        /\ stage' = "seed"
        /\ UNCHANGED <<inputs, edges, marked, unread, truncated, direct, queue, closed, unlisted>>

\* A declaration of the root that matches a node of its subtree.
SeedLink(d) ==
    /\ stage = "seed"
    /\ d \in seeds
    /\ byName[d.name] # NoNode
    /\ edges' = edges \cup {<<root, byName[d.name]>>}
    /\ seeds' = seeds \ {d}
    /\ UNCHANGED <<inputs, truth, marked, unread, truncated, stage, todo, root, byName, direct,
                   frontier, expanded, layer, queue, closed, unlisted>>

\* One that matches none: presume a version and create, or share, its node.
SeedPresume(d, missing) ==
    LET p == Presume(d.name, {d.admits}, missing)
    IN  /\ stage = "seed"
        /\ d \in seeds
        /\ byName[d.name] = NoNode
        /\ truth' = WithPresumed({p})
        /\ edges' = edges \cup {<<root, p.node>>}
        /\ byName' = [byName EXCEPT ![d.name] = p.node]
        /\ IF p.node.version # NoVersion
           THEN frontier' = frontier \cup {p.node} /\ UNCHANGED marked
           ELSE marked' = marked \cup {p.node} /\ UNCHANGED frontier
        /\ unlisted' = unlisted \cup missing
        /\ seeds' = seeds \ {d}
        /\ UNCHANGED <<inputs, unread, truncated, stage, todo, root, direct, expanded, layer,
                       queue, closed>>

Seeded ==
    /\ stage = "seed"
    /\ seeds = {}
    /\ stage' = "assert"
    /\ UNCHANGED <<inputs, graph, unread, truncated, walking, closed, unlisted>>

-----------------------------------------------------------------------------
(***************************************************************************)
(* The asserted tier.  An answer is the edges of a resolved graph; what    *)
(* the resolver could not read (IncompleteResolution) has no edges of its  *)
(* own in it, but is one of its nodes.                                     *)
(***************************************************************************)
Partial(answer, holes) == {e \in answer : e[1] \notin holes}

Holes(answer, from) ==
    {holes \in SUBSET (Ends(answer) \ {from}) : holes \subseteq Ends(Partial(answer, holes))}

Asserted(part, from) == (Ends(part) \ {from}) \ Node

\* mergeResolved and markUnread.
Merge(part, from, holes) ==
    /\ truth' = [n \in Node \cup Asserted(part, from) |->
                    IF n \in Node THEN truth[n] ELSE "asserted"]
    /\ edges' = edges \cup part
    /\ marked' = marked \cup holes
    /\ unread' = unread + Cardinality(holes)

Grown(from) == ReachableIn(Node', edges', from)

\* assertLocalRoot: one answer for the whole build list closes all of the root's
\* subtree.
AssertLocalRoot ==
    /\ stage = "assert"
    /\ \E n \in DirectDeps(root) : n.version # NoVersion
    /\ \E answer \in BuildList[world][root] : \E holes \in Holes(answer, root) :
          LET part == Partial(answer, holes)
          IN  /\ Merge(part, root, holes)
              /\ expanded' = expanded \cup Grown(root)
              /\ closed' = closed \cup Grown(root) \cup Asserted(part, root)
    /\ stage' = "read"
    /\ UNCHANGED <<inputs, truncated, todo, root, byName, seeds, direct, frontier, layer, queue,
                   unlisted>>

\* The resolver declines the root, or has nothing to say: ask per dependency.
AssertDirectDeps ==
    /\ stage = "assert"
    /\ direct' = {n \in DirectDeps(root) : Readable(n) /\ truth[n] # "asserted"}
    /\ stage' = "direct"
    /\ UNCHANGED <<inputs, graph, unread, truncated, todo, root, byName, seeds, frontier,
                   expanded, layer, queue, closed, unlisted>>

\* AssertRoot with no answer.
Unresolved(dep) ==
    /\ stage = "direct"
    /\ dep \in direct
    /\ direct' = direct \ {dep}
    /\ UNCHANGED <<inputs, graph, unread, truncated, stage, todo, root, byName, seeds, frontier,
                   expanded, layer, queue, closed, unlisted>>

\* AssertRoot with an answer; it closes the dependency only if it adds a node.
AssertRoot(dep) ==
    /\ stage = "direct"
    /\ dep \in direct
    /\ \E answer \in Subtree[world][dep] : \E holes \in Holes(answer, dep) :
          LET part == Partial(answer, holes)
              new  == Asserted(part, dep)
          IN  /\ Merge(part, dep, holes)
              /\ IF new = {}
                 THEN UNCHANGED <<expanded, closed, byName>>
                 ELSE /\ expanded' = expanded \cup {dep}
                      /\ closed' = closed \cup {dep} \cup new
                      /\ byName' \in Indexed(byName, Grown(dep))
    /\ direct' = direct \ {dep}
    /\ UNCHANGED <<inputs, truncated, stage, todo, root, seeds, frontier, layer, queue, unlisted>>

AllAsserted ==
    /\ stage = "direct"
    /\ direct = {}
    /\ stage' = "read"
    /\ UNCHANGED <<inputs, graph, unread, truncated, walking, closed, unlisted>>

-----------------------------------------------------------------------------
(***************************************************************************)
(* The layers.                                                             *)
(***************************************************************************)
Batch == frontier \ expanded

\* What the packages of S declare, with who declares it.
DeclaredBy(S) == {q \in S \X UNION {Requires[world][n] : n \in S} : q[2] \in Requires[world][q[1]]}

\* Counts a failed batch, but no single package the registry lacks.
UnreadUncounted(absent) == IF absent = Batch THEN unread + Cardinality(absent) ELSE unread

UnreadWith(absent) == unread + Cardinality(absent)

\* Takes a package the registry lacks for one that declares nothing.
MarkedOnFailure(absent) == IF absent = Batch THEN marked \cup absent ELSE marked

MarkedWith(absent) == marked \cup absent

\* Read the layer's declarations.  Those of absent did not come back: the whole
\* batch when the fetch failed, single packages when the registry lacks them.
ReadLayer(absent) ==
    LET declared == DeclaredBy(Batch \ absent)
    IN  /\ stage = "read"
        /\ frontier # {}
        /\ layer < bound.layers
        /\ absent \subseteq Batch
        /\ expanded' = expanded \cup Batch
        /\ marked' = MarkedWith(absent)
        /\ unread' = UnreadWith(absent)
        /\ edges' = edges \cup {<<q[1], byName[q[2].name]>> :
                                   q \in {p \in declared : byName[p[2].name] # NoNode}}
        /\ queue' = {q \in declared : byName[q[2].name] = NoNode}
        /\ stage' = "presume"
        /\ UNCHANGED <<inputs, truth, truncated, todo, root, byName, seeds, direct, frontier,
                       layer, closed, unlisted>>

Pending == {q[2].name : q \in queue}

Constraints(m) == {q[2].admits : q \in {p \in queue : p[2].name = m}}

\* Presume each pending name once, with the constraints of all its parents;
\* missing are the names whose version list cannot be read.
PresumeLayer(missing) ==
    LET child(m) == Presume(m, Constraints(m), missing)
        nodes    == {child(m).node : m \in Pending}
    IN  /\ stage = "presume"
        /\ missing \subseteq Pending
        /\ truth' = WithPresumed({child(m) : m \in Pending})
        /\ edges' = edges \cup {<<q[1], child(q[2].name).node>> : q \in queue}
        /\ byName' = [m \in Name |-> IF m \in Pending THEN child(m).node ELSE byName[m]]
        /\ marked' = marked \cup {n \in nodes : n.version = NoVersion}
        /\ frontier' = {n \in nodes : n.version # NoVersion} \ expanded
        /\ unlisted' = unlisted \cup missing
        /\ queue' = {}
        /\ layer' = layer + 1
        /\ stage' = "read"
        /\ UNCHANGED <<inputs, unread, truncated, todo, root, seeds, direct, expanded, closed>>

\* Out of tree, or stopped by the bound with packages still queued.
Stop ==
    /\ stage = "read"
    /\ frontier = {} \/ layer = bound.layers
    /\ marked' = marked \cup frontier
    /\ truncated' = truncated + Cardinality(frontier)
    /\ frontier' = {}
    /\ stage' = "idle"
    /\ UNCHANGED <<inputs, truth, edges, unread, todo, root, byName, seeds, direct, expanded,
                   layer, queue, closed, unlisted>>

Finish ==
    /\ stage = "idle"
    /\ todo = {}
    /\ stage' = "done"
    /\ UNCHANGED <<inputs, graph, unread, truncated, walking, closed, unlisted>>

Done == stage = "done" /\ UNCHANGED vars

\* Leaves the packages cut off by the depth bound out of the shortfall.
GapsOfReads == unread

\* expandTransitive: the shortfall that degrades the scan's coverage.
Gaps == unread + IF bound.chosen THEN 0 ELSE truncated

Next ==
    \/ \E r \in Root : Start(r)
    \/ \E d \in seeds : SeedLink(d) \/ \E missing \in SUBSET {d.name} : SeedPresume(d, missing)
    \/ Seeded
    \/ AssertLocalRoot
    \/ AssertDirectDeps
    \/ \E dep \in direct : Unresolved(dep) \/ AssertRoot(dep)
    \/ AllAsserted
    \/ \E absent \in SUBSET Batch : ReadLayer(absent)
    \/ \E missing \in SUBSET Pending : PresumeLayer(missing)
    \/ Stop
    \/ Finish
    \/ Done

Spec == Init /\ [][Next]_vars

-----------------------------------------------------------------------------
(***************************************************************************)
(* Types and properties.                                                   *)
(***************************************************************************)

\* Every variable keeps its type; edges, marks and the walk's own indexes hold
\* nodes of the graph, and every input edge does too.
TypeOK ==
    /\ world \in World /\ bound \in Bounds
    /\ Node \subseteq Package /\ truth \in [Node -> Truth]
    /\ edges \subseteq Node \X Node
    /\ marked \subseteq Node
    /\ unread \in Nat /\ truncated \in Nat
    /\ stage \in Stage
    /\ todo \subseteq Root /\ Root \subseteq Node
    /\ root \in Root \cup {NoNode}
    /\ stage \notin {"idle", "done"} => root # NoNode
    /\ byName \in [Name -> Node \cup {NoNode}]
    /\ \A m \in Name : byName[m] # NoNode => byName[m].name = m
    /\ seeds \subseteq Declaration
    /\ direct \subseteq Node /\ frontier \subseteq Node /\ expanded \subseteq Node
    /\ layer \in 0..bound.layers /\ (stage = "presume" => layer < bound.layers)
    /\ queue \subseteq Node \X Declaration
    /\ closed \subseteq Node
    /\ unlisted \subseteq Name

\* An edge stands for a declaration.
Linked(n, d) == \E e \in edges : e[1] = n /\ e[2].name = d.name

\* A package's dependencies are known: every declaration of its has an edge, or
\* a resolver stated its subtree.
Known(n) == n \in closed \/ \A d \in Requires[world][n] : Linked(n, d)

\* Read in this layer: what no name matched is queued.
Answered(n) == \A d \in Requires[world][n] : Linked(n, d) \/ <<n, d>> \in queue

\* A package of the graph is finished with, or still to be visited.
Accounted(n) ==
    \/ Known(n)
    \/ n \in marked
    \/ n \in frontier /\ stage # "presume"
    \/ stage = "presume" /\ Answered(n)
    \/ \E r \in todo : n \in Reachable(r)

\* No package that a root reached and that has a coordinate is lost to the walk.
NothingLost == \A n \in Node \ Stranded : Readable(n) => Accounted(n)

\* Nothing a manifest declares is dropped.
SeedsLinked ==
    \A r \in Root \ todo : \A d \in Declared[world][r] :
        Linked(r, d) \/ (stage = "seed" /\ r = root /\ d \in seeds)

\* What this root's walk expanded is finished with.
ExpandedFinished ==
    stage \notin {"idle", "done"} =>
        \A n \in expanded : Known(n) \/ n \in marked \/ (stage = "presume" /\ Answered(n))

\* A node a resolver added has its subtree stated.
AssertedClosed == \A n \in Node : truth[n] = "asserted" => n \in closed

\* A marked package that has a version was counted.
MarksCounted == (\E n \in marked : n.version # NoVersion) => unread + truncated > 0

\* What the walk matches, reads and queues belongs to the root's own subtree.
Contained ==
    stage \notin {"idle", "done"} =>
        {byName[m] : m \in Name} \cup direct \cup frontier \cup {q[1] : q \in queue}
            \subseteq Reachable(root) \cup {NoNode}

\* A queued declaration is queued with all the others of that name and parent.
QueuedWhole ==
    \A q \in queue : \A d \in Requires[world][q[1]] : d.name = q[2].name => <<q[1], d>> \in queue

\* Each stage's work is over when the stage is.
StagesApart ==
    /\ stage # "presume" => queue = {}
    /\ stage # "seed" => seeds = {}
    /\ stage # "direct" => direct = {}
    /\ stage \in {"idle", "done"} => frontier = {}
    /\ stage = "done" => todo = {}

\* The inductive invariant of the walk.
IInv ==
    /\ TypeOK
    /\ NothingLost
    /\ SeedsLinked
    /\ ExpandedFinished
    /\ AssertedClosed
    /\ MarksCounted
    /\ Contained
    /\ QueuedWhole
    /\ StagesApart

\* A finished scan has no silent hole: each package of the graph that has a
\* registry coordinate (and was not stranded by its lockfile) was read, was closed
\* by a resolver's answer or carries the frontier mark, and each declaration of a
\* manifest has its edge, whatever answers were missing and however the roots
\* share packages.
NoSilentHole ==
    stage = "done" =>
        /\ \A n \in Node \ Stranded : Readable(n) => Known(n) \/ n \in marked
        /\ \A r \in Root : \A d \in Declared[world][r] : Linked(r, d)

\* A walk that reports no gap, under a depth bound nobody chose, knows the
\* dependencies of every package of the graph that has a registry coordinate
\* (expandTransitive folds the roots' counts into one coverage entry).
CleanIsComplete ==
    stage = "done" /\ ~bound.chosen /\ Gaps = 0 =>
        \A n \in Node \ Stranded : Readable(n) => Known(n)

\* Facts are kept: no step takes a node, an edge, a mark or a count away, none
\* changes the truth of a node beyond calling an unset one observed, and the walk
\* itself only ever adds presumed, asserted, contested or versionless nodes.
KeepsFacts ==
    /\ Node \subseteq Node' /\ edges \subseteq edges' /\ marked \subseteq marked'
    /\ unread <= unread' /\ truncated <= truncated'
    /\ \A n \in Node : truth'[n] = truth[n] \/ (truth[n] = "unset" /\ truth'[n] = "observed")
    /\ \A n \in Node' \ Node :
          truth'[n] \in {"presumed", "asserted"} <=> n.version # NoVersion
FactsKept == [][KeepsFacts]_vars

\* What a step acts on: one declaration of the root, or what packages declare.
Declarations(n) == IF stage = "seed" THEN seeds \ seeds' ELSE Requires[world][n]

\* One project's pin never answers another's declaration: outside the resolver's
\* answers, a step draws an edge only to a node of the root's own subtree, to a
\* node without a version, or to a version that the declarations it acts on, of
\* every package the edge is drawn from, admit.
JustifiesLinks ==
    stage \notin {"assert", "direct"} =>
        \A e \in edges' \ edges :
            \/ e[2] \in Reachable(root)
            \/ e[2].version = NoVersion
            \/ \A d \in Declarations(e[1]) :
                  d.name = e[2].name => d.admits # Unevaluable /\ e[2].version \in d.admits
LinksJustified == [][JustifiesLinks]_vars

-----------------------------------------------------------------------------
(***************************************************************************)
(* What the documentation says and the code does not do.                   *)
(***************************************************************************)

\* A walk bounded by the network degrades coverage: a version list that could
\* not be read leaves a gap (comment on expandTransitive, cmd/depsnort/main.go).
NetworkBoundDegrades == stage = "done" /\ unlisted # {} => Gaps > 0

=============================================================================
