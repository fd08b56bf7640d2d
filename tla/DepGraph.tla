------------------------------- MODULE DepGraph -------------------------------
(***************************************************************************)
(* The dependency graph (internal/graph): what the lockfile adapters build,*)
(* a workspace scan merges and the coverage report is computed from.       *)
(*                                                                         *)
(* A graph is its nodes' attributes, its edges and its roots.  A node is   *)
(* its identity: ecosystem, name, version and, where that is no registry,  *)
(* the class of its source (internal/purl, WithSource).                    *)
(***************************************************************************)
EXTENDS Integers, Sequences, FiniteSets, FiniteSetsExt, TLC

CONSTANTS Order,      \* the alphabetical place of a name, a version or a source
          NoVersion   \* what stands where a lockfile records no version

\* Names, versions and sources stand in one alphabetical order.
ASSUME OrderAssumption ==
    /\ Order \in [DOMAIN Order -> Nat]
    /\ \A m, n \in DOMAIN Order : Order[m] = Order[n] => m = n

\* A function on one value, and two functions together, the first where both have it.
Only(d, e) == [x \in {d} |-> e]
Over(f, h) == [x \in DOMAIN f \cup DOMAIN h |-> IF x \in DOMAIN f THEN f[x] ELSE h[x]]

\* What is read out of a file is finite: its lists are sequences.
IsList(s) == s \in Seq({s[k] : k \in DOMAIN s})

\* What a file leaves out, where it is a string.
Empty == ""

\* The shapes of an origin in a lockfile: Empty where there is none.
Ref == {Empty, "git", "path", "http", "other"}

ClassifyRef(ref) ==
    CASE ref \in {"git", "path"} -> ref [] ref = "http" -> "url" [] OTHER -> "unknown"

Verifiable(class) == class = "registry"

\* WithSource: only an origin that is no registry distinguishes two packages.  The
\* code also tells two repositories or two addresses of one class apart (source_ref);
\* here a name and version has one origin of each class.
Qualifier(class) == IF class \in {"none", "registry", "unknown"} THEN "registry" ELSE class

Id(eco, name, ver, class) == [eco |-> eco, name |-> name, ver |-> ver, src |-> Qualifier(class)]

\* The order of the rendered identities.
Before(a, b) ==
    \/ Order[a.name] < Order[b.name]
    \/ a.name = b.name /\ Order[a.ver] < Order[b.ver]
    \/ a.name = b.name /\ a.ver = b.ver /\ Order[a.src] < Order[b.src]

\* What a node's attributes say that coverage reads: whether the project depends on
\* it directly, its recorded source class, the dependencies it leaves unresolved,
\* by name and by number, and whether its format records no tree.
Plain == [direct |-> FALSE, class |-> "none", open |-> {}, count |-> 0, flat |-> FALSE]

\* A fault: the names are recorded and not counted.
LeavesUncounted(names) == [Plain EXCEPT !.open = names]

Leaves(names) == [Plain EXCEPT !.open = names, !.count = Cardinality(names)]

Graph(at, edges, roots) == [at |-> at, edges |-> edges, roots |-> roots]

NoGraph == Graph(<<>>, {}, {})

-----------------------------------------------------------------------------
\* A fault: a project is passed over where another has its root.
MergeUnlessKnown(g, h) ==
    IF h.roots \subseteq g.roots THEN g
    ELSE Graph(Over(g.at, h.at), g.edges \cup h.edges, g.roots \cup h.roots)

\* Merge and AddNode: the first of two nodes with one identity wins.
Merge(g, h) == Graph(Over(g.at, h.at), g.edges \cup h.edges, g.roots \cup h.roots)

\* What the edges lead to from S.
Reach(g, S) ==
    LET r[n \in Nat] == IF n = 0 THEN S
                        ELSE LET before == r[n - 1] IN before \cup {e[2] : e \in {d \in g.edges : d[1] \in before}}
    IN  r[Cardinality(DOMAIN g.at)]

\* Orphans: neither a root nor the target of an edge.
Orphans(g) == DOMAIN g.at \ (g.roots \cup {e[2] : e \in g.edges})

\* RenameNode gives up when the new identity is taken, by one renamed earlier too.
Renamed(g, new) ==
    {id \in DOMAIN new \cap DOMAIN g.at :
        /\ new[id] \notin DOMAIN g.at
        /\ \A other \in DOMAIN new : new[other] = new[id] => ~Before(other, id)}

\* A fault: the edges and the roots keep the old identities.
RenameNodesOnly(g, new) ==
    LET to(id) == IF id \in Renamed(g, new) THEN new[id] ELSE id
    IN  [g EXCEPT !.at = [id \in {to(i) : i \in DOMAIN @} |-> @[CHOOSE i \in DOMAIN @ : to(i) = id]]]

\* RenameNode of each node that `new` gives an identity, in their order.
Rename(g, new) ==
    LET to(id) == IF id \in Renamed(g, new) THEN new[id] ELSE id
    IN  Graph([id \in {to(i) : i \in DOMAIN g.at} |-> g.at[CHOOSE i \in DOMAIN g.at : to(i) = id]],
              {<<to(e[1]), to(e[2])>> : e \in g.edges}, {to(i) : i \in g.roots})

\* attachUnrootedNpm and its like: what no path leads to from the root is linked to
\* it, unless it lies beneath an earlier package that is.
AttachUnrooted(g, root) ==
    LET lost == DOMAIN g.at \ Reach(g, {root})
        first == {m \in lost : \A k \in lost : Before(k, m) => m \notin Reach(g, {k})}
    IN  Graph(g.at, g.edges \cup {<<root, n>> : n \in first}, g.roots)

\* inDegreeZeroIDs and its like: what nothing needs, among some packages, is linked
\* to the root and marked direct.
AttachUnneeded(g, root, among) ==
    LET top == among \ ({root} \cup {e[2] : e \in g.edges})
    IN  Graph([id \in DOMAIN g.at |-> IF id \in top THEN [g.at[id] EXCEPT !.direct = TRUE] ELSE g.at[id]],
              g.edges \cup {<<root, n>> : n \in top}, g.roots)

-----------------------------------------------------------------------------
(***************************************************************************)
(* Coverage, as the graph alone shows it.                                  *)
(***************************************************************************)
Unresolved(g) == MapThenSumSet(LAMBDA id : g.at[id].count, DOMAIN g.at)

Unverifiable(g) == {id \in DOMAIN g.at \ g.roots : g.at[id].class \notin {"none", "registry"}}

Degraded(g) == Unresolved(g) > 0 \/ Orphans(g) # {}
=============================================================================
