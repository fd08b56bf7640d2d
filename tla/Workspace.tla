------------------------------- MODULE Workspace -------------------------------
(***************************************************************************)
(* A scan of a directory tree up to its coverage (cmd/depsnort): the walk  *)
(* that discovers projects (discover.go) and manifests nothing can read    *)
(* (gap.go), the adapters' reading of each, the merge of their graphs, the *)
(* reconstruction of flat Python trees, and what all of it means for the   *)
(* exit code.  The stages that add packages, advisories and findings       *)
(* (Expand, Fetch, Scan) and the install surface are switched off.         *)
(*                                                                         *)
(* A tree maps paths, sequences of directory names below the scanned one,  *)
(* to directories.  A directory has the files that adapters claim (`docs`) *)
(* and others, an identity, which a mount loop repeats, and may be         *)
(* unreadable.                                                             *)
(***************************************************************************)
EXTENDS NpmLocks, PyLocks, OtherLocks, Managers

CONSTANTS Scans,       \* the scans, <<world, options>>, where a world is
                       \* [tree, base, publishes, holds, declares] and options are
                       \* [recurse, noBuildDirs, requireProject, failOnIncomplete]
          HiddenName   \* the names that start with a dot

\* A directory that is mounted below itself is met again and again.
Repeats(tree, path) ==
    \E j, k \in 0..Len(path) : j # k /\ tree[Leading(path, j)].identity = tree[Leading(path, k)].identity

\* A mount shows a directory as it is, with what lies in it.
MountShows(tree, p, q) ==
    /\ tree[p].readable = tree[q].readable /\ tree[p].files = tree[q].files
    /\ {d.eco : d \in tree[p].docs} = {d.eco : d \in tree[q].docs}
    /\ \A name \in DOMAIN Order : Append(p, name) \in DOMAIN tree /\ ~Repeats(tree, q) =>
          /\ Append(q, name) \in DOMAIN tree
          /\ tree[Append(p, name)].identity = tree[Append(q, name)].identity

\* A tree is finite, where mounts repeat it too: it is cut off somewhere below.  Its paths
\* are made of names, a directory lies in another, and a file is claimed by one of the
\* adapters.
ASSUME WorkspaceAssumption ==
    /\ \A s \in Scans : LET tree == s[1].tree IN
          /\ IsFiniteSet(DOMAIN tree) /\ <<>> \in DOMAIN tree /\ DOMAIN tree \subseteq Seq(DOMAIN Order)
          /\ \A p \in DOMAIN tree :
                /\ \A k \in 0..Len(p) : Leading(p, k) \in DOMAIN tree
                /\ IsFiniteSet(tree[p].files)
                /\ \A d \in tree[p].docs : \/ d.eco = "npm" /\ NpmFile(d)
                                           \/ d.eco = "pypi" /\ PypiFile(d)
                                           \/ d.eco \in DOMAIN OtherFormats /\ OtherFile(d)
                /\ \A q \in DOMAIN tree : tree[p].identity = tree[q].identity => MountShows(tree, p, q)

VARIABLES world, opt,
          stage,       \* what comes next
          todo,        \* the projects not yet resolved
          g,           \* the merged graph
          failures,    \* of adapters
          unfetched,   \* coordinates whose metadata could not be had
          exit

vars == <<world, opt, stage, todo, g, failures, unfetched, exit>>

-----------------------------------------------------------------------------
NeverDescend ==
    {"node_modules", "vendor", "venv", ".venv", "site-packages", "__pycache__", "bower_components", ".git", ".hg",
     ".svn", ".tox", ".mypy_cache", ".next", ".cache"}

BuildDirs == {"dist", "build", "target"}

\* optionalBuildDirs and artifactContextDirs
ArtifactContext == {"build", "target"}

BuildArtifacts ==
    {"classes", "test-classes", "generated-sources", "generated-test-sources", "maven-status", "maven-archiver",
     "package", "debug", "release", "deps", "incremental", ".fingerprint", "doc", "generated", "intermediates", "libs",
     "tmp", "resources", "reports", "publications", "classes-java"}

InsideBuildTree(path) == \E k \in 1..(Len(path) - 1) : path[k] \in ArtifactContext

\* The names skipWalkDir prunes.
Pruned(path) ==
    /\ path # <<>>
    /\ \/ Last(path) \in NeverDescend
       \/ opt.noBuildDirs /\ Last(path) \in ArtifactContext
       \/ Last(path) \in BuildArtifacts /\ InsideBuildTree(path)
       \/ Last(path) \in HiddenName \ BuildDirs

\* The members of a finite set in a linear order.
Listed(S, before(_, _)) ==
    [k \in 1..Cardinality(S) |-> CHOOSE x \in S : Cardinality({y \in S : before(y, x)}) = k - 1]

\* The paths of a tree in the order of the walk: a directory, then what is below it.
InWalkOrder(paths) == Listed(paths, PlaceBefore)

\* The directories that no name prunes and that lie below readable ones only.
Visible ==
    {p \in DOMAIN world.tree : \A k \in 0..Len(p) : /\ ~Pruned(Leading(p, k))
                                                    /\ k < Len(p) => world.tree[Leading(p, k)].readable}

\* A fault: the walk does not look for projects below another.
EntersNoNested(p, seen) ==
    LET above == Leading(p, Len(p) - 1)
    IN  /\ ~Pruned(p)
        /\ p # <<>> => above \in seen /\ world.tree[above].readable /\ world.tree[above].docs = {}
        /\ \A q \in seen : world.tree[q].identity # world.tree[p].identity

\* A directory is entered unless a mount has led there before.
Enters(p, seen) ==
    LET above == Leading(p, Len(p) - 1)
    IN  /\ ~Pruned(p)
        /\ p # <<>> => above \in seen /\ world.tree[above].readable
        /\ \A q \in seen : world.tree[q].identity # world.tree[p].identity

\* The directories the walk enters.
Walked ==
    LET order == InWalkOrder(DOMAIN world.tree)
        over[k \in 0..Len(order)] ==
            IF k = 0 THEN {}
            ELSE LET seen == over[k - 1]
                 IN  IF Enters(order[k], seen) THEN seen \cup {order[k]} ELSE seen
    IN  over[Len(order)]

-----------------------------------------------------------------------------
\* The ecosystems whose adapter claims a directory (DetectAll), and the file each reads.
\* The adapters stand in the order of their registry; the walk sorts them by name.
Adapters == <<"npm", "pypi", "gem", "cargo", "composer", "nuget", "gomod", "clojure">>
ByName   == <<"cargo", "clojure", "composer", "gem", "gomod", "npm", "nuget", "pypi">>

Formats(eco) == CASE eco = "npm" -> NpmFormats [] eco = "pypi" -> PyFormats [] OTHER -> OtherFormats[eco]

Claims(path) == IF world.tree[path].readable THEN {d.eco : d \in world.tree[path].docs} ELSE {}

Chosen(path, eco) ==
    LET files == {d \in world.tree[path].docs : d.eco = eco}
        rank(d) == CHOOSE k \in DOMAIN Formats(eco) : Formats(eco)[k] = d.format
    IN  CHOOSE d \in files : \A e \in files : rank(d) <= rank(e)

Fails(doc) == CASE doc.eco = "npm" -> doc.format = "pnpm" /\ PnpmFails(doc)
                [] doc.eco = "pypi" -> PyFails(doc)
                [] OTHER -> OtherFails(doc)

Read(doc) == CASE doc.eco = "npm" -> ReadNpm(doc) [] doc.eco = "pypi" -> ReadPypi(doc) [] OTHER -> ReadOther(doc)

\* A directory's own name; that of the scanned one is world.base.
BaseName(path) == IF path = <<>> THEN world.base ELSE Last(path)

\* gapManifestByName
GapManifestByName ==
    {"pom.xml", "build.gradle", "build.gradle.kts", "pnpm-lock.yaml", "poetry.lock", "uv.lock", "Pipfile",
     "paket.dependencies", "gradle.lockfile", "bun.lockb", ".terraform.lock.hcl", "mix.exs", "Directory.Packages.props",
     "pubspec.yaml", "Podfile", "Package.swift", "mix.lock", "Podfile.lock", "pubspec.lock", "flake.lock", "conan.lock",
     "deno.lock"}

\* gapManifestByExt
GapManifestByExt ==
    {".csproj", ".fsproj", ".vbproj", ".vcxproj", ".gemspec", ".podspec", ".cabal", ".nimble", ".sbt"}

AdapterHandledLocks ==
    {"Cargo.lock", "composer.lock", "yarn.lock", "Gemfile.lock", "Pipfile.lock", "paket.lock", "bun.lock"}

\* aiAgentConfigIndicators and aiAgentConfigDirIndicators
AgentConfig ==
    {".cursorrules", ".windsurfrules", "mcp.json", ".aider.conf.yml", ".vscode/tasks.json", ".claude/settings.json",
     ".claude/settings.local.json", ".claude/setup.mjs", ".cursor/rules", ".gemini/settings.json",
     ".github/copilot-instructions.md"}

\* classifyGapManifest: any file that is a lock by its suffix will do.
IsGapManifest(f) ==
    \/ f.name \in GapManifestByName
    \/ f.ext \in GapManifestByExt
    \/ f.ext = ".lock" /\ f.name \notin AdapterHandledLocks

\* recognizedGapManifests
Gaps(path) ==
    LET files == IF world.tree[path].readable THEN world.tree[path].files ELSE {}
    IN  {f.name : f \in {x \in files : IsGapManifest(x) \/ x.name \in AgentConfig}}

\* gapAdapter and noteAdapter: a root that says what was not read.
Unread(eco, path, what) ==
    LET root == Id(eco, BaseName(path), "0.0.0", "none")
    IN  Graph(Only(root, [Leaves(what) EXCEPT !.class = "path"]), {}, {root})

\* A project is [path, eco, unread]; for the last kind of project `eco` says which.
Project(path, eco, what) == [path |-> path, eco |-> eco, unread |-> what]

\* What the adapters claim among some directories, by path and in the adapters' order.
ProjectsIn(paths, adapters) ==
    LET claims == {c \in paths \X DOMAIN adapters : adapters[c[2]] \in Claims(c[1])}
        before(c, d) == PlaceBefore(c[1], d[1]) \/ (c[1] = d[1] /\ c[2] < d[2])
        order == Listed(claims, before)
    IN  [k \in DOMAIN order |-> Project(order[k][1], adapters[order[k][2]], {})]

\* A fault: where an adapter claims a directory nothing below it is disclosed.
ManifestGapsOutside(walked) ==
    LET order == InWalkOrder({p \in walked : Gaps(p) # {} /\ \A k \in 0..Len(p) : Claims(Leading(p, k)) = {}})
    IN  [k \in DOMAIN order |-> Project(order[k], "unscanned", Gaps(order[k]))]

\* discoverManifestGaps: the same walk, without the claimed directories.
ManifestGaps(walked) ==
    LET order == InWalkOrder({p \in walked : Gaps(p) # {} /\ Claims(p) = {}})
    IN  [k \in DOMAIN order |-> Project(order[k], "unscanned", Gaps(order[k]))]

\* discoveryCoverageGaps: the projects below that a scan of one directory leaves out.
LeftOut(scanned) == UNION {Claims(p) \X {p} : p \in Walked \ scanned}

Shallow ==
    LET here  == ProjectsIn({<<>>}, Adapters)
        all   == IF here # <<>> \/ Gaps(<<>>) = {} THEN here ELSE <<Project(<<>>, "unscanned", Gaps(<<>>))>>
        notes == LeftOut(IF all = <<>> THEN {} ELSE {<<>>})
    IN  IF notes = {} THEN all ELSE Append(all, Project(<<>>, "coverage-note", notes))

Deep ==
    LET walked == Walked
    IN  ProjectsIn(walked, ByName) \o ManifestGaps(walked)

-----------------------------------------------------------------------------
Init ==
    /\ \E s \in Scans : world = s[1] /\ opt = s[2]
    /\ stage = "discover"
    /\ todo = <<>>
    /\ g = NoGraph
    /\ failures = 0
    /\ unfetched = {}
    /\ exit = "none"

\* Nothing to scan is a clean exit, unless a project was required.
Discover ==
    /\ stage = "discover"
    /\ todo' = IF opt.recurse THEN Deep ELSE Shallow
    /\ IF todo' # <<>> THEN stage' = "resolve" /\ UNCHANGED exit
       ELSE /\ stage' = "done"
            /\ exit' = IF opt.requireProject THEN "incomplete" ELSE "clean"
    /\ UNCHANGED <<world, opt, g, failures, unfetched>>

\* resolveProjects: a project that fails is counted and left out.
Resolve ==
    /\ stage = "resolve" /\ todo # <<>>
    /\ todo' = Tail(todo)
    /\ LET p == Head(todo) IN
       IF p.eco \in {"unscanned", "coverage-note"}
       THEN g' = Merge(g, Unread(p.eco, p.path, p.unread)) /\ UNCHANGED failures
       ELSE IF Fails(Chosen(p.path, p.eco)) THEN failures' = failures + 1 /\ UNCHANGED g
       ELSE g' = Merge(g, Read(Chosen(p.path, p.eco))) /\ UNCHANGED failures
    /\ UNCHANGED <<world, opt, stage, unfetched, exit>>

\* The flat Python projects, and the packages whose requirements are fetched for them.
FlatPython == {r \in g.roots : r.eco = "pypi" /\ g.at[r].flat}

Pins == {e[2] : e \in {d \in g.edges : d[1] \in FlatPython}}

\* The graph with the flat projects reconstructed in turn, where some fetches failed.
Reconstructed(lost) ==
    LET requires == [id \in Pins \ lost |-> world.publishes[<<id.name, id.ver>>]]
    IN  FoldSet(LAMBDA r, h : Reconstruct(h, r, requires), g, FlatPython)

\* reconstructPyPIDepth: each fetch may fail, and counts as a gap if one does.
ReconstructDepth ==
    /\ stage = "resolve" /\ todo = <<>> /\ DOMAIN g.at # {}
    /\ \E lost \in SUBSET Pins :
        /\ unfetched' = lost
        /\ g' = Reconstructed(lost)
    /\ stage' = "report"
    /\ UNCHANGED <<world, opt, todo, failures, exit>>

NothingResolved ==
    /\ stage = "resolve" /\ todo = <<>> /\ DOMAIN g.at = {}
    /\ stage' = "done" /\ exit' = "internal"
    /\ UNCHANGED <<world, opt, todo, g, failures, unfetched>>

\* Coverage.Incomplete
Incomplete == Degraded(g) \/ failures > 0 \/ unfetched # {} \/ Unverifiable(g) # {}

Report ==
    /\ stage = "report"
    /\ stage' = "done"
    /\ exit' = IF opt.failOnIncomplete /\ Incomplete THEN "incomplete" ELSE "clean"
    /\ UNCHANGED <<world, opt, todo, g, failures, unfetched>>

Next == Discover \/ Resolve \/ ReconstructDepth \/ NothingResolved \/ Report

Spec == Init /\ [][Next]_vars

-----------------------------------------------------------------------------
(***************************************************************************)
(* What the scan promises, against what the package managers installed.    *)
(* world.holds are the installations written down in the tree, as          *)
(* [path, eco, format, of], and world.declares the names that manifests    *)
(* and lockfiles ask for without one, as [path, eco, name].                *)
(***************************************************************************)

\* The graph is whole: well-formed, rooted, with no count below zero, and the
\* counters are those of the steps taken.
TypeOK ==
    /\ stage \in {"discover", "resolve", "report", "done"}
    /\ exit \in {"none", "clean", "incomplete", "internal"} /\ (exit # "none") = (stage = "done")
    /\ g.roots \subseteq DOMAIN g.at /\ (g.roots = {} => DOMAIN g.at = {})
    /\ \A e \in g.edges : e[1] \in DOMAIN g.at /\ (e[2] \in DOMAIN g.at \/ Dangles(e))
    /\ \A id \in DOMAIN g.at : g.at[id].count >= 0 /\ id.src \in {"registry", "git", "path", "url"}
    /\ unfetched \subseteq DOMAIN g.at

AllRead == stage \in {"report", "done"} \/ (stage = "resolve" /\ todo = <<>>)

\* The directories whose projects are resolved, one path for each.
Scanned == IF opt.recurse THEN Walked ELSE {<<>>}

Held ==
    LET scanned == Scanned
    IN  {h \in world.holds : h.path \in scanned /\ world.tree[h.path].readable}

NodesOf(eco, p) == {id \in DOMAIN g.at : id.eco = eco /\ id.name = p[1] /\ id.ver = p[2]}

\* The node of an installation's project, or of one of its packages.
Named(h, p) == IF p = Top THEN <<h.of.dir, "0.0.0">> ELSE p

\* The formats that record which package uses which, and those that record which
\* ones the project uses itself.
LinkFormats  == {f[2] : f \in LockFormat} \ {"pipfile", "freeze", "go.mod"}
TopFormats   == {"package-lock", "pnpm", "yarn", "bun", "uv", "Cargo.lock", "packages.lock.json", "Gemfile.lock"}

\* bun.lock is read by name: what is said of it is said of one version of each.
Recorded(h) == h.format \in LinkFormats /\ (h.format = "bun" => OneVersionEach(h.of))

\* The links between the packages of an installation are read back as they were
\* written, none lost and none added, also where several versions of a name lie side
\* by side (resolveHoisted, resolveYarnDep, uvDep, resolveDep of cargo); so are the
\* project's own, where the format has them.
LinksReadBack ==
    AllRead =>
        LET held == Held IN
        \A h \in {x \in held : Recorded(x) /\ \A y \in held : y.eco = x.eco => y = x} :
            \A p \in h.of.pkgs \cup (IF h.format \in TopFormats THEN {Top} ELSE {}), q \in h.of.pkgs :
                <<p, q>> \in h.of.links <=> \E e \in g.edges : /\ e[1] \in NodesOf(h.eco, Named(h, p))
                                                               /\ e[2] \in NodesOf(h.eco, q)

\* The formats that hide which packages of a cycle the project uses.
CycleHides == {"composer.lock", "paket.lock", "project.assets.json", "requirements", "freeze", "pipfile", "pylock"}

\* Every package that is locked is in the graph and a path leads to it from its
\* project, whatever metadata could be fetched (reconstruction strands nothing), or
\* coverage is degraded: the versions that bun.lock, read by name, leaves behind are
\* orphans.  Cycles are the exception in some formats: see OrphansAreUnreached.
LockedIsReached ==
    AllRead => \A h \in {x \in Held : ~(x.format \in CycleHides /\ Cyclic(x.of))} :
        LET reached == Reach(g, NodesOf(h.eco, Named(h, Top)))
        IN  \A p \in h.of.pkgs : NodesOf(h.eco, p) # {} /\ (NodesOf(h.eco, p) \cap reached # {} \/ Degraded(g))

\* Two projects of one ecosystem with one root: Merge keeps what the first says.
SharesRoot(path, eco, scanned) ==
    \E q \in scanned \ {path} : eco \in Claims(q) /\ BaseName(q) = BaseName(path)

\* Whatever a project asks for is a package of the graph or one of the names left
\* open, and then coverage counts it.
DeclaredIsCounted ==
    AllRead =>
        LET scanned == Scanned IN
        \A d \in {x \in world.declares : /\ x.path \in scanned /\ world.tree[x.path].readable
                                         /\ ~SharesRoot(x.path, x.eco, scanned)} :
            \E id \in DOMAIN g.at :
                \/ id.eco = d.node /\ id.name = d.name /\ id \notin g.roots
                \/ id.eco = d.node /\ d.name \in g.at[id].open /\ Unresolved(g) > 0

\* No directory is resolved twice for one ecosystem, or disclosed twice, however many
\* ways a mount leads there and in whatever order the walk meets them.
ResolvedOnce ==
    \A j, k \in DOMAIN todo : todo[j].eco = todo[k].eco /\ j # k =>
        world.tree[todo[j].path].identity # world.tree[todo[k].path].identity

\* What a directory is resolved for, or disclosed as.
Due(p) == IF Claims(p) # {} THEN Claims(p) ELSE IF Gaps(p) # {} THEN {"unscanned"} ELSE {}

\* No directory is mounted into a build tree from outside of it, or the other way round.
BuildsStayApart ==
    LET built(p) == \E k \in DOMAIN p : p[k] \in ArtifactContext
    IN  \A p, q \in DOMAIN world.tree : world.tree[p].identity = world.tree[q].identity => built(p) = built(q)

\* The directories found, each with what it is resolved for.
Key(p, eco) == <<world.tree[p].identity, eco>>

Found(list) == {Key(list[k].path, list[k].eco) : k \in DOMAIN list}

\* Every directory that a path without a pruned name leads to is found, though it be under
\* another of its paths.
AllFound == Found(todo') = UNION {{Key(p, eco) : eco \in Due(p)} : p \in Visible}

\* The walk leaves out no directory, whatever mounts fold the tree into.
NothingLeftOut == [][Discover /\ opt.recurse /\ BuildsStayApart => AllFound]_vars

\* A graph is part of the merged one; what reconstruction moves begins at a Python project.
HoldsAll(h) ==
    /\ DOMAIN h.at \subseteq DOMAIN g.at /\ h.roots \subseteq g.roots
    /\ \A e \in h.edges : e \in g.edges \/ (e[1] \in g.roots /\ e[1].eco = "pypi")

\* What the adapters claim of the scanned directories, each for itself.
Claimed == UNION {{q} \X Claims(q) : q \in Scanned}

Failing == {c \in Claimed : Fails(Chosen(c[1], c[2]))}

\* A directory holds only what no adapter reads, or a scan of one directory leaves out
\* projects below it.
ToDisclose ==
    \/ \E q \in Scanned : Claims(q) = {} /\ Gaps(q) # {}
    \/ ~opt.recurse /\ LeftOut(Scanned) # {}

\* Nothing is passed over in silence, whatever the files hold and in whatever order they
\* are read: all that is claimed is in the merged graph, with its links, or is one of the
\* failures counted, none of them twice; what is to be disclosed is counted as unresolved;
\* where neither may be, a clean exit says that there is neither; and a recursive scan
\* comes to every directory that can be seen (resolveProjects, gapAdapter, noteAdapter,
\* Merge, Coverage.Incomplete).
NothingUnaccounted ==
    AllRead =>
        LET scanned == Scanned
            failing == Failing
        IN  /\ \A c \in Claimed \ failing : HoldsAll(Read(Chosen(c[1], c[2])))
            /\ failures = Cardinality(failing)
            /\ ToDisclose => Unresolved(g) > 0
            /\ exit = "clean" /\ opt.failOnIncomplete => failing = {} /\ ~ToDisclose
            /\ opt.recurse /\ BuildsStayApart =>
                  \A p \in Visible : \E q \in scanned : world.tree[q].identity = world.tree[p].identity

\* The packages whose origin no advisory database covers, where it is read: not from a
\* pdm.lock nor from the tree of an old package-lock.json.
Foreign(h) == IF h.format \in {"pdm", "package-lock v1"} THEN {} ELSE h.of.git

\* With -fail-on-incomplete a clean exit means that everything was seen: all that
\* is written down in a directory no name prunes is in the graph, from a registry and
\* pinned, and no such directory holds only what nothing can read.
CleanSawEverything ==
    (exit = "clean" /\ opt.failOnIncomplete) =>
        LET scanned == Scanned IN
        \A p \in Visible :
            /\ \A h \in {x \in world.holds : x.path = p /\ world.tree[p].readable} :
                    /\ \A q \in h.of.pkgs : NodesOf(h.eco, q) # {}
                    /\ Foreign(h) = {}
            /\ Gaps(p) # {} => Claims(p) # {} \/ (~opt.recurse /\ p # <<>>)
            /\ \A eco \in Claims(p) : /\ ~Fails(Chosen(p, eco))
                                      /\ Unresolved(Read(Chosen(p, eco))) = 0 \/ SharesRoot(p, eco, scanned)

\* (main.go and coverage.go say so) Orphans counts what no root reaches: it counts
\* what no edge leads to, so a cycle that is cut off goes uncounted.
OrphansAreUnreached == AllRead => Orphans(g) = DOMAIN g.at \ Reach(g, g.roots)

\* (coverage.go says so) Unresolved is the total of what the projects leave open: the
\* second of two projects with one root is merged away, and its count with it.
UnresolvedIsTotal ==
    (AllRead /\ opt.recurse) =>
        Unresolved(g) >= MapThenSumSet(
            LAMBDA c : IF Fails(Chosen(c[1], c[2])) THEN 0 ELSE Unresolved(Read(Chosen(c[1], c[2]))),
            UNION {{p} \X Claims(p) : p \in Walked})
=============================================================================
