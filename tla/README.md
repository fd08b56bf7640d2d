# A verification project for depSNORT

depSNORT is a static, pre-install dependency intrusion detector: a Go program
that reads the lockfiles of one or more projects, grows a dependency graph from
them with metadata from registries and resolvers, asks advisory sources about
each package, runs checks over the result and ends with an exit code that gates
a pipeline. This directory holds TLA+ modules translated from its source, the
TLC configurations that check them on small instances, and TLAPS proofs about
them for every instance. Paths below are relative to the repository's root.

## 1. The system

One run is a sequential pipeline in `cmd/depsnort/main.go` (`cmdScan`):

    discover -> resolve projects -> OSV prefetch -> registry histories ->
    build-script fetch -> PyPI reconstruction -> transitive expansion ->
    OSV again -> EPSS, IOC, baseline -> checks -> coverage -> verdict ->
    emit -> exit code

Concurrency is confined to the metadata clients, which fetch with bounded
goroutines and join before they return, and to separate processes that share the
cache directory. What is hard about the program is not parallelism. It is that
nearly every step may fail in part, that each shortfall must be neither lost nor
taken for "nothing there", that several passes revise one graph, and that files
(the cache, snapshots, baselines) carry state from one run to the next.

| Component | State | Operations | Interacts with | What makes it correct |
|---|---|---|---|---|
| verdict (`internal/verdict`) | working findings, counts, risk per node | demotions, containment, tally, overlay, propagation, exit | findings of all checks, graph, coverage | the exit code and the risks are functions of the inputs, whatever the order of maps and traversal; advisory findings never gate; demotions never reach a block |
| cached metadata fetch (`internal/datasource/registry`, `npmreg`, `cache.go`) | cache files, result slots, counters | lookup, concurrent fetch, join, fold, write | other processes through the cache directory; expansion and history stages as callers | no result lost or misfiled; bounded parallelism; return on every path; cached runs replay |
| transitive expansion (`internal/expand`) | the graph, the frontier, name index, marks and counts | seed, assert, read a layer, presume a layer, stop | registry clients, resolvers, the graph shared by all roots | no reached package is silently unread; a gap-free walk is complete; facts are never overwritten; one project's pin never answers another's declaration |
| advisory tier (`internal/datasource/osv`, `snapshot.go`, OSV stages of `main.go`) | advisories per node, statistics, cache, snapshot file | two `QueryBatch` calls, export, import, gap rule, exit | cache across runs, bundled dataset, expansion between the calls | every gap is counted once; stores hold only live answers; a clean exit checked what was pinned |
| discovery and manifest gaps (`discover.go`, `gap.go`, `excludes.go`) | identities of the directories visited | walk, prune, claim, disclose | the adapters' detection, resolution, coverage | each directory is resolved once; what nothing reads is disclosed |
| adapters (`internal/ecosystem/npm`, `pypi`, `cargo`, `composer`, `rubygems`, `gomod`, `nuget`, `clojure`) | none | claim a directory, choose a file, read it | files that package managers write; the graph | the installation is read back as it was written; what is not pinned is counted |
| graph (`internal/graph`) | nodes, edges, roots | add, merge, rename, attach, coverage | everything | merge loses nothing that matters; coverage states every shortfall |
| Python reconstruction (`pypi/reconstruct.go`) | the edges of flat roots | fetch requirements, move edges | PyPI client, graph | no package is stranded; failed fetches are counted |
| Go resolver (`internal/ecosystem/gomod/resolver.go`) | selected versions, worklist | minimal version selection, pruned and full seeds | module proxy, expansion | the build list is a fixpoint and does not depend on the order of reads; a failed fetch is reported |
| release histories and temporal checks (`registry`, `npmreg`, `goproxy`; `internal/check` dormancy, burst, lineage, yanklure) | history per node | fetch, attach, judge | the clock, the registries, profiles | what gates holds of all releases that the registry dates, or a gap says that it was not read in full |
| cargo build scripts (`cargo/installsurface.go`, `main.go`) | surfaces, gaps | find on disk, fetch, clear gaps | graph shared by projects | a source that nobody read stays counted |
| baseline and drift (`internal/baseline`, `internal/profile`, `cmd/depsnort/baseline.go`) | the baseline file, profiles | create, look up, diff | VC-010 | a diff names what changed, and only that; what cannot be compared is said |
| version grammars (`semver`, `pep440`, `nugetver`) | none | compare, satisfies | presumption, lineage | the orders are total; ranges are evaluated as their ecosystems do |
| install-surface extraction, other checks, emitters, EPSS, IOC, deps.dev, tools | none that persists | matching, formatting, requests | the stages above | see section 5 |

`PROJECT.json` lists every component with its sources and status, and, under
"hazards", everything in this code that tests hardly reach, at its line, with the
properties that cover it.

## 2. The modules

| Module | Models | Kind |
|---|---|---|
| `VerdictContract` | what `EvaluateWithCoverage` promises, in one step | abstract specification |
| `Verdict` | its stages, one action per statement of the code | detailed specification, refines `VerdictContract` |
| `VerdictProofs` | | proofs |
| `FetchContract` | what a fetch call may answer, in one step per call | abstract specification |
| `Fetch` | lookups, goroutines, semaphore, fold, torn cache writes, crashes | detailed specification, refines `FetchContract` |
| `FetchReplay` | composes two `Fetch` calls: online, then offline over the same cache | composition |
| `FetchProofs` | of `Fetch` and `FetchReplay` | proofs |
| `Expand` | `ExpandRoot` over several roots and one graph, and the coverage entry of `expandTransitive` | specification |
| `ExpandProofs` | | proofs |
| `Scan` | successive scans: `QueryBatch`, the two calls of a scan, snapshot, exit code | specification, composes the advisory tier with the stages around it |
| `ScanProofs` | | proofs |
| `GoMod` | go.mod files: the lines, what they require and retract, the order of versions | operators, used by `Mvs` and `Weather` |
| `Mvs` | the Go resolver: reads in any order, any of which may fail; both selections; the flattening; the report | specification, with the build list by its definition |
| `MvsProofs` | | proofs |
| `Weather` | release histories as the registries give them, and the four checks that judge them | operators |
| `Drift` | `baseline create` and `scan -baseline` over days, edits and failures, with the histories, lure enrichment and build-script fetch between | specification, extends `Weather` |
| `DriftProofs` | | proofs |
| `DepGraph` | the graph: identities, nodes, `Merge`, rename, attachment, coverage | operators |
| `NpmLocks`, `PyLocks`, `OtherLocks` | how the adapters read each input | operators over `DepGraph` |
| `Managers` | what package managers write for an installation; their code is not in this repository | external |
| `Workspace` | a scan from the walk to the exit code: discovery, gaps, adapters, merge, reconstruction, coverage | specification, composes the five above |
| `LockProofs` | of `DepGraph` and the three lock modules: what each reader returns | proofs |
| `WorkspaceProofs` | | proofs |
| `MCVerdict`, `MCFetch`, `MCFetchReplay`, `MCExpand`, `MCScan`, `MCMvs`, `MCDrift`, `MCWorkspace` | small instances | model checking |

Operators whose comment calls them faults (`RaisedBlindly`, `StoredFallback` and
so on) are plausible bugs of one definition each. No action uses them;
substituted for that definition they break the property that watches it, which
shows that the property says something about the code.

### Verdict

The variables are the working copies of `EvaluateWithCoverage`: `findings`
(gate class, contained), `counts`, `risk`, and the queue of
`propagateInstallTime`. The stages are the statements of the function in order:
`ApplyRecencyDemotion`, `ApplyPresumedDemotion`, `ApplyContainment`, `Tally`,
`Overlay` (one step per node, in any order, as the code ranges over a map),
`StartPackage` / `Traverse` / `FinishPackage` (breadth-first raising of risk over
install-time edges), `Decide`. `VerdictContract` computes the exit code, the
containment labels and the risk of every node directly from the inputs, the risk
by reachability. A package's worst reachable risk is reached by traversal in the
one and by definition in the other.

### Fetch

The calls share one cache. A call looks up each coordinate in order (`LookupHit`,
`LookupMiss`), starts a goroutine per miss, which acquires the semaphore,
finishes with one of the outcomes of an HTTP request and fills its own slot; the
join `Wait` precedes the serial fold, which counts, keeps and writes. A cache
write truncates and then fills the file (`FoldOpen`, `Write`), so that `Crash`, a
failed write or another process in between leaves a torn entry. Clients that
return an error for the first failure ("strict") and those that count it
("tolerant") are one module with a constant set of tolerant calls. Entries go
stale (`Expire`). The contract of a call speaks of the fate of each coordinate
(`hit`, `found`, `absent`, `gap`, `pending`); `FatesAreCounted` says that at every
moment there are fates of which the counters, answers and errors in hand are the
contract's answer. In `FetchReplay`, `ReplayInv` follows an online call's answers
into their files and an offline call over these files.

### Expand

`truth` is the version-truth attribute of each node (its domain is the graph's
nodes), `edges`, `marked` (the frontier attribute) and the two counters are the
graph and result; `byName`, `frontier`, `expanded`, `queue`, `layer` are the
locals of `ExpandRoot`. Every answer from outside is chosen at each step: any
subset of a batch's packages may be `absent`, any name's version list may be
`missing`, a resolver may have no answer, a complete one, or one with `holes`
(`IncompleteResolution`). `closed` and `unlisted` are history variables: which
nodes a resolver's answer stands for, and which names could not be listed.
Constraints are sets of versions, so a constraint is evaluated by membership; one
in a grammar the tool does not read is a value of its own. The name that a
lockfile resolves twice is indexed under either node, as a range over a Go map
leaves open.

### Scan

`Lookup` is the cache loop of `QueryBatch`, `Post` one answered request with the
cache writes that succeed, `PostFails` the failed request that abandons itself
and everything behind it to the bundled dataset. `AskPinned`/`FinishFirst` and
`AskRest`/`FinishSecond` are the two calls of `cmdScan`, with the export, the
gap rule and the fold into the report; `Grow` stands for all stages between
them: it adds any set of packages. `Judge` is VC-001 and the precedence of the
exit codes under `-fail-on-incomplete`; it gates on the pinned packages alone, as
the verdict demotes what is found of presumed and asserted versions. Between scans OSV may publish malware,
entries expire, or the next scan may run on another machine with only the
snapshot file. `said` (all that OSV ever answered) and `covered` (what some
source checked for malware) are history variables.

### Mvs

`work` is the code's stack, taken here in any order, and `seen` what was ever put
on it. `Fetch` asks the proxy once for a file: it is `read`, `absent` (the 404 or
410 that ends a branch) or `failed`, and `unread` keeps the first version of a
module whose request failed, as the code's map does. `Resolve` answers a published
coordinate, `ResolveLocalRoot` the go.mod of a scanned project; `ReadFull` and
`ReadPruned` are the bodies of `selectFullGraphSeed` and `selectPrunedSeed`;
`Flatten`, `ReadEdges` and `Return` are `buildResolvedGraph` and
`incompleteResolution`. Files are sequences of the kinds of line the parser tells
apart, so that a block left open or a line without a version is read as the code
reads it. The build list is also defined without a worklist, as the highest
version that a file which counts requires (`Counts`, by least closed sets).

### Weather and Drift

`Timeline` holds every release there will ever be; what a registry says on a day
is computed from it. Some publishers are not recorded. Some releases are not `dated`:
the registry gives no time, or one that does not parse, or the module proxy answers 404
for the version; the parsers leave these out and count nothing, and so does `Dated`. A
module whose highest version has no go.mod at the proxy retracts nothing, likewise
without a gap. A request that fails otherwise is one. `StartCreate` and `StartScan` resolve the tree,
`Prefetch` asks one source after the other, `EnrichLure` and `FetchScripts` are
the stages of `cmdScan` that read more about withdrawn pins and crates, `Write`
and `Judge` end the two commands. `Wait` and `Edit` stand for the time between:
the clock, releases, withdrawals, and a different lockfile. A pin says in which
project a node stands and whether its source is on disk there, because two
projects share a node in the graph and not the gap that was raised for it.

### DepGraph, the lock modules, Managers and Workspace

A graph maps identities to what the tool keeps of them (source class, whether the
root asks for it, the names left open and their count) and has edges and roots.
`NpmLocks` reads package-lock.json in both layouts, pnpm-lock.yaml, yarn.lock,
bun.lock and package.json; `PyLocks` uv.lock, poetry.lock, pdm.lock, pylock.toml,
Pipfile.lock, requirements files with what they include, and the manifests;
`OtherLocks` Cargo.lock, composer, Gemfile, go.mod, NuGet's files with MSBuild
properties and central versions, paket and Clojure. A file is what its parser has
made of the text; the choice among files, the resolution of references, the roots
and every name that ends up in no edge are the adapters' own. A requirements file
beside the first one, or one it includes, that cannot be read is kept as not followed;
the failure of the text scanner itself is left out. An identity carries the class of a
package's origin; that the code's `source_ref` also tells two repositories of one class
apart is left out.

`Managers` says what the package managers put in those files for an installation
(packages, their links, which come from a repository), so that `Workspace` can ask
whether what was installed is what the scan sees. `Discover` runs the walk of
`discoverProjects` or its one-directory form with what it discloses: `Enters` is the
decision about one directory, `Walked` makes it for each in the order of the paths, and
the tree of paths may show one directory (device and inode, `identity`) in several
places, as mounts do. `Resolve` is
one turn of `resolveProjects` (a project that fails is counted and left out, a
manifest nothing reads becomes a node of its own), `ReconstructDepth` fetches
requirements, each of which may fail, and moves edges, `Report` is
`Coverage.Incomplete` and the exit code. `Scan`, `Expand`, `Verdict` and
`Workspace` meet at constants: `Workspace` computes the `incomplete` of `Verdict`
and the locked graphs of `Expand`, `Mvs` the build lists of `Expand`.

## 3. What the runs check

| Run | Shows | Bounds |
|---|---|---|
| `verdict` | type and inductive invariant; the stages refine the contract; risk is never softened; the evaluation ends | two packages that are roots, one hook; two findings of every gate class and staleness; a chain, a cycle and a shared hook; three truth assignments; two policies. Two findings suffice for a demoted and an undemoted one on one node, three nodes for a cycle with an entry |
| `fetch` | no result lost, misfiled or read before the join; the semaphore's bound; each coordinate counted once, as what became of it; the refinement; every call returns | two calls (strict and faulty, tolerant), two coordinates, semaphore of one: misses queue, writes interleave, one process crashes mid-write |
| `fetch_replay` | an offline run finds every document an online run answered from, however old; the inductive invariant of the replay | one online and one offline call, two coordinates |
| `expand` | no silent hole; a gap-free walk is complete; facts are kept; links are justified; the inductive invariant | two roots; four worlds (shared packages in a cycle with conflicting constraints, a diamond, resolved subtrees that meet, a whole build list); depth bounds 1, 2 and 3, chosen or not; every subset of absent answers |
| `scan` | every gap counted; pinned gaps gate; honest stores; snapshots replay; answers stand; scans end; the inductive invariant | two scans, three packages of which the bundled dataset knows one as malware, one as vulnerable, one not at all; requests of one package, so that a call of three sends up to three |
| `mvs` | the build list is the minimal one; failed reads are reported; the edges are the requirements between the listed versions, and are met; the resolver ends; the inductive invariant | four modules in three versions, two of which differ in build metadata only; two worlds (a superseded version that requires what its successor does not, a main module required back); a published query and three local files; every subset of failures, every order of reads |
| `drift` | approved surfaces are not reported; new ones are, or a gap is; the temporal claims hold of all that the registries date; unread crates stay counted; the inductive invariant | two days, four sources, five trees of up to five pins over two projects, histories with releases that are not dated, a module without a go.mod, at most two failing requests in a stage |
| `workspace` | links and packages survive; what is open is counted; each directory once, and none left out; nothing claimed is passed over in silence; a clean strict scan saw everything | installations of packages `a`, `b` in two versions and `c` with nearly every choice of links, in nineteen formats; packages from a repository in the ten formats that say so; files that ask for more than they pin; trees of up to seven directories with pruned, unreadable, claimed and unclaimed ones, a mount loop, and a directory with another below it that is mounted at two places, and two projects in directories of one name, scanned in five ways |
| `expand_network`, `scan_promoted`, `workspace_twins`, `workspace_rings` | disagreements, below | the instances of `expand`, `scan` and `workspace` |

The type invariant of a module is a conjunct of its `IInv`, wherever the latter is
what a run checks.

Some bounds are deliberate: `MaxBatch` is 1 in `MCScan` (1000 in the code) so
that a call has several requests; `Limit` is 1 or 2 in the fetch instances (8 or
12 in the code) so that goroutines wait; `Scans` is 2 (a third adds no order of
export, move and import that two do not show); the number of layers is at most 3
(the code's default is larger; 3 exceeds the longest acyclic chain of the
worlds); versions are two in `MCExpand`; `MaxFailures` is 2 in `MCDrift`, so that a
source and one coordinate, or two coordinates, fail together; and the installations
of `MCWorkspace` have one package in two versions, the least that makes a reference
ambiguous. A run of `Workspace` has no interleaving: what it varies is the input,
one initial state each, and which metadata could be fetched.

### Disagreements with the documentation

Four runs check a sentence of the repository that the code does not honour, and
TLC shows how:

* `expand_network`: "a walk bounded by the NETWORK degrades coverage"
  (`cmd/depsnort/main.go`, on `expandTransitive`). A failed version list bounds
  the walk and is not counted.
* `scan_promoted`: "A partial run is never silently promoted to clean"
  (`README.md`). Gaps of the post-expansion call do not degrade coverage.
* `workspace_twins`: "Unresolved is the total count of declared-but-unpinned
  dependencies" (`internal/graph/coverage.go`). Two projects of one ecosystem in
  directories of one name have one root, and `Merge` keeps the first one's count.
* `workspace_rings`: "Orphans is the count of packages reachable from no root"
  (`internal/graph/coverage.go`). Each package of a cycle is the target of an edge,
  so a cycle that is cut off has no orphan in it.

Others were met while reading and have no run of their own. They are written down
so that a change to the code or its comments can be held against them.

* A 404 is no gap online and is never cached, so an offline run counts a gap
  although "a populated cache plus offline mode yields identical verdicts"
  (`internal/datasource/cache.go`). `AnsweredReplays` says what does replay.
* The walk "never re-presumes beneath" an asserted node
  (`internal/expand/asserted.go`), yet a child that already exists as one is put on
  the frontier (`expand.go`); and the local root, which "has no registry
  coordinate", is queried, as roots carry no source class.
* An account is said to be one "who has not published this package before"
  (`internal/check/builtin/vc011_lineage.go`) if "EVERY prior release carries a publisher
  identity" (`internal/datasource/release.go`). A prior release whose time is missing or
  does not parse is in no history (`npmreg.go`, `registry/specs.go`) and `PriorPublishers`
  does not count it, so the account that made it is called new and gates, without a gap.
  `MCDrift` has such a package (`late`); `ClaimsHold` therefore speaks of the releases
  that are dated.
* The warning for "NONE of them was advisory-checked" counts gaps as checks
  (`main.go`, after the post-expansion call).
* `prefetchReleases` attaches histories by name to nodes of every ecosystem
  (`main.go`); packages that only expansion found get none; whether a yank looks
  like a lure is judged by semver order for PyPI as well; build dependencies count
  as introduced if the pinned version's could not be read; NuGet pages whose
  releases are not inlined are left out of the history.
* `enrichCargoBuildRS` examines no procedural macro, and counts a version that
  crates.io does not list as examined.
* The profile of a package none of whose install surface could be read, such as a
  crate without its source, carries no mark, although `internal/profile/profile.go`
  and `cmd/depsnort/baseline.go` say it does; `baseline create` speaks of "exactly
  the pipeline a later scan uses" and leaves out the stages that fetch more.
* `incompleteResolution` drops the failed read of another version of the root's own
  module (`gomod/resolver.go`).
* Adapters: a list in setup.py is cut at its first `]`; an entry of a Pipfile.lock
  without a version is dropped; an MSBuild file that does not parse claims nothing,
  and the properties of one project file hold for the others of its directory; `Merge`
  keeps what the first project says of a package, so that an origin in a repository is
  lost where the ecosystem's identities do not carry one (pip, Composer, Bundler); npm's
  first layout and pdm.lock record no origin, so a fork passes for the registry's
  package; names left open by pnpm-lock.yaml are listed without a count; bun.lock is
  read by name, the last of several versions winning; range dependencies of
  project.assets.json are dropped.
* A directory that cannot be read is skipped, although a comment in `main.go` says
  that `-fail-on-incomplete` covers it; a pom.xml beside a claimed manifest is not
  disclosed; without recursion only what adapters claim below is.
* "A real source dir of the same name OUTSIDE a build tree is untouched"
  (`cmd/depsnort/discover.go`, on names such as `classes` and `resources`), unless its
  parent is mounted below `build/` as well and the walk meets it there first: what has
  such a name is pruned there, and at its own path the parent is not entered again.

### Fairness

`Verdict` and `Scan` assume weak fairness of the step of the running evaluation
or scan: the code is sequential and each of its requests has a time limit
(`http.Client{Timeout: 20 * time.Second}` in `osv.go`), so nothing holds a
started stage up for ever. Actions of the environment between scans have none.
`Mvs` assumes it of the resolver, which is sequential and whose requests are
time-limited too. `Fetch` assumes weak fairness of each goroutine and of each call's serial part:
the Go scheduler runs what is runnable, and every request has a time limit. A
crashed process is owed nothing. `Expand` states no liveness property; its loop
is bounded by the depth. `Drift` and `Workspace` are sequences of stages without a
loop whose end could be in doubt, and state none either.

## 4. What is proved

TLAPS checks every proof in the eight `...Proofs` modules. The theorems hold for
every value of the constants that satisfies the named assumptions, which TLC
evaluates on every run:

* `VerdictAssumption`, `ExpandAssumption`, `OrderAssumption`, `ScanAssumption`,
  `FetchAssumption`, `MvsAssumption`: finiteness, types, and that versions are
  totally ordered (up to those that compare equal, in Go).
* `SentinelAssumption`: "no entry" and "no result" are neither an entry nor a
  result, as `nil` is neither.
* `DriftAssumption`: the identity of a node, its package URL, determines its
  ecosystem and name (`internal/graph/graph.go`, `NodeID`), and one tree resolves it
  to one node; a registry lists each version once; a version is not the name of a
  build dependency. Histories and trees are finite.
* `WorkspaceAssumption`: names have an alphabetical order; a tree is finite (below a
  mount loop it is cut off) and has with a directory those it lies in; every file that
  is claimed is claimed by an adapter of the registry; and the operating system shows a
  mounted directory at each of its places with the same files, the same permission and
  the same directories in it. Files are finite and otherwise what a parser of the format
  can leave (`NpmFile`, `PypiFile`, `OtherFile`): references may lead nowhere, names and
  versions may be missing, and keys may be those of another package; only a Cargo.lock
  names the version of its first package, without which it is not read.

| Theorem | States |
|---|---|
| `VerdictProofs!TypeCorrect`, `Invariance` | types; the inductive invariant of the evaluation |
| `VerdictProofs!Implementation` | the staged evaluation implements `VerdictContract` |
| `VerdictProofs!NeverSoftened` | from the overlay on, no risk is lowered |
| `FetchProofs!TypeCorrect`, `Invariance` | types and counter bounds; the semaphore, the join, honest answers and entries, no result lost |
| `FetchProofs!CountedByFate` | counters, answers and errors are at every moment those of the fates met, each coordinate counted once |
| `FetchProofs!Implementation` | the goroutines, the fold and the cache implement `FetchContract` |
| `FetchProofs!ReplayInvariance`, `Replayed` | what an online call answered is in its file, and every later offline call finds it |
| `ExpandProofs!TypeCorrect`, `Invariance` | types; the inductive invariant of the walk |
| `ExpandProofs!NoHole` | each package with a coordinate that a root reaches was read, closed by a resolver, or marked |
| `ExpandProofs!CleanWalk` | a walk without a gap knows the dependencies of all it could have asked about |
| `ExpandProofs!JustifiedLinks` | an edge leads into the root's own subtree, to a node without a version, or to a version all declarations admit |
| `ExpandProofs!KeepsWhatItFound` | no step takes a fact back |
| `ScanProofs!TypeCorrect`, `Invariance` | types; the inductive invariant of the advisory tier |
| `ScanProofs!GapsAreCounted`, `CleanIsChecked`, `HonestStores`, `SnapshotsReplay`, `AnswersKept` | the safety properties of `Scan` |
| `MvsProofs!Invariance` | the inductive invariant of a resolution |
| `MvsProofs!MinimalBuildList` | the build list is the minimal one, in every order of reads and under every set of failures |
| `MvsProofs!ReportedUnread`, `MetEdges` | exactly the unread modules are reported; the edges are the requirements between the listed versions, no more and no less; the root's, and in an unpruned list all of them, are met |
| `DriftProofs!TypeCorrect`, `Invariance` | types; the inductive invariant of baselines and scans |
| `DriftProofs!ApprovedIsNotReported`, `DriftIsReported` | drift that is reported is drift from what was approved; drift is reported, or is said not to be comparable |
| `DriftProofs!UnansweredIsCounted` | crates no fetch answered for stay counted |
| `DriftProofs!ClaimsAreTrue` | what the temporal checks gate on is true of all releases that the registry dates, or a gap says it was read in part; of the others it need not be (section 3) |
| `WorkspaceProofs!NoneTwice` | no directory is resolved twice for one ecosystem or disclosed twice, however mounts fold the tree |
| `WorkspaceProofs!AllResolved` | a recursive scan resolves or discloses every directory that can be seen without a pruned name, under one of its paths, unless a mount leads into a build tree |
| `WorkspaceProofs!GraphIsWhole` | whatever the files hold and whatever fails, the merged graph is whole: edges join nodes, or lead to a member of an npm workspace; what has nodes has a root; no count is negative |
| `WorkspaceProofs!AllAccounted` | all that is claimed is in the merged graph with its links or among the failures counted, each once; what is to be disclosed counts as unresolved; a clean exit of a strict scan says there is neither; no directory that can be seen is passed over |

The arguments:

* **Verdict.** The implementation theorem needs to know at each stage what the
  earlier ones have made of the findings; `IInv` says so stage by stage. For the
  propagation it says that the visited set is closed under the edges already
  traversed and that the current package's risk is the worst over what has been
  visited. A finished traversal has therefore visited exactly what is reachable.
* **Fetch.** `IInv` ties the number of held slots to the goroutines that fetch,
  each slot to its own coordinate, and what the fold has answered to the
  coordinates it has passed. The type invariant alone does not exclude a result
  read before the join. For the refinement, a call that returns must answer as the
  contract does to *some* assignment of fates; the proof carries one along. At every
  moment there are fates, `pending` for what the call has still to meet, to which the
  counters, the answers and the errors in hand are the contract's answer. A step that
  meets a coordinate moves one fate from `pending` to what the step found, which
  changes one cardinality by one (`FateMet`); every other step leaves the fates alone
  (`FateKept`). When nothing is pending the call's reply is the contract's
  (`ReplyIsAnswer`; the first error in the code's order is the least coordinate with
  one, `FirstErrorIs`), and that step maps to `Return`, all others to a stutter.
* **Replay.** An online call answers before its file is whole, so `Keeps` says that
  the file it is writing is as it left it and that every other answer is in its file;
  this needs the cache directory to be its own (`Alone`), or another process's torn
  write could follow. A finished call writes no more, and `Finds` follows an offline
  call over the files.
* **Expand.** `TypeOK` is inductive with the help of lemmas on reachability (what
  a step adds never shrinks a reachable set) and on what a resolver's answer may
  contain. `NoSilentHole` speaks only of finished scans; `IInv` accounts for every
  package at all times: one with a coordinate that a root reaches is below a root
  still to be walked, on the frontier, in the layer being read, finished, closed or
  marked (`NothingLost`), what a walk has expanded is finished with, what a resolver
  added is in a subtree it stated, and a marked version is counted. With
  the frontier and the queue empty, the last three remain. `CleanWalk` then needs only
  that no mark is there when the counters say so. `FactsKept` and `LinksJustified`
  are action properties and follow step by step.
* **Scan.** The counts are cardinalities, so `Counted` says of each moment of a
  call that the gap counter is the number of asked, no longer missing and
  uncovered packages; `Phased` says which packages have been asked about at each
  stage, and makes the sets of the two calls disjoint, which is why their counts
  add up. `Honest` strengthens the claim about the stores with one about the call
  under way: while it has not failed and is not offline, each of its answers is
  one OSV gave, hence it may be exported. `Bootstrapped` says that a package the
  snapshot records is never missing from the cache during a scan that imported it.
* **Mvs.** The minimal build list is defined by least closed sets and the code
  computes it with a worklist, so the invariant squeezes the one between two bounds:
  all that was selected or is on the worklist counts (`NothingElseCounts`: it lies in
  every closed set), and what was taken off it has its requirements selected at least
  as high or still waiting (`EverythingCovered`). When the worklist is empty, what was
  seen is itself closed, hence the least. Reads and failures enter only through what a
  read returned, so their order and number do not matter. The flattening and the
  report are functions of that list and of what went unread.
* **Drift.** `Underway` says what a job has in hand at each stage, `Filed` that a
  baseline holds profiles of nodes that some tree had, `HistoriesAreFull` that a
  history is empty, shared with another ecosystem's package of that name, the
  registry's record of its day (the releases it dates), or one whose source counts a gap, `LuresAreNew` that
  what enrichment adds is not declared by the pinned version, and `Standing` that what
  a scan leaves is what it judged. The claims of
  the temporal checks quantify over the releases that the registry dates; the checks sort
  them by date, and the proof shows that a finite history has such an order. The count of
  unread crates is compared with a union over projects through cardinalities.
* **Workspace.** Paths stand in a strict linear order (`PathsAreLinear`), in which each
  place is taken once and by each path (`PlacesTaken`, `AllTaken`). The walk is a function
  defined step by step over that order; its existence is proved first (`WalkedIsPassed`).
  That the directories entered so far have different identities is inductive
  (`WalkedIsApart`), and so are the lists of projects, of which those to resolve are
  always an end part. That none is left out is an induction on a path that can be seen:
  where some path to the directory above was entered, the next name is there too and not
  pruned, and when the walk comes to it, later than to the directory above
  (`AboveIsBefore`), it enters it or has met it elsewhere (`WalkMeets`). "Not pruned"
  needs the hypothesis `BuildsStayApart`, that no mount crosses the border of a build
  tree: without it the code does leave directories out (see above).

  That the graph is whole (`Whole`) is a matter of each of twenty readers. `LockProofs` has a
  lemma per reader that what it returns is whole, and all but the one of npm's packages
  say `Firm`, with no edge that leads nowhere. Merging, renaming, attaching and
  reconstruction keep it. `Reconstructed` folds over the flat projects in any order;
  `InTurn` says the same of a function on their subsets. `Ready` adds to `Whole` that what
  is still to be resolved can be: a claim has a file some adapter reads, a disclosure a
  finite list of what was not read.

  That nothing is passed over in silence (`NothingUnaccounted`) is a claim about the end,
  and `Account` says at every moment where each thing is: what an adapter claims is still
  to come (`Coming`), has failed, or is in the graph already (`Within`), and `failures`
  is the number of failing claims that are no longer to come, so that none is counted
  twice. This rests on the list, which holds each directory that is claimed and a note
  where one is due (`DeepCovers`, `ShallowCovers`). A merge keeps what was there and
  brings what is new, though not its count (`MergeKeeps`; see `workspace_twins`), and a
  reconstruction moves only edges from Python roots (`Kept`). A note has a count above
  zero and a graph that an adapter read has no node that passes for a note (`Tame`, a
  lemma per reader), so a project merged first cannot take a note's count away
  (`NotesCount`). `Unresolved` is a sum over the nodes, which are finitely many; that it
  is at least each of them is proved on a function from the subsets of its domain
  (`Sums`, `SumsCover`, `OpenIsTotalled`), by which one note suffices to make it positive.

Only model-checked: liveness (`Terminates`, `Returns`, `ScansEnd`, `Resolves`),
which rests on fairness and ENABLED and is outside the prover; and of `Workspace`
`LinksReadBack`, `LockedIsReached`, `DeclaredIsCounted` and `CleanSawEverything`, which
compare the adapters with `Managers`, that is with sets of installations whose formats are
not this repository's, so that a proof would be about those formats as much as about the
code. No module has a RECURSIVE operator, and
reachability is defined by closed sets.

Induction over data is outside the prover in general, because the library's induction
theorems take an operator as a parameter. Three arguments need one all the same, for one
formula each (the first error of a fold, an order of a finite history, `AllCounted` for
walks and paths): they take a minimal counterexample in a well-founded order, which the library states without an
operator parameter.

## 5. What is not modelled, and why

* Install-surface extraction (`internal/installsurface` and the per-ecosystem
  `installsurface.go`): the matching of patterns in the text of one file. It has no
  state, and a model of it would be the patterns again. Its result is a constant of
  `Drift` and a hook of `Verdict`.
* The text of documents: lockfile grammars, markers, version strings, package URLs.
  The lock modules start from what a parser has made of the text. A document that
  does not parse but is taken for one without dependencies is a hazard recorded in
  `PROJECT.json` that no module reaches.
* The checks other than VC-001, VC-004, VC-010, VC-011, VC-012 and the burst check,
  and the emitters: functions of a finished graph and report.
* EPSS, IOC and deps.dev, SBOM input, aliases of advisories and CVSS arithmetic:
  annotations that no exit code depends on, or constants of the stages modelled.
* Within `Expand`: optional declarations, depths of nodes, informational attributes
  and a second ecosystem in one walk. Within `Scan`: the `-no-osv` and
  `-no-osv-bundled` switches (an empty bundle is the latter), and advisories of a
  coordinate beyond the worst one. Within `Drift`: what only shows in a finding's
  text, such as publishers and topology in a profile. Within the lock modules:
  platform filters, section labels and depths.
* One specification of all stages together. The stages run one after the other and
  meet in the graph and the coverage record; each module takes over what the one
  before it may leave, and a product of them would only multiply their states.

## 6. The plan

Done: the verdict, the shared fetch with its refinement and replay, the expansion
walk, the advisory tier, the Go resolver, baseline and drift with the temporal
checks, and the workspace with its adapters. Every safety property a run checks of
the first six is a theorem, and so is what the walk of the workspace promises, that
every reader, and all that is done to what it returns, leaves a whole graph, and that
nothing an adapter claims is passed over in silence.

Next, in this order:

1. `Workspace`: `Managers` with workspace members of npm and the question whether they
   are told from packages. `npm.go` (269-274) draws an edge to the identity of a hoisted
   entry without asking whether that entry became a node, so that a dependency on a member,
   a link entry without a version, is an edge to no node (`Dangles`). The graph is whole
   but for these, and one world of `MCWorkspace` has one.
2. `Ranges`: version orders and range operators of one or two ecosystems as
   functions, checked against reference definitions over bounded versions;
   totality of the order discharges `OrderAssumption`.
