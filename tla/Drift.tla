-------------------------------- MODULE Drift --------------------------------
(***************************************************************************)
(* `baseline create` and `scan -baseline` over time (cmd/depsnort/         *)
(* baseline.go, main.go, internal/baseline, internal/profile, VC-010).     *)
(* Both resolve the same tree and read the registries' histories; a scan   *)
(* also enriches withdrawn pins and fetches the build scripts of crates    *)
(* whose source is not on disk.  Between the jobs packages are released    *)
(* and withdrawn, and the tree is edited.                                  *)
(*                                                                         *)
(* A tree is a set of pins: a node, the project that pins it, and whether  *)
(* the node's source lies on disk there.  Projects that pin one node share *)
(* it in the graph.  What only shows in a finding's text is left out: the  *)
(* publisher and topology parts of a profile, and the severities.          *)
(***************************************************************************)
EXTENDS Weather

CONSTANTS
    Calendar,      \* the days on which something may run
    Sources,       \* registrySources: the ecosystems, in order
    Timeline,      \* every release there will be, per <<eco, name>>
    ModFile,       \* the go.mod of a Go version, where the proxy has one
    BuildDeps,     \* the build dependencies of a crate's version
    Hostile,       \* packages whose own install hook is hostile
    Hook,          \* what an install surface consists of: hooks,
    Dangerous,     \* capabilities whose arrival may gate, and sinks,
    Harmless,      \* and the rest
    Bump,          \* how far two versions are apart
    Tree,
    MaxFailures    \* failing requests per stage

Item == Hook \cup Dangerous \cup Harmless

Node == [id: STRING, eco: STRING, name: STRING, ver: Version, root: BOOLEAN,
         listed: BOOLEAN,          \* crates.io lists this version of this name
         build: SUBSET Item,       \* what its build script or install hook shows
         macro: SUBSET Item,       \* what its procedural macro shows
         partial: BOOLEAN]         \* a hook of it names a file that cannot be read

\* A release: when it appeared and by whose hand, whether the registry gives that time
\* and records that hand, and from when it is withdrawn.
Published == [ver: Version, at: Nat, dated: BOOLEAN, author: Account, recorded: BOOLEAN, withdrawn: Nat]

\* A node's identity is its package URL, which holds the ecosystem and the name; a
\* registry lists each version once; versions are no names of packages.
ASSUME DriftAssumption ==
    /\ Rank \in [Version -> Nat] /\ NoAccount \notin Account
    /\ Calendar \subseteq Nat /\ IsFiniteSet(Calendar)
    /\ \A T \in Tree : IsFiniteSet(T) /\ \A p \in T : p.node \in Node /\ p.onDisk \in BOOLEAN
    /\ \A T \in Tree : \A p, q \in T : p.node.id = q.node.id => p.node = q.node
    /\ \A S, T \in Tree : \A p \in S, q \in T :
          p.node.id = q.node.id => p.node.eco = q.node.eco /\ p.node.name = q.node.name
    /\ \A p \in DOMAIN Timeline :
          /\ Timeline[p] \subseteq Published /\ IsFiniteSet(Timeline[p])
          /\ \A r, q \in Timeline[p] : r.ver = q.ver => r = q
    /\ \A c \in DOMAIN BuildDeps : BuildDeps[c] \cap Version = {}
    /\ MaxFailures \in Nat

VARIABLES
    today, tree,
    file,        \* the baseline: its profiles, or {} before the first
    job,         \* "create", "scan" or "none": the job under way, or just done
    stage,       \* "idle", "sources", "lure", "scripts" or "judge"
    left,        \* the sources still to ask
    releases,    \* the history of each node
    surface,     \* the install surface of each node
    unread,      \* the source-unavailable gaps: <<project, node>>
    count,       \* and their number
    fetched,     \* what the build-script fetch found of each node
    extra,       \* what the lure enrichment recorded on each node
    gaps,        \* the data sources with a gap
    findings

environment == <<today, tree>>
vars == <<environment, file, job, stage, left, releases, surface, unread, count, fetched, extra, gaps, findings>>

Nodes(T) == {p.node : p \in T}
Ids(T)   == {n.id : n \in Nodes(T)}
NodeOf(id) == CHOOSE n \in Nodes(tree) : n.id = id

Init ==
    /\ today \in Calendar /\ tree \in Tree
    /\ file = {} /\ job = "none" /\ stage = "idle" /\ left = <<>>
    /\ releases = <<>> /\ surface = <<>>
    /\ unread = {} /\ count = 0 /\ fetched = <<>> /\ extra = <<>>
    /\ gaps = {} /\ findings = {}

-----------------------------------------------------------------------------
(***************************************************************************)
(* Between the jobs.                                                       *)
(***************************************************************************)
Forget ==
    /\ job' = "none"
    /\ releases' = <<>> /\ surface' = <<>>
    /\ unread' = {} /\ count' = 0 /\ fetched' = <<>> /\ extra' = <<>>
    /\ gaps' = {} /\ findings' = {}
    /\ UNCHANGED <<file, stage, left>>

Wait ==
    /\ stage = "idle" /\ today' \in {d \in Calendar : d > today}
    /\ Forget /\ UNCHANGED tree

Edit ==
    /\ stage = "idle" /\ tree' \in Tree \ {tree}
    /\ Forget /\ UNCHANGED today

-----------------------------------------------------------------------------
(***************************************************************************)
(* resolveProjects: what lies on disk is read, and a crate whose source    *)
(* does not is a gap of each project that pins it.                         *)
(***************************************************************************)
ReadFrom(n) == IF \E p \in tree : p.node = n /\ p.onDisk THEN n.build \cup n.macro ELSE {}

Unavailable == {<<p.project, p.node.id>> : p \in {q \in tree : ~q.onDisk /\ q.node.eco = "cargo"}}

Start(kind) ==
    /\ stage = "idle" /\ stage' = "sources"
    /\ job' = kind
    /\ left' = Sources
    /\ releases' = [id \in Ids(tree) |-> <<>>]
    /\ surface' = [id \in Ids(tree) |-> ReadFrom(NodeOf(id))]
    /\ unread' = Unavailable
    /\ count' = Cardinality(Unavailable)
    /\ fetched' = [id \in Ids(tree) |-> "unasked"]
    /\ extra' = [id \in Ids(tree) |-> {}]
    /\ gaps' = {} /\ findings' = {}
    /\ UNCHANGED <<environment, file>>

StartCreate == Start("create")
StartScan   == file # {} /\ Start("scan")

-----------------------------------------------------------------------------
(***************************************************************************)
(* prefetchReleases                                                        *)
(***************************************************************************)
Visible(p) == IF p \in DOMAIN Timeline THEN {r \in Timeline[p] : r.at <= today} ELSE {}

\* crates.io and PyPI record withdrawals,
YankedIn(p, r) == p[1] \in {"cargo", "pypi"} /\ r.withdrawn <= today

\* and npm and crates.io publishers, though not of every release.
PublisherIn(p, r) == IF p[1] \in {"npm", "cargo"} /\ r.recorded THEN r.author ELSE NoAccount

\* A release whose time the registry does not give, or not in a form that parses, is
\* left out, and nothing counts it.  So is one without files or delisted, and of a Go
\* version it is the answer 404 or 410 that leaves it out.
Dated(p) == {r \in Visible(p) : r.dated}

\* A registry's document, parsed.
Document(p) ==
    {[ver |-> r.ver, at |-> r.at, yanked |-> YankedIn(p, r), publisher |-> PublisherIn(p, r)] : r \in Dated(p)}

\* The module proxy: the version list, the go.mod of the highest version, and one
\* request for the date of each version.  A go.mod that the proxy does not have
\* retracts nothing, and is no gap.
Versions(p) == {r.ver : r \in Visible(p)}

ModRequest(p) == {<<p, "mod", v>> : v \in Highest(Versions(p), Versions(p))}

GoDocument(p, failed) ==
    LET files == {<<p[2], q[3]>> : q \in ModRequest(p) \ failed} \cap DOMAIN ModFile
        specs == UNION {Retractions(ModFile[c]) : c \in files}
        dated == {r \in Dated(p) : <<p, "info", r.ver>> \notin failed}
    IN  {[ver |-> r.ver, at |-> r.at, yanked |-> IsRetracted(r.ver, specs, Versions(p)),
          publisher |-> NoAccount] : r \in dated}

Requests(p) ==
    IF p[1] # "gomod" THEN {<<p, "document">>}
    ELSE {<<p, "list">>} \cup ModRequest(p) \cup {<<p, "info", v>> : v \in Versions(p)}

\* What one source answers: a history per name it knows, those aside whose first
\* request failed.
Answered(P, failed) ==
    {p \in P : Visible(p) # {} /\ <<p, "document">> \notin failed /\ <<p, "list">> \notin failed}

Histories(P, failed) ==
    LET of(p) == IF p[1] = "gomod" THEN GoDocument(p, failed) ELSE Document(p)
        got   == Answered(P, failed)
    IN  {f \in [got -> UNION {Sorted(of(p)) : p \in got}] : \A p \in got : f[p] \in Sorted(of(p))}

Failures(R) == {F \in SUBSET R : Cardinality(F) <= MaxFailures}

\* The answers are filed by name alone, a later source's over an earlier one's.
Prefetch ==
    LET eco == Head(left)
        P   == {<<eco, n.name>> : n \in {m \in Nodes(tree) : m.eco = eco /\ ~m.root}}
    IN  /\ stage = "sources" /\ left # <<>>
        /\ left' = Tail(left)
        /\ stage' = IF Len(left) > 1 THEN stage ELSE IF job = "scan" THEN "lure" ELSE "judge"
        /\ \E failed \in Failures(UNION {Requests(p) : p \in P}) :
              /\ \E byName \in Histories(P, failed) :
                    releases' = [id \in DOMAIN releases |->
                                    IF <<eco, NodeOf(id).name>> \in DOMAIN byName /\ ~NodeOf(id).root
                                    THEN byName[<<eco, NodeOf(id).name>>] ELSE releases[id]]
              /\ gaps' = gaps \cup (IF failed = {} THEN {} ELSE {eco})
        /\ UNCHANGED <<environment, file, job, surface, unread, count, fetched, extra, findings>>

-----------------------------------------------------------------------------
(***************************************************************************)
(* enrichYankLure: of a crate, the build dependencies that the live newest *)
(* version declares and the pinned one does not, and which of them is      *)
(* hostile; of a PyPI package, whether the newest itself is.  Declarations *)
(* that could not be read count as none.                                   *)
(***************************************************************************)
Lured == {n \in Nodes(tree) : /\ n.eco \in {"cargo", "pypi"} /\ Flagged(n, releases[n.id])
                              /\ Lures(releases[n.id]) # {}}

Dependency(n) == UNION {BuildDeps[c] : c \in {d \in DOMAIN BuildDeps : d[1] = n.name}}

LureRequests(n) ==
    LET newest == Lures(releases[n.id])
    IN  IF n.eco = "cargo" THEN {<<n.name, "deps", v>> : v \in newest \cup {n.ver}}
        ELSE {<<n.name, "sdist", v>> : v \in newest}

Declared(n, v, failed) == IF <<n.name, "deps", v>> \in failed THEN {} ELSE BuildDeps[<<n.name, v>>]

Extra(n, failed) ==
    LET newest == Lures(releases[n.id])
    IN  IF n.eco = "cargo" THEN (UNION {Declared(n, v, failed) : v \in newest}) \ Declared(n, n.ver, failed)
        ELSE {n.name : v \in {u \in newest : n.name \in Hostile /\ <<n.name, "sdist", u>> \notin failed}}

EnrichLure ==
    /\ stage = "lure" /\ stage' = "scripts"
    /\ \E failed \in Failures(UNION {LureRequests(n) : n \in Lured}) :
          /\ extra' = [id \in DOMAIN extra |->
                          IF NodeOf(id) \in Lured THEN Extra(NodeOf(id), failed) ELSE {}]
          /\ gaps' = gaps \cup (IF failed = {} THEN {} ELSE {"yanklure"})
    /\ UNCHANGED <<environment, file, job, left, releases, surface, unread, count, fetched, findings>>

-----------------------------------------------------------------------------
(***************************************************************************)
(* enrichCargoBuildRS, and the gaps it clears.                             *)
(***************************************************************************)
Wanted == {n \in Nodes(tree) : n.id \in {u[2] : u \in unread}}

\* BuildRSAt: a version that crates.io does not list has no build script either.
FetchScript(n, failed) ==
    IF n.id \in failed THEN "failed"
    ELSE IF n.listed /\ n.build # {} THEN "found" ELSE "none"

\* A fault: a crate whose fetch failed counts as examined.
ExaminedIfAsked(f) == {id \in DOMAIN f : f[id] # "unasked"}

Examined(f) == {id \in DOMAIN f : f[id] \in {"found", "none"}}

\* A fault: the count goes down for a failed fetch too.
ClearedAsked(f) ==
    LET n == Cardinality({id \in DOMAIN f : f[id] # "unasked"}) IN IF n > count THEN 0 ELSE count - n

\* The count goes down once per examined crate; its details all go.
Cleared(f) == IF Cardinality(Examined(f)) > count THEN 0 ELSE count - Cardinality(Examined(f))

FetchScripts ==
    /\ stage = "scripts" /\ stage' = "judge"
    /\ \E failed \in Failures({n.id : n \in Wanted}) :
          LET f == [id \in DOMAIN fetched |->
                       IF NodeOf(id) \in Wanted THEN FetchScript(NodeOf(id), failed) ELSE "unasked"]
          IN  /\ fetched' = f
              /\ surface' = [id \in DOMAIN surface |->
                                IF f[id] = "found" THEN surface[id] \cup NodeOf(id).build ELSE surface[id]]
              /\ count' = Cleared(f)
              /\ unread' = {u \in unread : u[2] \notin Examined(f)}
              /\ gaps' = gaps \cup (IF failed = {} THEN {} ELSE {"cargo-source"})
    /\ UNCHANGED <<environment, file, job, left, releases, extra, findings>>

-----------------------------------------------------------------------------
(***************************************************************************)
(* The baseline and VC-010.                                                *)
(***************************************************************************)
\* FromGraph: a profile is a lower bound when a hook in the graph names a file that
\* was not read.
Profile(n) == [id |-> n.id, eco |-> n.eco, name |-> n.name, ver |-> n.ver, items |-> surface[n.id],
               lowerBound |-> n.partial /\ surface[n.id] \cap Hook # {}]

\* Write, and what Load and Index give back: a profile per node, by name.
Write ==
    /\ stage = "judge" /\ job = "create" /\ stage' = "idle"
    /\ file' = {Profile(n) : n \in Nodes(tree)}
    /\ UNCHANGED <<environment, job, left, releases, surface, unread, count, fetched, extra, gaps, findings>>

Approved(n) == {p \in file : p.eco = n.eco /\ p.name = n.name}

\* A fault: the version decides before the identity does.
LookupByVersion(n) ==
    LET sameVersion == {p \in Approved(n) : p.ver = n.ver}
    IN  IF Cardinality(Approved(n)) = 1 THEN Approved(n)
        ELSE IF sameVersion # {} THEN {CHOOSE p \in sameVersion : p.id # n.id \/ sameVersion = {p}} ELSE {}

\* Lookup: the node's own profile; else the only one of its name; else the only
\* one of its version.
Lookup(n) ==
    LET own         == {p \in Approved(n) : p.id = n.id}
        sameVersion == {p \in Approved(n) : p.ver = n.ver}
    IN  IF own # {} THEN own
        ELSE IF Cardinality(Approved(n)) = 1 THEN Approved(n)
        ELSE IF Cardinality(sameVersion) = 1 THEN sameVersion ELSE {}

\* weighDrift: a major release may grow, and a host or a plain capability is no
\* ground to gate on.
DriftGates(base, n, added) ==
    Bump[<<base.ver, n.ver>>] # "major" /\ added \cap (Hook \cup Dangerous) # {}

DriftOf(n) ==
    IF Approved(n) = {} THEN {}
    ELSE IF Lookup(n) = {} THEN {Finding("VC-010-ambiguous", n, FALSE, {})}
    ELSE {Finding("VC-010", n, DriftGates(p, n, surface[n.id] \ p.items), surface[n.id] \ p.items) :
             p \in {q \in Lookup(n) : surface[n.id] \ q.items # {}}}

\* A fault: profiles of one version are taken for one.
AmbiguousVersions == {p \in file : \E q \in file : q.ver # p.ver /\ q.eco = p.eco /\ q.name = p.name}

\* AmbiguousKeys
Ambiguous == {p \in file : \E q \in file : q # p /\ q.eco = p.eco /\ q.name = p.name}

WeatherOf(n) ==
    LET h      == releases[n.id]
        hooked == surface[n.id] \cap Hook # {}
    IN  Dormancy(n, h, hooked, today) \cup Burst(n, h, hooked, today)
          \cup Lineage(n, h, hooked, today) \cup YankLure(n, h, extra[n.id])

Judge ==
    /\ stage = "judge" /\ job = "scan" /\ stage' = "idle"
    /\ findings' = UNION {WeatherOf(n) \cup DriftOf(n) : n \in Nodes(tree)}
    /\ gaps' = gaps \cup (IF Ambiguous = {} THEN {} ELSE {"baseline"})
    /\ UNCHANGED <<environment, file, job, left, releases, surface, unread, count, fetched, extra>>

Next ==
    \/ Wait \/ Edit
    \/ StartCreate \/ StartScan
    \/ Prefetch
    \/ EnrichLure \/ FetchScripts \/ Write \/ Judge

Spec == Init /\ [][Next]_vars

-----------------------------------------------------------------------------
Judged == stage = "idle" /\ job = "scan"

TypeOK ==
    /\ today \in Calendar /\ tree \in Tree
    /\ job \in {"none", "create", "scan"}
    /\ stage \in {"idle", "sources", "lure", "scripts", "judge"}
    /\ \A p \in file : p.items \subseteq Item
    /\ stage # "idle" => DOMAIN releases = Ids(tree) /\ DOMAIN surface = Ids(tree)
    /\ \A id \in DOMAIN releases : releases[id] \in Seq(Release)
    /\ \A id \in DOMAIN surface : surface[id] \subseteq Item
    /\ unread \subseteq Unavailable /\ count \in Nat /\ Cardinality(unread) <= count
    /\ \A f \in findings : f.node \in Ids(tree) /\ f.gates \in BOOLEAN

\* What VC-010 reports of an approved package is what its own approved profile
\* lacks, whatever else of that name was approved; of any other package, what
\* some approved profile of the name lacks (Lookup, Diff).
NothingApprovedIsNew ==
    Judged => \A f \in {g \in findings : g.check = "VC-010"} :
        LET n   == NodeOf(f.node)
            own == {p \in file : p.id = n.id}
        IN  \E p \in (IF own # {} THEN own ELSE Approved(n)) : f.claim = surface[n.id] \ p.items

\* A package that shows more than anything approved of its name is reported, or
\* reported as not comparable and named as a gap of the scan.
DriftIsJudged ==
    Judged => \A n \in Nodes(tree) :
        Approved(n) # {} /\ (\A p \in Approved(n) : ~(surface[n.id] \subseteq p.items)) =>
            \E f \in findings :
                /\ f.node = n.id
                /\ \/ f.check = "VC-010"
                   \/ f.check = "VC-010-ambiguous" /\ "baseline" \in gaps

\* A package whose name another ecosystem uses too is left out: prefetchReleases files
\* histories by name alone, so it may bear the other's.
Shared(n) == \E m \in Nodes(tree) : m.name = n.name /\ m.eco # n.eco

SilentBetween(R, claim) ==
    \E r, q \in R :
        /\ claim = {r.ver, q.ver} /\ q.at - r.at >= DormantAfter
        /\ \A o \in R : ~(r.at < o.at /\ o.at < q.at)

NewAmong(R, ver, account) ==
    \A r \in R : r.ver = ver => \A q \in R : q.at < r.at => q.author # account

\* What gates, or is claimed, of a package's releases holds of all those that the
\* registry dates, by whose hand they really came, whatever was recorded or could be
\* read, or the source that could not be read in full is a gap of the scan.  It need
\* not hold of those that are not dated: PriorPublishers does not count them, so an
\* account that published one may be called new.
ClaimsHold ==
    Judged => \A f \in findings :
        LET n == NodeOf(f.node)
            R == Dated(<<n.eco, n.name>>)
            V == {r.ver : r \in R}
        IN  ~Shared(n) =>
              /\ f.check = "VC-004" => SilentBetween(R, f.claim) \/ n.eco \in gaps
              /\ f.check = "VC-011" /\ f.gates => \A account \in f.claim : NewAmong(R, n.ver, account)
              /\ f.check = "VC-012" /\ f.gates =>
                    /\ Highest(V, V) \cap f.claim # {} \/ n.eco \in gaps
                    /\ n.eco = "cargo" => \A d \in f.claim \cap Dependency(n) :
                          d \notin BuildDeps[<<n.name, n.ver>>] \/ "yanklure" \in gaps

\* A crate that no fetch answered for stays counted, and listed for each project
\* that pins it (cmdScan's clearing of the resolved gaps).
UnansweredStaysCounted ==
    Judged =>
        LET lost == {u \in Unavailable : fetched[u[2]] \notin {"found", "none"}}
        IN  lost \subseteq unread /\ Cardinality(lost) <= count

-----------------------------------------------------------------------------
\* What a job has in hand: an entry per node, and the gaps that no fetch answered.
Underway ==
    /\ stage # "idle" => job # "none"
    /\ job # "none" => /\ DOMAIN releases = Ids(tree) /\ DOMAIN surface = Ids(tree)
                       /\ DOMAIN fetched = Ids(tree) /\ DOMAIN extra = Ids(tree)
                       /\ {u \in Unavailable : fetched[u[2]] \notin {"found", "none"}} \subseteq unread
    /\ stage \in {"sources", "lure", "scripts"} => unread = Unavailable

\* The approved profiles are those of nodes that some tree had.
Filed == \A p \in file : \E T \in Tree : \E n \in Nodes(T) :
            p.id = n.id /\ p.eco = n.eco /\ p.name = n.name

\* A history is all that the registry dates, or else the module proxy's with a gap,
\* which names no publisher.
FullRecord(p) == IF p[1] = "gomod" THEN GoDocument(p, {}) ELSE Document(p)

HistoriesAreFull ==
    job # "none" => \A n \in Nodes(tree) :
        \/ releases[n.id] = <<>> \/ Shared(n)
        \/ releases[n.id] \in Sorted(FullRecord(<<n.eco, n.name>>))
        \/ /\ n.eco = "gomod" /\ "gomod" \in gaps
           /\ \A i \in DOMAIN releases[n.id] : releases[n.id][i].publisher = NoAccount

\* What the lure adds, the pinned version does not declare.
LuresAreNew ==
    job # "none" => \A n \in Nodes(tree) : n.eco = "cargo" =>
        "yanklure" \in gaps \/ extra[n.id] \cap BuildDeps[<<n.name, n.ver>>] = {}

\* What a scan leaves is what it judged.
Standing ==
    Judged => /\ findings = UNION {WeatherOf(n) \cup DriftOf(n) : n \in Nodes(tree)}
              /\ Ambiguous # {} => "baseline" \in gaps

\* The inductive invariant of baselines and scans.
IInv == TypeOK /\ Underway /\ Filed /\ HistoriesAreFull /\ LuresAreNew /\ Standing

=============================================================================
