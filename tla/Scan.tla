-------------------------------- MODULE Scan --------------------------------
(***************************************************************************)
(* The advisory tier of successive scans: what each scan asks OSV, before  *)
(* and after it expands the dependency graph, which of the four sources of *)
(* an answer it takes (cache, live query, dataset bundled in the binary,   *)
(* none), how the answers are accounted for, and the exit code             *)
(* (internal/datasource/osv QueryBatch, snapshot.go, and the OSV stages of *)
(* cmd/depsnort).  Scans share the cache directory and, through            *)
(* -osv-export and -osv-snapshot, a snapshot file.                         *)
(*                                                                         *)
(* The scans run with -fail-on-incomplete.  A node and its coordinate are  *)
(* one here; roots and nodes without a version are never asked about and   *)
(* are left out.                                                           *)
(***************************************************************************)
EXTENDS Integers, FiniteSets

CONSTANTS
    Package,    \* the coordinates, numbered in the order of their node IDs
    Locks,      \* the sets of them that a project's lockfiles may pin
    Bundle,     \* what the bundled dataset holds on each
    Feeds,      \* what OSV may know at first
    MaxBatch,   \* coordinates per request
    Scans       \* how many scans run

Advice  == {"malicious", "vulnerable", "none"}
Absent  == "absent"
NoEntry == [advice |-> Absent, fresh |-> FALSE]

ASSUME ScanAssumption ==
    /\ Package \subseteq Nat /\ IsFiniteSet(Package)
    /\ Locks \subseteq SUBSET Package
    /\ Bundle \in [Package -> Advice \cup {Absent}]
    /\ Feeds \subseteq [Package -> Advice]
    /\ MaxBatch \in Nat \ {0}
    /\ Scans \in Nat

VARIABLES
    live,       \* what OSV knows
    cache,      \* the advisory cache's entries
    snapshot,   \* the exported file's records
    said,       \* history: what OSV ever answered
    scans,      \* scans still to run
    flags,      \* this scan's -offline, -osv-snapshot and -osv-export
    stage,
    pinned,     \* the coordinates its lockfiles pin
    graph,      \* those and the ones expansion found
    advisories, \* ctx.Advisories: the coordinates asked about, with their answers
    asked,      \* of the QueryBatch call: what it was called with,
    missing,    \*   what it has not sent yet,
    failed,     \*   whether it returned an error,
    stats,      \*   and Client.Stats
    covered,    \* history: the coordinates some source checked for malware
    report,     \* the osv line of the coverage report
    gapListed,  \* whether dataSourceGaps names osv
    elsewhere,  \* whether it names another source
    exit

stores == <<live, cache, snapshot, said>>
setup  == <<scans, flags, pinned>>
call   == <<asked, missing, failed, stats>>
result == <<report, gapListed, elsewhere, exit>>
vars   == <<stores, setup, stage, graph, advisories, call, covered, result>>

Stage == {"idle", "pinned", "first", "grow", "grown", "second", "judge", "judged"}
Flags == [offline: BOOLEAN, imports: BOOLEAN, exports: BOOLEAN]
Stats == [queried: Nat, fromCache: Nat, fromNet: Nat, fromBundled: Nat, nonMalicious: Nat, gaps: Nat]
Zero  == [queried |-> 0, fromCache |-> 0, fromNet |-> 0, fromBundled |-> 0, nonMalicious |-> 0,
          gaps |-> 0]

ExitClean      == 0
ExitBlock      == 1
ExitIncomplete == 3

\* StoredFallback and the operators named ...InFull, ...Undated, ...OnError,
\* ...Again and ...Dropping are faults: no action uses them, and each breaks a
\* property.
-----------------------------------------------------------------------------
(***************************************************************************)
(* QueryBatch.                                                             *)
(***************************************************************************)
\* f, with the answers of g where it has any.
With(f, g) == [p \in DOMAIN f \cup DOMAIN g |-> IF p \in DOMAIN g THEN g[p] ELSE f[p]]

\* Entries that answer without asking: fresh ones, or any when offline.
Usable(p) == cache[p] # NoEntry /\ (cache[p].fresh \/ flags.offline)

\* resolveFromBundledOrGap: a bundled record answers, but it covers a coordinate
\* only when it knows of malware.
Fallback(S) == [p \in S |-> Bundle[p]]

Covering(S) == {p \in S : Bundle[p] = "malicious"}

FallenBack(st, S) ==
    [st EXCEPT !.fromBundled = @ + Cardinality(Covering(S)),
               !.nonMalicious = @ + Cardinality({p \in S : Bundle[p] \notin {Absent, "malicious"}}),
               !.gaps = @ + Cardinality(S \ Covering(S))]

\* The serial loop over the cache that begins a call on S.
Lookup(S) ==
    LET hits == {p \in S : Usable(p)}
        lost == IF flags.offline THEN S \ hits ELSE {}
        base == [Zero EXCEPT !.queried = Cardinality(S), !.fromCache = Cardinality(hits)]
    IN  /\ asked' = S
        /\ missing' = (S \ hits) \ lost
        /\ failed' = FALSE
        /\ stats' = FallenBack(base, lost)
        /\ advisories' = With(advisories, With([p \in hits |-> cache[p].advice], Fallback(lost)))
        /\ covered' = covered \cup hits \cup Covering(lost)

\* The coordinates of the next request.
Chunk == {p \in missing : Cardinality({q \in missing : q < p}) < MaxBatch}

\* postBatch answers the chunk; the cache keeps those of the answers it could write.
Post(written) ==
    /\ stage \in {"first", "second"}
    /\ missing # {}
    /\ written \subseteq Chunk
    /\ advisories' = With(advisories, [p \in Chunk |-> live[p]])
    /\ cache' = [p \in Package |-> IF p \in written THEN [advice |-> live[p], fresh |-> TRUE]
                                   ELSE cache[p]]
    /\ stats' = [stats EXCEPT !.fromNet = @ + Cardinality(Chunk)]
    /\ covered' = covered \cup Chunk
    /\ said' = said \cup {<<p, live[p]>> : p \in Chunk}
    /\ missing' = missing \ Chunk
    /\ UNCHANGED <<live, snapshot, setup, stage, graph, asked, failed, result>>

\* What a failed request leaves to the bundled dataset: it and all behind it.
Abandoned == missing

\* Keeps what the bundled dataset answered, or did not, dated now.
StoredFallback(S) ==
    [p \in Package |-> IF p \in S THEN [advice |-> Bundle[p], fresh |-> TRUE] ELSE cache[p]]

\* A bundled answer is not written to the cache.
Stored(S) == cache

\* postBatch fails, and no further request is sent.
PostFails ==
    /\ stage \in {"first", "second"}
    /\ missing # {}
    /\ advisories' = With(advisories, Fallback(Abandoned))
    /\ stats' = FallenBack(stats, Abandoned)
    /\ covered' = covered \cup Covering(Abandoned)
    /\ cache' = Stored(Abandoned)
    /\ failed' = TRUE
    /\ missing' = {}
    /\ UNCHANGED <<live, snapshot, said, setup, stage, graph, asked, result>>

\* Returns only a call none of whose requests failed.
AnsweredInFull == missing = {} /\ ~failed

\* The call returns.
Answered == missing = {}

-----------------------------------------------------------------------------
Init ==
    /\ live \in Feeds
    /\ cache = [p \in Package |-> NoEntry]
    /\ snapshot = <<>>
    /\ said = {}
    /\ scans = Scans
    /\ flags = [offline |-> FALSE, imports |-> FALSE, exports |-> FALSE]
    /\ stage = "idle"
    /\ pinned = {}
    /\ graph = {}
    /\ advisories = <<>>
    /\ asked = {} /\ missing = {} /\ failed = FALSE /\ stats = Zero
    /\ covered = {}
    /\ report = [stats |-> Zero, error |-> FALSE]
    /\ gapListed = FALSE /\ elsewhere = FALSE
    /\ exit = ExitClean

\* Keeps a record's own, older date.
ImportedUndated ==
    [p \in Package |-> IF p \in DOMAIN snapshot THEN [advice |-> snapshot[p], fresh |-> FALSE]
                      ELSE cache[p]]

\* The cache with the snapshot's records over its own, dated now.
Imported ==
    [p \in Package |-> IF p \in DOMAIN snapshot THEN [advice |-> snapshot[p], fresh |-> TRUE]
                      ELSE cache[p]]

\* A scan starts; -osv-snapshot fills the cache.  -osv-export is refused with
\* -offline.
Begin(f, lock) ==
    /\ stage = "idle"
    /\ scans > 0
    /\ ~(f.exports /\ f.offline)
    /\ f.imports => DOMAIN snapshot # {}
    /\ scans' = scans - 1
    /\ flags' = f
    /\ pinned' = lock
    /\ graph' = lock
    /\ cache' = IF f.imports THEN Imported ELSE cache
    /\ stage' = "pinned"
    /\ UNCHANGED <<live, snapshot, said, advisories, call, covered, result>>

\* prefetchAdvisories, before expansion.
AskPinned ==
    /\ stage = "pinned"
    /\ Lookup(graph)
    /\ stage' = "first"
    /\ UNCHANGED <<stores, setup, graph, result>>

\* The snapshot file; a record without advisories says there are none.
Exported ==
    IF flags.exports /\ ~failed
    THEN [p \in asked |-> IF advisories[p] = Absent THEN "none" ELSE advisories[p]]
    ELSE snapshot

\* Lists a gap only for a call that failed.
ListedOnError == failed

Listed == failed \/ stats.gaps > 0

FinishFirst ==
    /\ stage = "first"
    /\ Answered
    /\ snapshot' = Exported
    /\ report' = [stats |-> stats, error |-> failed]
    /\ gapListed' = Listed
    /\ stage' = "grow"
    /\ UNCHANGED <<live, cache, said, setup, graph, advisories, call, covered, elsewhere, exit>>

\* The registry and expansion stages: they find packages the lockfiles did not
\* pin, and may report gaps of their own.
Grow(found, gap) ==
    /\ stage = "grow"
    /\ graph' = graph \cup found
    /\ elsewhere' = gap
    /\ stage' = "grown"
    /\ UNCHANGED <<stores, setup, advisories, call, covered, report, gapListed, exit>>

\* Asks about the whole graph again.
RestAgain == graph

\* The packages nobody asked about.
Rest == graph \ DOMAIN advisories

\* The post-expansion pass.
AskRest ==
    /\ stage = "grown"
    /\ Lookup(Rest)
    /\ stage' = "second"
    /\ UNCHANGED <<stores, setup, graph, result>>

\* Leaves the second call's gaps out.
FoldedDropping ==
    [stats |-> [report.stats EXCEPT !.queried = @ + stats.queried, !.fromCache = @ + stats.fromCache,
                                    !.fromNet = @ + stats.fromNet],
     error |-> report.error \/ failed]

\* The second call's counts added to the first's, those of the bundled tier apart.
Folded ==
    [stats |-> [report.stats EXCEPT !.queried = @ + stats.queried, !.fromCache = @ + stats.fromCache,
                                    !.fromNet = @ + stats.fromNet, !.gaps = @ + stats.gaps],
     error |-> report.error \/ failed]

FinishSecond ==
    /\ stage = "second"
    /\ Answered
    /\ report' = Folded
    /\ stage' = "judge"
    /\ UNCHANGED <<stores, setup, graph, advisories, call, covered, gapListed, elsewhere, exit>>

\* VC-001 on the packages whose versions are pinned, then coverage.  What was found
\* beneath them has a presumed or an asserted version, and its findings never gate;
\* a contested one has no version and is no Package.
Judge ==
    /\ stage = "judge"
    /\ exit' = IF \E p \in pinned : advisories[p] = "malicious" THEN ExitBlock
               ELSE IF gapListed \/ elsewhere THEN ExitIncomplete
               ELSE ExitClean
    /\ stage' = "judged"
    /\ UNCHANGED <<stores, setup, graph, advisories, call, covered, report, gapListed, elsewhere>>

\* The process ends; what it kept in memory is gone.
Close ==
    /\ stage = "judged"
    /\ stage' = "idle"
    /\ pinned' = {} /\ graph' = {} /\ advisories' = <<>> /\ covered' = {}
    /\ flags' = [offline |-> FALSE, imports |-> FALSE, exports |-> FALSE]
    /\ asked' = {} /\ missing' = {} /\ failed' = FALSE /\ stats' = Zero
    /\ report' = [stats |-> Zero, error |-> FALSE]
    /\ gapListed' = FALSE /\ elsewhere' = FALSE /\ exit' = ExitClean
    /\ UNCHANGED <<stores, scans>>

Step ==
    \/ AskPinned
    \/ \E written \in SUBSET Chunk : Post(written)
    \/ PostFails
    \/ FinishFirst
    \/ \E found \in SUBSET (Package \ pinned), gap \in BOOLEAN : Grow(found, gap)
    \/ AskRest
    \/ FinishSecond
    \/ Judge
    \/ Close

-----------------------------------------------------------------------------
(***************************************************************************)
(* Between scans.                                                          *)
(***************************************************************************)
\* OSV learns that a package is malware.
Publish(p) ==
    /\ stage = "idle"
    /\ live[p] = "none"
    /\ live' = [live EXCEPT ![p] = "malicious"]
    /\ UNCHANGED <<cache, snapshot, said, setup, stage, graph, advisories, call, covered, result>>

\* The time-to-live of every cached answer passes.
Expire ==
    /\ stage = "idle"
    /\ cache' = [p \in Package |-> [cache[p] EXCEPT !.fresh = FALSE]]
    /\ UNCHANGED <<live, snapshot, said, setup, stage, graph, advisories, call, covered, result>>

\* The next scan runs on another machine: only the snapshot file travels.
Move ==
    /\ stage = "idle"
    /\ cache' = [p \in Package |-> NoEntry]
    /\ UNCHANGED <<live, snapshot, said, setup, stage, graph, advisories, call, covered, result>>

Next ==
    \/ \E f \in Flags, lock \in Locks : Begin(f, lock)
    \/ Step
    \/ \E p \in Package : Publish(p)
    \/ Expire
    \/ Move

Spec == Init /\ [][Next]_vars

\* A scan that has begun is not held up: each of its requests has a time limit.
FairSpec == Spec /\ WF_vars(Step)

-----------------------------------------------------------------------------
(***************************************************************************)
(* Types and properties.                                                   *)
(***************************************************************************)

\* Every variable keeps its type.
TypeOK ==
    /\ live \in [Package -> Advice]
    /\ cache \in [Package -> {NoEntry} \cup [advice: Advice, fresh: BOOLEAN]]
    /\ DOMAIN snapshot \subseteq Package /\ \A p \in DOMAIN snapshot : snapshot[p] \in Advice
    /\ said \subseteq Package \X Advice
    /\ scans \in Nat
    /\ flags \in Flags
    /\ stage \in Stage
    /\ pinned \subseteq graph /\ graph \subseteq Package
    /\ DOMAIN advisories \subseteq graph
    /\ \A p \in DOMAIN advisories : advisories[p] \in Advice \cup {Absent}
    /\ missing \subseteq asked /\ asked \subseteq graph
    /\ failed \in BOOLEAN /\ gapListed \in BOOLEAN /\ elsewhere \in BOOLEAN
    /\ stats \in Stats /\ report \in [stats: Stats, error: BOOLEAN]
    /\ covered \subseteq DOMAIN advisories
    /\ exit \in {ExitClean, ExitBlock, ExitIncomplete}

\* The report counts what was not looked at: by the time a scan judges, every
\* package of its graph was asked about once, and the report's gap count, over
\* both calls, is the number of packages that no source checked for malware,
\* whichever requests failed and whatever the bundled dataset held
\* (DS-REV-01 in osv.go, and the fold of the second pass in cmd/depsnort).
ReportCountsEveryGap ==
    stage = "judged" =>
        /\ DOMAIN advisories = graph
        /\ report.stats.queried = Cardinality(graph)
        /\ report.stats.gaps = Cardinality(graph \ covered)

\* A scan that exits clean checked every package its lockfiles pin.
PinnedGapsGate == stage = "judged" /\ exit = ExitClean => pinned \subseteq covered

\* The cache and the snapshot only ever say what OSV said: no gap, and nothing
\* the bundled dataset answered, is stored as an answer, through any sequence of
\* exports, moves and imports.
StoresAreHonest ==
    /\ \A p \in Package : cache[p] # NoEntry => <<p, cache[p].advice>> \in said
    /\ \A p \in DOMAIN snapshot : <<p, snapshot[p]>> \in said

\* A scan bootstrapped from a snapshot, on whatever machine and with or without a
\* network, answers what the snapshot says for each package it records.
SnapshotReplays ==
    stage = "judged" /\ flags.imports /\ ~flags.exports =>
        \A p \in graph \cap DOMAIN snapshot : advisories[p] = snapshot[p] /\ p \in covered

\* The second pass asks about nothing the first did: no answer is replaced during
\* a scan.
AnswersStand ==
    [][stage' # "idle" => \A p \in DOMAIN advisories : p \in DOMAIN advisories'
                                                      /\ advisories'[p] = advisories[p]]_vars

\* Every scan that begins comes to a verdict.
ScansEnd == stage = "pinned" ~> stage = "judged"

-----------------------------------------------------------------------------
(***************************************************************************)
(* The invariant the proofs are by induction on, in its parts.             *)
(***************************************************************************)

\* What has been asked about at each stage.
Phased ==
    /\ stage \in {"idle", "pinned"} => DOMAIN advisories = {} /\ covered = {} /\ asked = {}
    /\ stage \notin {"first", "second"} => missing = {}
    /\ stage \in {"pinned", "first", "grow"} => graph = pinned
    /\ stage = "first" => asked = pinned /\ DOMAIN advisories = pinned \ missing
    /\ stage \in {"grow", "grown"} => DOMAIN advisories = pinned
    /\ stage = "second" => asked = graph \ pinned /\ DOMAIN advisories = graph \ missing
    /\ stage \in {"judge", "judged"} => DOMAIN advisories = graph

\* The counts of the running call, and of the report, are those of the packages.
Counted ==
    /\ stage \in {"first", "second"} =>
           /\ stats.queried = Cardinality(asked)
           /\ stats.gaps = Cardinality((asked \ missing) \ covered)
    /\ stage \in {"grow", "grown", "second"} =>
           /\ report.stats.queried = Cardinality(pinned)
           /\ report.stats.gaps = Cardinality(pinned \ covered)
    /\ stage \in {"judge", "judged"} =>
           /\ report.stats.queried = Cardinality(graph)
           /\ report.stats.gaps = Cardinality(graph \ covered)

\* A gap of the first call is listed, and what is listed is not clean.
Gating ==
    /\ stage \in {"grow", "grown", "second", "judge", "judged"} /\ ~gapListed => pinned \subseteq covered
    /\ stage = "judged" /\ exit = ExitClean => ~gapListed

\* The stores say what OSV said, and so does a call that may be exported.
Honest ==
    /\ StoresAreHonest
    /\ flags.exports => ~flags.offline
    /\ stage = "first" /\ ~failed /\ ~flags.offline =>
           \A p \in asked \ missing : <<p, advisories[p]>> \in said

\* The snapshot's records stay the cache's throughout a scan that imports them.
Bootstrapped ==
    /\ stage = "idle" => ~flags.imports
    /\ flags.imports /\ ~flags.exports =>
           \A p \in DOMAIN snapshot :
               /\ cache[p] = [advice |-> snapshot[p], fresh |-> TRUE]
               /\ p \notin missing
               /\ p \in DOMAIN advisories => advisories[p] = snapshot[p] /\ p \in covered

IInv == TypeOK /\ Phased /\ Counted /\ Gating /\ Honest /\ Bootstrapped

-----------------------------------------------------------------------------
(***************************************************************************)
(* What the documentation says and the code does not do.                   *)
(***************************************************************************)

\* A partial run is never silently promoted to clean (README, "Coverage is part
\* of the verdict"), whether the lockfiles or expansion named the package.
NeverPromotedToClean == stage = "judged" /\ exit = ExitClean => graph \subseteq covered

=============================================================================
