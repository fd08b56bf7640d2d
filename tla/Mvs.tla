--------------------------------- MODULE Mvs ---------------------------------
(***************************************************************************)
(* internal/ecosystem/gomod/resolver.go: the Go resolver.  One resolution  *)
(* reads go.mod files from the module proxy, selects by minimal version    *)
(* selection the highest version that anything reached requires of each    *)
(* module, and flattens the selection into a graph.                        *)
(*                                                                         *)
(* The walk pops a stack; here it takes any item of a set, so that what is *)
(* shown holds in whatever order the files are read.  A request may find   *)
(* the file, find that there is none, or fail; the proxy client's own      *)
(* cache only decides which, and a resolution asks for a file once.        *)
(* The tier is off under -offline (useAssertedTier).                       *)
(***************************************************************************)
EXTENDS GoMod, FiniteSets

CONSTANTS World,
          Text,        \* the files that the proxy serves, per world
          Query,       \* the resolutions asked for
          Main         \* the module of the queried coordinate or local root

Coord == Module \X Version
Item  == Coord \X BOOLEAN

\* A query is a published coordinate of Main, or the file of a local main module.
Local(q) == q.local

ASSUME MvsAssumption ==
    /\ IsFiniteSet(Module) /\ IsFiniteSet(Version)
    /\ NoVersion \notin Version
    /\ Rank \in [Version -> Nat]
    /\ Main \in Module
    /\ \A w \in World : /\ DOMAIN Text[w] \subseteq Coord
                        /\ \A c \in DOMAIN Text[w] : Text[w][c] \in Seq(Line)
    /\ Query \subseteq [local: BOOLEAN, version: Version, text: Seq(Line)]

VARIABLES
    world, query,
    stage,
    rootReqs, pruned,
    selected,      \* the version selected of each module so far
    seen, work,    \* what was ever put on the worklist, and what is on it
    read,          \* the outcome of each request: the per-call cache
    unread,        \* the first version of a module whose request failed
    todo, edges,   \* the flattening: modules to read, edges found
    report         \* what IncompleteResolution names

inputs    == <<world, query>>
selection == <<rootReqs, pruned, selected, seen, work>>
answer    == <<todo, edges, report>>
vars      == <<inputs, stage, selection, read, unread, answer>>

Outcome == {"read", "absent", "failed"}

TypeOK ==
    /\ world \in World /\ query \in Query
    /\ stage \in {"asked", "select", "flatten", "declined", "answered"}
    /\ rootReqs \subseteq Coord /\ pruned \in BOOLEAN
    /\ selected \in [Module -> Version \cup {NoVersion}]
    /\ seen \subseteq Item /\ work \subseteq seen
    /\ read \in [Coord -> Outcome \cup {"unasked"}]
    /\ unread \in [Module -> Version \cup {NoVersion}]
    /\ todo \subseteq Module /\ edges \subseteq Module \X Module
    /\ report \subseteq Coord

Init ==
    /\ world \in World /\ query \in Query
    /\ stage = "asked"
    /\ rootReqs = {} /\ pruned = FALSE
    /\ selected = [m \in Module |-> NoVersion]
    /\ seen = {} /\ work = {}
    /\ read = [c \in Coord |-> "unasked"]
    /\ unread = [m \in Module |-> NoVersion]
    /\ todo = {} /\ edges = {} /\ report = {}

-----------------------------------------------------------------------------
(***************************************************************************)
(* fetcher                                                                 *)
(***************************************************************************)
Outcomes(c) == IF read[c] # "unasked" THEN {read[c]}
               ELSE {"failed", IF c \in DOMAIN Text[world] THEN "read" ELSE "absent"}

\* A fault: a request that fails is taken for one that finds no file.
FetchConflating(c, o) ==
    /\ o \in Outcomes(c)
    /\ read' = [read EXCEPT ![c] = o]
    /\ unread' = unread

Fetch(c, o) ==
    /\ o \in Outcomes(c)
    /\ read' = [read EXCEPT ![c] = o]
    /\ unread' = [unread EXCEPT ![c[1]] = IF o = "failed" /\ @ = NoVersion THEN c[2] ELSE @]

ReqsOf(c) == Requires(Text[world][c])

\* A fault: the first version met of a module stays.
RaisedOnce(R) ==
    {f \in [Module -> {selected[m] : m \in Module} \cup {c[2] : c \in R}] :
        \A m \in Module :
            LET named == {v \in Version : <<m, v>> \in R}
            IN  IF named = {} \/ selected[m] # NoVersion THEN f[m] = selected[m] ELSE f[m] \in named}

-----------------------------------------------------------------------------
(***************************************************************************)
(* The selection.                                                          *)
(***************************************************************************)
\* The versions in R that a selection gives way to, and what it may become when
\* the requirements R count.
Above(m, R) == {v \in Version : <<m, v>> \in R /\ (selected[m] = NoVersion \/ Less(selected[m], v))}

Raised(R) ==
    LET rising     == {m \in Module : Above(m, R) # {}}
        highest(m) == {v \in Above(m, R) : \A u \in Above(m, R) : ~Less(v, u)}
        choices    == {f \in [rising -> {c[2] : c \in R}] : \A m \in rising : f[m] \in highest(m)}
    IN  {[m \in Module |-> IF m \in rising THEN f[m] ELSE selected[m]] : f \in choices}

\* Count the requirements R and put each on the worklist, once per mode.
Record(R, unpruned, rest) ==
    LET fresh == (R \X {unpruned}) \ seen
    IN  /\ selected' \in Raised(R)
        /\ seen' = seen \cup fresh
        /\ work' = rest \cup fresh

Seed(text, isPruned) ==
    /\ stage' = "select"
    /\ rootReqs' = Requires(text)
    /\ pruned' = isPruned
    /\ Record(Requires(text), FALSE, {})

\* Resolve: the queried coordinate must be readable, or the caller presumes.
Resolve ==
    LET c == <<Main, query.version>>
    IN  /\ stage = "asked" /\ ~Local(query)
        /\ \E o \in Outcomes(c) :
              /\ Fetch(c, o)
              /\ IF o = "read"
                 THEN Seed(Text[world][c], HasPrunedModuleGraph(Text[world][c]))
                 ELSE stage' = "declined" /\ UNCHANGED selection
        /\ UNCHANGED <<inputs, answer>>

\* ResolveLocalRoot: the manifest supplies the requirements.
ResolveLocalRoot ==
    /\ stage = "asked" /\ Local(query)
    /\ IF Requires(query.text) = {}
       THEN stage' = "declined" /\ UNCHANGED selection
       ELSE Seed(query.text, HasPrunedModuleGraph(query.text))
    /\ UNCHANGED <<inputs, read, unread, answer>>

\* A fault: only the version selected at the time is read.
ReadFullSelected(it) ==
    /\ stage = "select" /\ ~pruned
    /\ \E o \in Outcomes(it[1]) :
          /\ Fetch(it[1], o)
          /\ IF o = "read" /\ selected[it[1][1]] = it[1][2]
             THEN Record(ReqsOf(it[1]), FALSE, work \ {it})
             ELSE work' = work \ {it} /\ UNCHANGED <<selected, seen>>
    /\ UNCHANGED <<inputs, stage, rootReqs, pruned, answer>>

\* selectFullGraphSeed: each file reached is read, superseded versions included.
ReadFull(it) ==
    /\ stage = "select" /\ ~pruned
    /\ \E o \in Outcomes(it[1]) :
          /\ Fetch(it[1], o)
          /\ IF o = "read"
             THEN Record(ReqsOf(it[1]), FALSE, work \ {it})
             ELSE work' = work \ {it} /\ UNCHANGED <<selected, seen>>
    /\ UNCHANGED <<inputs, stage, rootReqs, pruned, answer>>

\* selectPrunedSeed: beneath a module before go 1.17 everything is read; the
\* requirements of any other count, and are not read.
Expands(it) == it[2] \/ ~HasPrunedModuleGraph(Text[world][it[1]])

ReadPruned(it) ==
    /\ stage = "select" /\ pruned
    /\ \E o \in Outcomes(it[1]) :
          /\ Fetch(it[1], o)
          /\ CASE o # "read" -> work' = work \ {it} /\ UNCHANGED <<selected, seen>>
               [] o = "read" /\ Expands(it) -> Record(ReqsOf(it[1]), TRUE, work \ {it})
               [] o = "read" /\ ~Expands(it) ->
                    /\ selected' \in Raised(ReqsOf(it[1]))
                    /\ work' = work \ {it}
                    /\ UNCHANGED seen
    /\ UNCHANGED <<inputs, stage, rootReqs, pruned, answer>>

-----------------------------------------------------------------------------
(***************************************************************************)
(* buildResolvedGraph and incompleteResolution.                            *)
(***************************************************************************)
Listed == {m \in Module : selected[m] # NoVersion} \ {Main}

EdgesFrom(m, R) == {<<m, n>> : n \in {c[1] : c \in R} \cap (Listed \cup {Main})} \ {<<m, m>>}

Flatten ==
    /\ stage = "select" /\ work = {}
    /\ stage' = "flatten"
    /\ todo' = Listed
    /\ edges' = EdgesFrom(Main, rootReqs)
    /\ UNCHANGED <<inputs, selection, read, unread, report>>

\* A fault: a file that cannot be read is asked for again.
ReadEdgesAgain(m) ==
    LET c == <<m, selected[m]>>
    IN  /\ stage = "flatten"
        /\ \E o \in Outcomes(c) :
              /\ Fetch(c, o)
              /\ edges' = IF o = "read" THEN edges \cup EdgesFrom(m, ReqsOf(c)) ELSE edges
              /\ todo' = IF o = "failed" THEN todo ELSE todo \ {m}
        /\ UNCHANGED <<inputs, stage, selection, report>>

\* A fault: superseded versions add their edges too.
ReadEdgesOfAll(m) ==
    LET c == <<m, selected[m]>>
    IN  /\ stage = "flatten"
        /\ \E o \in Outcomes(c) :
              /\ Fetch(c, o)
              /\ edges' = edges \cup UNION {EdgesFrom(m, ReqsOf(d)) : d \in {e \in {m} \X Version : read'[e] = "read"}}
        /\ todo' = todo \ {m}
        /\ UNCHANGED <<inputs, stage, selection, report>>

ReadEdges(m) ==
    LET c == <<m, selected[m]>>
    IN  /\ stage = "flatten"
        /\ \E o \in Outcomes(c) :
              /\ Fetch(c, o)
              /\ edges' = IF o = "read" THEN edges \cup EdgesFrom(m, ReqsOf(c)) ELSE edges
        /\ todo' = todo \ {m}
        /\ UNCHANGED <<inputs, stage, selection, report>>

Return ==
    /\ stage = "flatten" /\ todo = {}
    /\ stage' = "answered"
    /\ report' = {<<m, IF selected[m] = NoVersion THEN unread[m] ELSE selected[m]>> :
                     m \in {n \in Module \ {Main} : unread[n] # NoVersion}}
    /\ UNCHANGED <<inputs, selection, read, unread, todo, edges>>

Next ==
    \/ Resolve
    \/ ResolveLocalRoot
    \/ \E it \in work : ReadFull(it)
    \/ \E it \in work : ReadPruned(it)
    \/ Flatten
    \/ \E m \in todo : ReadEdges(m)
    \/ Return

Spec     == Init /\ [][Next]_vars
FairSpec == Spec /\ WF_vars(Next)

-----------------------------------------------------------------------------
(***************************************************************************)
(* The build list by its definition: which files count, and the highest    *)
(* version that they require of each module.  Reaches(S) is the least set  *)
(* that holds S and what the readable files in it require.                 *)
(***************************************************************************)
Readable(c) == c \in DOMAIN Text[world] /\ read[c] = "read"

RequiredBy(S) == UNION {ReqsOf(c) : c \in {d \in S : Readable(d)}}

Mentioned == rootReqs \cup UNION {ReqsOf(c) : c \in DOMAIN Text[world]}

\* The least subset of M that holds S and, with each element, its needs.
Least(M, needs, S) ==
    LET Closed == {T \in SUBSET M : S \subseteq T /\ \A c \in T : needs[c] \subseteq T}
    IN  {c \in M : \A T \in Closed : c \in T}

Demands == [c \in Mentioned |-> RequiredBy({c})]

Reaches(S) == Least(Mentioned, Demands, S)

\* Required modules before go 1.17: beneath them nothing is pruned.
OldRoots == {c \in rootReqs : Readable(c) /\ ~HasPrunedModuleGraph(Text[world][c])}

BeneathOld == Reaches(RequiredBy(OldRoots))

Counts ==
    IF pruned THEN rootReqs \cup RequiredBy(rootReqs) \cup BeneathOld ELSE Reaches(rootReqs)

\* Whatever the order of the reads and whichever of them failed, the selected
\* version of a module is the highest that a counting file requires, and a
\* module is listed only if one requires it (selectFullGraphSeed,
\* selectPrunedSeed).
BuildListIsMinimal ==
    stage = "answered" =>
        LET counts == Counts
            required(m) == {v \in Version : <<m, v>> \in counts}
        IN  \A m \in Module :
                IF required(m) = {} THEN selected[m] = NoVersion
                ELSE /\ selected[m] \in required(m)
                     /\ \A v \in required(m) : ~Less(selected[m], v)

\* A module with a file that could not be read, superseded or not, is reported
\* at the version its node carries, and nothing else is (incompleteResolution).
UnreadIsReported ==
    stage = "answered" =>
        report = {<<m, selected[m]>> :
                    m \in {n \in Listed : \E v \in Version : read[<<n, v>>] = "failed"}}

\* What a module of the answer requires at its version, as far as it was read.
NeedsOf(m) ==
    IF m = Main THEN rootReqs
    ELSE IF Readable(<<m, selected[m]>>) THEN ReqsOf(<<m, selected[m]>>) ELSE {}

\* The edges of the answer are the requirements, between its modules, of the
\* versions selected: each edge is one that the version it starts from states, and
\* each stated one is there.  The root's requirements are met by the versions
\* selected, and in an unpruned list so are those of every version that was read
\* (buildResolvedGraph).
EdgesAreMet ==
    stage = "answered" =>
        /\ edges = {e \in (Listed \cup {Main}) \X (Listed \cup {Main}) :
                       e[1] # e[2] /\ \E c \in NeedsOf(e[1]) : c[1] = e[2]}
        /\ \A m \in (IF pruned THEN {Main} ELSE Listed \cup {Main}) : \A c \in NeedsOf(m) :
              c[1] \in Listed \cup {Main} /\ ~Less(selected[c[1]], c[2])

\* What was taken off the worklist was read and its requirements count; what
\* counts is never above the selection.
Covers(c) == selected[c[1]] # NoVersion /\ ~Less(selected[c[1]], c[2])

Handled(it) ==
    /\ read[it[1]] # "unasked"
    /\ Readable(it[1]) =>
          \A c \in ReqsOf(it[1]) :
             /\ Covers(c)
             /\ ~pruned => <<c, FALSE>> \in seen
             /\ pruned /\ Expands(it) => <<c, TRUE>> \in seen

Selecting == stage \in {"select", "flatten", "answered"}

EverythingCovered ==
    /\ Selecting => rootReqs \subseteq Coord /\ \A c \in rootReqs : <<c, FALSE>> \in seen
    /\ \A it \in seen : Covers(it[1])
    /\ \A it \in seen \ work : Handled(it)

\* Nothing is on the worklist or selected but for a file that counts.
NothingElseCounts ==
    LET counts == Counts
        old    == BeneathOld
    IN  /\ \A it \in seen :
              IF pruned THEN IF it[2] THEN it[1] \in old ELSE it[1] \in rootReqs
              ELSE ~it[2] /\ it[1] \in counts
        /\ \A m \in Module : selected[m] # NoVersion =>
              /\ <<m, selected[m]>> \in counts
              /\ ~pruned => <<<<m, selected[m]>>, FALSE>> \in seen

\* The outcomes of the requests, and what they are remembered by.
ReadsRemembered ==
    /\ \A c \in Coord : /\ read[c] = "read" => c \in DOMAIN Text[world]
                        /\ read[c] = "failed" => unread[c[1]] # NoVersion
                        /\ read[c] # "unasked" => c[1] = Main \/ selected[c[1]] # NoVersion
    /\ \A m \in Module : unread[m] # NoVersion => read[<<m, unread[m]>>] = "failed"

\* The flattening has the edges of the modules it is done with, and no other.
EdgesFound ==
    stage \in {"flatten", "answered"} =>
        /\ todo \subseteq Listed
        /\ \A e \in edges : e[1] \in Listed \cup {Main} /\ e \in EdgesFrom(e[1], NeedsOf(e[1]))
        /\ \A m \in (Listed \cup {Main}) \ todo : EdgesFrom(m, NeedsOf(m)) \subseteq edges

\* The inductive invariant of a resolution.
IInv ==
    /\ TypeOK
    /\ stage \in {"asked", "declined"} => /\ seen = {} /\ todo = {} /\ edges = {} /\ report = {}
                                          /\ selected = [m \in Module |-> NoVersion]
    /\ stage \in {"flatten", "answered"} => work = {}
    /\ stage = "answered" => todo = {}
    /\ EverythingCovered
    /\ NothingElseCounts
    /\ ReadsRemembered
    /\ EdgesFound

\* The resolver answers or declines.
Resolves == <>(stage \in {"declined", "answered"})

=============================================================================
