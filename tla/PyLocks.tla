------------------------------- MODULE PyLocks -------------------------------
(***************************************************************************)
(* How the pypi adapter (internal/ecosystem/pypi) turns the files of a     *)
(* project into a graph: uv.lock, poetry.lock, pdm.lock, pylock.toml,      *)
(* Pipfile.lock, requirements files and, without any, the dependencies a   *)
(* manifest declares; and how the edges of a flat one are reconstructed.   *)
(*                                                                         *)
(* Names are normalized and lines already split into what they say.        *)
(***************************************************************************)
EXTENDS DepGraph

\* A pypi identity carries no source.
PyId(name, ver) == Id("pypi", name, ver, "none")

\* rootNode: the project goes by its directory's name.
PyRoot(doc) == PyId(doc.dir, "0.0.0")

\* The entries that have a version, in the file's order.
Versioned(doc) == {i \in DOMAIN doc.packages : doc.packages[i].ver # NoVersion}

EntryAt(doc, i) == PyId(doc.packages[i].name, doc.packages[i].ver)

-----------------------------------------------------------------------------
(***************************************************************************)
(* uv.lock (parseUvLock).  A dependency names a package and, where there   *)
(* are several of that name, its version.                                  *)
(***************************************************************************)
UvClass(ref) ==
    CASE ref = "editable" -> "path" [] ref \in {"virtual", Empty} -> "none" [] OTHER -> ref

\* A part of an entry, a table or a list of its own; a file leaves out what is empty.
Part(p, name) == IF name \in DOMAIN p.parts THEN p.parts[name] ELSE {}

\* scanUvLock: what a package asks for.  The project's groups and extras count, those
\* of another package do not; any other table, such as metadata, is skipped.
UvWants(p, own) ==
    UNION {Part(p, t) : t \in IF own THEN {"dependencies", "dev-dependencies", "optional-dependencies"}
                                     ELSE {"dependencies"}}

\* The package a dependency means, if that is certain.
UvDep(doc, d) ==
    LET named == {i \in DOMAIN doc.packages : doc.packages[i].name = d.name}
    IN  {EntryAt(doc, i) : i \in {j \in named : /\ doc.packages[j].ver # NoVersion
                                                /\ Cardinality(named) = 1 \/ doc.packages[j].ver = d.ver}}

\* selectUvRoot: the first editable or virtual package, or the only one.
UvRoots(doc) ==
    LET own == {i \in Versioned(doc) : doc.packages[i].ref \in {"editable", "virtual"}}
    IN  IF own # {} THEN {Min(own)} ELSE IF Len(doc.packages) = 1 THEN Versioned(doc) ELSE {}

\* A fault: the packages that nothing needs, and no others, are the root's own.
RootTop(g, root) == AttachUnneeded(Graph(g.at, g.edges, {root}), root, DOMAIN g.at)

\* The packages that nothing needs, or all of them, as the root's own.
RootAll(g, root) ==
    LET top == DOMAIN g.at \ ({root} \cup {e[2] : e \in g.edges})
        own == IF top = {} THEN DOMAIN g.at \ {root} ELSE top
    IN  AttachUnrooted(
            Graph([id \in DOMAIN g.at |-> IF id \in own THEN [g.at[id] EXCEPT !.direct = TRUE] ELSE g.at[id]],
                  g.edges \cup {<<root, id>> : id \in own}, {root}),
            root)

ReadUv(doc) ==
    LET found == UvRoots(doc)
        root  == IF found = {} THEN PyRoot(doc) ELSE EntryAt(doc, CHOOSE i \in found : TRUE)
        wantsOf(id) == UNION {UvWants(doc.packages[i], i \in found) : i \in {j \in Versioned(doc) : EntryAt(doc, j) = id}}
        ids   == {EntryAt(doc, i) : i \in Versioned(doc)}
        ref(id) == doc.packages[CHOOSE i \in Versioned(doc) : EntryAt(doc, i) = id].ref
        lost(id) == {d.name : d \in {w \in wantsOf(id) : UvDep(doc, w) = {}}}
        links == UNION {{<<id, to>> : to \in UNION {UvDep(doc, w) : w \in wantsOf(id)}} : id \in ids}
        at    == [id \in ids |-> [Leaves(lost(id)) EXCEPT !.class = UvClass(ref(id)), !.direct = <<root, id>> \in links]]
        g     == Graph(Over(at, Only(root, Plain)), links, {root})
    IN  IF found = {} THEN RootAll(g, root) ELSE AttachUnrooted(g, root)

-----------------------------------------------------------------------------
(***************************************************************************)
(* poetry.lock, pdm.lock and pylock.toml (parsePoetryLock, parsePdmLock,   *)
(* parsePylock).  Dependencies are names, and the last package of a name   *)
(* is meant.                                                               *)
(***************************************************************************)
NamedLock == {"poetry", "pdm", "pylock"}

\* scanned[i] is what the scan of the lock makes of its i-th package.
ReadNamed(doc, scanned) ==
    LET root  == PyRoot(doc)
        V     == Versioned(doc)
        last(n) == {i \in V : doc.packages[i].name = n /\ \A j \in V : doc.packages[j].name = n => j <= i}
        ids   == {EntryAt(doc, i) : i \in V}
        of(id) == {scanned[i] : i \in {j \in V : EntryAt(doc, j) = id}}
        wants(id) == UNION {p.deps : p \in of(id)}
        lost(id)  == {n \in wants(id) : last(n) = {}}
        links == UNION {{<<id, EntryAt(doc, i)>> : i \in UNION {last(n) : n \in wants(id)}} : id \in ids}
        at    == [id \in ids |-> [Leaves(lost(id)) EXCEPT !.class = (CHOOSE p \in of(id) : TRUE).class]]
    IN  RootAll(Graph(Over(at, Only(root, Plain)), links, {root}), root)

\* scanPoetryLock: the optional extras are skipped, and a package without a source is
\* the registry's.
ScanPoetry(p) ==
    [deps  |-> Part(p, "dependencies"),
     class |-> CASE p.ref \in {"git", "url"} -> p.ref
                 [] p.ref \in {"directory", "file"} -> "path"
                 [] OTHER -> "registry"]

ReadPoetry(doc) == ReadNamed(doc, [i \in DOMAIN doc.packages |-> ScanPoetry(doc.packages[i])])

\* scanPdmLock: no source is read.
ScanPdm(p) == [deps |-> Part(p, "dependencies"), class |-> "registry"]

ReadPdm(doc) == ReadNamed(doc, [i \in DOMAIN doc.packages |-> ScanPdm(doc.packages[i])])

\* classify: where a package of a pylock.toml comes from, the most telling first.
PylockOrigins ==
    <<<<"vcs", "git">>, <<"directory", "path">>, <<"archive", "url">>, <<"index", "registry">>, <<"sdist", "url">>,
      <<"wheels", "url">>>>

\* scanPylock
ScanPylock(p) ==
    LET given == {k \in DOMAIN PylockOrigins : PylockOrigins[k][1] \in p.origins}
    IN  [deps |-> Part(p, "dependencies"), class |-> IF given = {} THEN "none" ELSE PylockOrigins[Min(given)][2]]

\* The locker need not have recorded any dependency: then the tree is flat.
ReadPylock(doc) ==
    LET g == ReadNamed(doc, [i \in DOMAIN doc.packages |-> ScanPylock(doc.packages[i])])
    IN  IF \A e \in g.edges : e[1] \in g.roots
        THEN Graph([g.at EXCEPT ![PyRoot(doc)].flat = TRUE], g.edges, g.roots) ELSE g

-----------------------------------------------------------------------------
(***************************************************************************)
(* Pipfile.lock (parsePipfileLock): a list.  Entries without a version are *)
(* left out.                                                               *)
(***************************************************************************)
PipfileFails(doc) == Versioned(doc) = {}

ReadPipfile(doc) ==
    LET root == PyRoot(doc)
        ids  == {EntryAt(doc, i) : i \in Versioned(doc)}
    IN  Graph(Over([id \in ids |-> [Plain EXCEPT !.direct = TRUE]], Only(root, [Plain EXCEPT !.flat = TRUE])),
              {<<root, id>> : id \in ids}, {root})

-----------------------------------------------------------------------------
(***************************************************************************)
(* requirements.txt (parseRequirements) with the files it includes and the *)
(* requirements files beside it.  A line is                                *)
(*   [kind: {"pin"}, name, ver]    [kind: {"via"}, name]                   *)
(*   [kind: {"open"}, name, excluded]    [kind: {"include"}, file]         *)
(*   [kind: {"garbled", "option"}]                                         *)
(* and a file that is no key of doc.files cannot be read: it is missing,   *)
(* remote or outside the scanned tree.  A line too long for the scanner    *)
(* ends its file and counts as a file not followed: here, as an include of *)
(* no file, the last line.  Where no directory bounds the reading (nil     *)
(* reader) or the directory cannot be listed there are no siblings.        *)
(***************************************************************************)
MaxInclude == 32

\* What a scan has seen, the lines it kept and the targets it did not follow, each of
\* which counts as a line of its own.
NothingRead(seen) == [seen |-> seen, lines |-> <<>>, unfollowed |-> <<>>]

ThenRead(a, b) == [seen |-> b.seen, lines |-> a.lines \o b.lines, unfollowed |-> a.unfollowed \o b.unfollowed]

\* One line of a file: `included` reads a file that it includes.
ThenLine(a, file, line, i, readable, included) ==
    IF line.kind # "include" THEN [a EXCEPT !.lines = Append(@, <<file, i>>)]
    ELSE IF line.file \notin readable THEN [a EXCEPT !.unfollowed = Append(@, line.file)]
    ELSE ThenRead(a, included[<<a.seen, line.file>>])

\* The lines of a file in turn.
ReadText(doc, seen, file, readable, included) ==
    LET text == doc.files[file]
        over[i \in 0..Len(text)] ==
            IF i = 0 THEN NothingRead(seen \cup {file})
            ELSE ThenLine(over[i - 1], file, text[i], i, readable, included)
    IN  IF file \in seen THEN NothingRead(seen) ELSE over[Len(text)]

\* What a file adds to those seen, and the files it includes, in order, each file once:
\* included[k] where k levels of includes are left.
ReadFile(doc) ==
    LET F == DOMAIN doc.files
        included[k \in 0..MaxInclude] ==
            [c \in (SUBSET F) \X F |->
                IF k = 0 THEN ReadText(doc, c[1], c[2], {}, <<>>) ELSE ReadText(doc, c[1], c[2], F, included[k - 1])]
    IN  included[MaxInclude]

ThenSibling(doc, a, file) ==
    IF file \notin DOMAIN doc.files THEN [a EXCEPT !.unfollowed = Append(@, file)]
    ELSE ThenRead(a, ReadFile(doc)[<<a.seen, file>>])

\* The first file, then its siblings in alphabetical order.
ReadFiles(doc) ==
    LET over[i \in 0..Len(doc.siblings)] ==
            IF i = 0 THEN ReadFile(doc)[<<{}, doc.first>>] ELSE ThenSibling(doc, over[i - 1], doc.siblings[i])
    IN  over[Len(doc.siblings)]

\* A "# via" belongs to the last pin above it, whatever stands between.
Vias(text, i) ==
    {text[j].name : j \in {k \in DOMAIN text : /\ k > i /\ text[k].kind = "via"
                                               /\ \A m \in (i + 1)..k : text[m].kind # "pin"}}

RequirementsFail(doc) ==
    LET r == ReadFiles(doc)
    IN  /\ r.unfollowed = <<>>
        /\ \A k \in DOMAIN r.lines : LET l == doc.files[r.lines[k][1]][r.lines[k][2]] IN
                l.kind \in {"via", "option"} \/ (l.kind = "open" /\ l.excluded)

\* The graph of the lines r that were kept.
GraphOfLines(doc, r) ==
    LET root    == PyRoot(doc)
        line(k) == doc.files[r.lines[k][1]][r.lines[k][2]]
        pins    == {k \in DOMAIN r.lines : line(k).kind = "pin"}
        id(k)   == PyId(line(k).name, line(k).ver)
        meant(n) == {id(k) : k \in {j \in pins : line(j).name = n /\ \A i \in pins : line(i).name = n => i <= j}}
        vias(k) == Vias(doc.files[r.lines[k][1]], r.lines[k][2])
        parents(k) == UNION {meant(n) : n \in vias(k)} \ meant(line(k).name)
        open    == {k \in DOMAIN r.lines : line(k).kind = "garbled" \/ (line(k).kind = "open" /\ ~line(k).excluded)}
        links   == UNION {(IF parents(k) = {} THEN {root} ELSE parents(k)) \X meant(line(k).name) : k \in pins}
        flat    == pins # {} /\ \A k \in pins : vias(k) = {}
    IN  Graph(Over([i \in {id(k) : k \in pins} |-> [Plain EXCEPT !.direct = <<root, i>> \in links]],
                   Only(root, [Plain EXCEPT !.flat = flat, !.count = Cardinality(open) + Len(r.unfollowed),
                                            !.open = {line(k).name : k \in {j \in open : line(j).kind = "open"}}])),
              links, {root})

ReadRequirements(doc) == GraphOfLines(doc, ReadFiles(doc))

-----------------------------------------------------------------------------
(***************************************************************************)
(* Pipfile, pyproject.toml or setup.py alone: what they declare is left to *)
(* the transitive expansion.                                               *)
(***************************************************************************)
\* References to the project's own extras and what does not apply on Linux are
\* passed over.
DeclaredInPyproject(doc) ==
    {d.name : d \in {e \in doc.declares : ~e.excluded /\ ~(e.extra /\ e.name = doc.name)}}

DeclaredInPipfile(doc) == {d.name : d \in doc.declares}

\* The list is taken to end at its first bracket, that of an extra included.
DeclaredInSetup(doc) ==
    {doc.items[i].name : i \in {j \in DOMAIN doc.items : /\ ~doc.items[j].excluded
                                                         /\ \A k \in 1..j : ~doc.items[k].bracket}}

ReadDeclared(doc, names) == Graph(Only(PyRoot(doc), [Leaves(names) EXCEPT !.flat = TRUE]), {}, {PyRoot(doc)})

-----------------------------------------------------------------------------
\* The entries of a lock, and what they ask for, are finite.
PyList(doc) ==
    /\ IsList(doc.packages)
    /\ \A i \in DOMAIN doc.packages : LET parts == doc.packages[i].parts IN \A t \in DOMAIN parts : IsFiniteSet(parts[t])

\* What a parser leaves of a file.
PypiFile(doc) ==
    CASE doc.format \in NamedLock \cup {"uv"} -> PyList(doc)
      [] doc.format = "pipfile" -> IsList(doc.packages)
      [] doc.format = "requirements" ->
            /\ IsList(doc.siblings) /\ doc.first \in DOMAIN doc.files
            /\ \A f \in DOMAIN doc.files : IsList(doc.files[f])
      [] doc.format \in {"Pipfile", "pyproject"} -> IsFiniteSet(doc.declares)
      [] doc.format = "setup.py" -> IsList(doc.items)
      [] OTHER -> FALSE

\* inputPath: the first of the files there are, in this order.
PyFormats == <<"uv", "poetry", "pdm", "pylock", "pipfile", "requirements", "Pipfile", "pyproject", "setup.py">>

PyFails(doc) ==
    CASE doc.format = "uv" -> Len(doc.packages) = 0
      [] doc.format \in NamedLock -> Len(doc.packages) = 0
      [] doc.format = "pipfile" -> PipfileFails(doc)
      [] doc.format = "requirements" -> RequirementsFail(doc)
      [] OTHER -> FALSE

ReadPypi(doc) ==
    CASE doc.format = "uv" -> ReadUv(doc)
      [] doc.format = "poetry" -> ReadPoetry(doc)
      [] doc.format = "pdm" -> ReadPdm(doc)
      [] doc.format = "pylock" -> ReadPylock(doc)
      [] doc.format = "pipfile" -> ReadPipfile(doc)
      [] doc.format = "requirements" -> ReadRequirements(doc)
      [] doc.format = "Pipfile" -> ReadDeclared(doc, DeclaredInPipfile(doc))
      [] doc.format = "pyproject" -> ReadDeclared(doc, DeclaredInPyproject(doc))
      [] doc.format = "setup.py" -> ReadDeclared(doc, DeclaredInSetup(doc))

-----------------------------------------------------------------------------
(***************************************************************************)
(* ReconstructDepth: among the packages a root links to, one that another  *)
(* requires is linked beneath it instead.  `requires` holds, by identity,  *)
(* the names that the packages whose metadata could be fetched require.    *)
(***************************************************************************)
Reconstruct(g, root, requires) ==
    LET pinned     == {e[2] : e \in {d \in g.edges : d[1] = root}}
        parents(x) == {z \in pinned \cap DOMAIN requires : z # x /\ x.name \in requires[z]}
        moved      == {x \in pinned : parents(x) # {}}
    IN  IF pinned = {} THEN g
        ELSE Graph([id \in DOMAIN g.at |->
                       IF id \in moved THEN [g.at[id] EXCEPT !.direct = FALSE]
                       ELSE IF id = root /\ moved = pinned THEN [g.at[id] EXCEPT !.flat = FALSE] ELSE g.at[id]],
                   (g.edges \ {<<root, x>> : x \in moved}) \cup UNION {parents(x) \X {x} : x \in moved},
                   g.roots)
=============================================================================
