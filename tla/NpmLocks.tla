------------------------------- MODULE NpmLocks -------------------------------
(***************************************************************************)
(* How the npm adapter (internal/ecosystem/npm) turns the files of a       *)
(* project into a graph: package-lock.json in its two layouts,             *)
(* pnpm-lock.yaml, yarn.lock, bun.lock and, without any, package.json.     *)
(*                                                                         *)
(* A file is kept to the names, versions, origins and dependencies it      *)
(* records.  A place in node_modules is the sequence of package names that *)
(* leads there; `at` of a file is a function on places.                    *)
(***************************************************************************)
EXTENDS DepGraph

NpmId(name, ver, class) == Id("npm", name, ver, class)

\* A project's own node.
NpmRoot(doc) == NpmId(doc.name, doc.ver, "none")

\* classifyResolved: every http origin is a registry.
ClassifyResolved(ref) ==
    CASE ref = Empty -> "none" [] ref = "http" -> "registry" [] OTHER -> ClassifyRef(ref)

Leading(place, k) == SubSeq(place, 1, k)
Last(place)       == place[Len(place)]

\* The order of the places as strings.
PlaceBefore(p, q) ==
    \E k \in 0..Len(p) :
        /\ k <= Len(q) /\ Leading(p, k) = Leading(q, k)
        /\ \/ k = Len(p) /\ k < Len(q)
           \/ k < Len(p) /\ k < Len(q) /\ Order[p[k + 1]] < Order[q[k + 1]]

\* The nearest place at or above `place` that has the name; <<>> if none does.
Nearest(at, place, name) ==
    LET above == {k \in 0..Len(place) : Append(Leading(place, k), name) \in DOMAIN at}
    IN  IF above = {} THEN <<>> ELSE Append(Leading(place, Max(above)), name)

-----------------------------------------------------------------------------
(***************************************************************************)
(* package-lock.json, lockfileVersion 2 and 3 (resolveV2).  A workspace    *)
(* member lies at a place of its own, outside node_modules, and is linked  *)
(* into it by an entry without a version.  An entry's own name, if it has  *)
(* one, is its `name`.                                                     *)
(***************************************************************************)
EntryName(doc, p) == IF doc.at[p].name # Empty THEN doc.at[p].name
                     ELSE IF p \in doc.members THEN Empty ELSE Last(p)

EntryId(doc, p) == NpmId(EntryName(doc, p), doc.at[p].ver, ClassifyResolved(doc.at[p].ref))

\* A fault: a dependency is looked up at the top alone.
HoistedAtTop(doc, p, name) == IF <<name>> \in DOMAIN doc.at THEN <<name>> ELSE <<>>

\* resolveHoisted
Hoisted(doc, p, name) == Nearest(doc.at, p, name)

\* A dependency on an entry without a name or a version, as the link to a workspace
\* member is one: there is no node for it.
Dangles(e) == e[1].eco = "npm" /\ e[2].eco = "npm" /\ (e[2].name = Empty \/ e[2].ver = NoVersion)

ReadPackages(doc) ==
    LET root    == NpmRoot(doc)
        kept    == {p \in DOMAIN doc.at : EntryName(doc, p) # Empty /\ doc.at[p].ver # NoVersion}
        ids     == {EntryId(doc, p) : p \in kept}
        classes(id) == {ClassifyResolved(doc.at[p].ref) : p \in {q \in kept : EntryId(doc, q) = id}}
        direct  == doc.deps \cup doc.dev \cup doc.optional
        links(from, p, names) ==
            {<<from, EntryId(doc, Hoisted(doc, p, n))>> : n \in {m \in names : Hoisted(doc, p, m) # <<>>}}
    IN  Graph(Over(Only(root, Plain),
                   [id \in ids |-> [Plain EXCEPT !.direct = id.name \in direct, !.class = CHOOSE c \in classes(id) : TRUE]]),
              links(root, <<>>, direct \cup doc.peer)
                \cup UNION {links(EntryId(doc, p), p, doc.at[p].needs) : p \in kept},
              {root})

-----------------------------------------------------------------------------
(***************************************************************************)
(* package-lock.json, lockfileVersion 1 (resolveV1): a tree of nested      *)
(* dependencies, with what each requires.  What lies at the top counts as  *)
(* the project's own dependency.                                           *)
(***************************************************************************)
ReadTree(doc) ==
    LET root   == NpmRoot(doc)
        walked == {p \in DOMAIN doc.at : \A k \in 1..Len(p) : doc.at[Leading(p, k)].ver # NoVersion}
        idAt(p) == IF p = <<>> THEN root ELSE NpmId(Last(p), doc.at[p].ver, "none")
        first(id) == CHOOSE p \in walked : /\ idAt(p) = id
                                           /\ \A q \in walked : idAt(q) = id => ~PlaceBefore(q, p)
        versioned == [p \in {q \in DOMAIN doc.at : doc.at[q].ver # NoVersion} |-> doc.at[p]]
        required(p) == {Nearest(versioned, p, n) : n \in doc.at[p].needs} \ {<<>>}
    IN  Graph(Over(Only(root, Plain),
                   [id \in {idAt(p) : p \in walked} |-> [Plain EXCEPT !.direct = Len(first(id)) = 1]]),
              {<<idAt(Leading(p, Len(p) - 1)), idAt(p)>> : p \in walked}
                \cup UNION {{<<idAt(p), idAt(q)>> : q \in required(p)} : p \in walked},
              {root})

-----------------------------------------------------------------------------
(***************************************************************************)
(* pnpm-lock.yaml (parsePnpmLock).  The direct dependencies of all         *)
(* importers are the root's.  What cannot be resolved is recorded by name, *)
(* without a count.  A lockfile without packages is an error.              *)
(***************************************************************************)
PnpmFails(doc) == doc.packages = {}

ReadPnpm(doc) ==
    LET root   == NpmRoot(doc)
        id(p)  == NpmId(p[1], p[2], "registry")
        links  == {<<root, id(d)>> : d \in doc.direct \cap doc.packages}
                    \cup {<<id(s[1]), id(s[2])>> : s \in {t \in doc.snapshots : {t[1], t[2]} \subseteq doc.packages}}
        lost   == {d[1] : d \in doc.direct \ doc.packages}
    IN  AttachUnrooted(
            Graph(Over(Only(root, [Plain EXCEPT !.open = lost]),
                       [n \in {id(p) : p \in doc.packages} |->
                           [Plain EXCEPT !.direct = <<root, n>> \in links, !.class = "registry"]]),
                  links, {root}),
            root)

-----------------------------------------------------------------------------
(***************************************************************************)
(* yarn.lock (parseYarnLock).  An entry stands for descriptors: a name and *)
(* a range.  A range that is an alias, "npm:of@range", names another       *)
(* package in `of`; otherwise `of` is Empty.                               *)
(***************************************************************************)
YarnName(e) == IF e.descriptors[1].of # Empty THEN e.descriptors[1].of ELSE e.descriptors[1].name

YarnId(e) == NpmId(YarnName(e), e.ver, ClassifyResolved(e.ref))

\* The entries that are packages and have a version.
YarnEntries(doc) ==
    {i \in DOMAIN doc.entries : /\ doc.entries[i].descriptors[1].range \notin {"workspace", "portal", "link"}
                                /\ doc.entries[i].ver # NoVersion}

\* resolveYarnDep: the last entry for the descriptor, an alias counting for its
\* target too; else the only package of the name.
YarnDep(doc, want) ==
    LET stands(i) == \E d \in {doc.entries[i].descriptors[k] : k \in DOMAIN doc.entries[i].descriptors} :
                        \/ d = want
                        \/ d.of # Empty /\ [name |-> d.of, of |-> Empty, range |-> d.range] = want
        matching  == {i \in YarnEntries(doc) : stands(i)}
        named     == {YarnId(doc.entries[i]) : i \in {j \in YarnEntries(doc) : YarnName(doc.entries[j]) = want.name}}
    IN  IF matching # {} THEN {YarnId(doc.entries[Max(matching)])}
        ELSE IF Cardinality(named) = 1 THEN named ELSE {}

\* resolveNpmAlias
Unaliased(want) == IF want.of = Empty THEN want ELSE [name |-> want.of, of |-> Empty, range |-> want.range]

ReadYarn(doc) ==
    LET root   == NpmRoot(doc)
        E      == {doc.entries[i] : i \in YarnEntries(doc)}
        direct == UNION {YarnDep(doc, Unaliased(w)) : w \in doc.wants}
        at     == Over(Only(root, Plain),
                       [id \in {YarnId(e) : e \in E} |->
                           [Plain EXCEPT !.direct = id \in direct,
                                         !.class = ClassifyResolved((CHOOSE e \in E : YarnId(e) = id).ref)]])
        links  == UNION {{<<YarnId(e), to>> : to \in UNION {YarnDep(doc, w) : w \in e.wants}} : e \in E}
        g      == Graph(at, links \cup {<<root, to>> : to \in direct}, {root})
    IN  IF direct = {} THEN AttachUnneeded(g, root, DOMAIN g.at) ELSE g

-----------------------------------------------------------------------------
(***************************************************************************)
(* bun.lock (parseBunLock).  The packages are filed by name, the last      *)
(* place of a name over the others, for both ends of an edge.              *)
(***************************************************************************)
BunClass(ref) == CASE ref = Empty -> "none" [] ref = "http" -> "url" [] ref \in {"git", "path"} -> ref [] OTHER -> "registry"

\* The version part of a descriptor is the origin where there is one.
BunId(e) == NpmId(e.name, e.ver, "none")

ReadBun(doc) ==
    LET root   == NpmId(doc.name, "0.0.0", "none")
        P      == DOMAIN doc.at
        named(n) == {p \in P : doc.at[p].name = n}
        byName(n) == BunId(doc.at[CHOOSE p \in named(n) : \A q \in named(n) : ~PlaceBefore(p, q)])
        links(from, names) == {<<from, byName(n)>> : n \in {m \in names : named(m) # {}}}
        first(id) == CHOOSE p \in P : BunId(doc.at[p]) = id
    IN  Graph(Over(Only(root, Plain),
                   [id \in {BunId(doc.at[p]) : p \in P} |->
                       [Plain EXCEPT !.direct = id.name \in doc.deps, !.class = BunClass(doc.at[first(id)].ref)]]),
              links(root, doc.deps) \cup UNION {links(byName(doc.at[p].name), doc.at[p].needs) : p \in P},
              {root})

-----------------------------------------------------------------------------
(***************************************************************************)
(* package.json alone (parseManifest): everything it declares is left to   *)
(* the transitive expansion, and counted as unresolved until then.  Its    *)
(* devDependencies are not read, and a manifest without others is not      *)
(* claimed at all.                                                         *)
(***************************************************************************)
ReadManifest(doc) ==
    LET root == NpmRoot(doc)
    IN  Graph(Only(root, [Plain EXCEPT !.open = doc.runtime \cup doc.optional,
                                       !.count = Cardinality(doc.runtime) + Cardinality(doc.optional), !.flat = TRUE]),
              {}, {root})

-----------------------------------------------------------------------------
\* What a parser leaves of a file; the places of an old package-lock.json are nested.
NpmFile(doc) ==
    CASE doc.format = "package-lock" ->
            /\ IsFiniteSet(DOMAIN doc.at) /\ DOMAIN doc.at \subseteq Seq(DOMAIN Order)
            /\ doc.layout = 1 => \A p \in DOMAIN doc.at : p # <<>> /\ \A k \in 1..Len(p) : Leading(p, k) \in DOMAIN doc.at
      [] doc.format = "pnpm"         -> IsFiniteSet(doc.packages)
      [] doc.format = "yarn"         -> IsList(doc.entries)
      [] doc.format = "bun"          -> IsFiniteSet(DOMAIN doc.at) /\ DOMAIN doc.at \subseteq Seq(DOMAIN Order)
      [] doc.format = "package.json" -> IsFiniteSet(doc.runtime) /\ IsFiniteSet(doc.optional)
      [] OTHER -> FALSE

\* Resolve: the first of the files there are, in this order.
NpmFormats == <<"package-lock", "pnpm", "yarn", "bun", "package.json">>

ReadNpm(doc) ==
    CASE doc.format = "package-lock" -> IF doc.layout = 1 THEN ReadTree(doc) ELSE ReadPackages(doc)
      [] doc.format = "pnpm"         -> ReadPnpm(doc)
      [] doc.format = "yarn"         -> ReadYarn(doc)
      [] doc.format = "bun"          -> ReadBun(doc)
      [] doc.format = "package.json" -> ReadManifest(doc)
=============================================================================
