------------------------------ MODULE OtherLocks ------------------------------
(***************************************************************************)
(* How the cargo, composer, rubygems, nuget, gomod and clojure adapters    *)
(* (internal/ecosystem) turn the files of a project into a graph.  A file  *)
(* is kept to the names, versions, origins and dependencies it records;    *)
(* "registry" stands for an origin that its format says is one.            *)
(***************************************************************************)
EXTENDS DepGraph

\* rootNode of composer, rubygems and nuget: the directory's name.
DirRoot(doc) == Id(doc.eco, doc.dir, "0.0.0", "none")

\* The class of an origin, `absent` where there is none.
ClassOr(ref, absent) ==
    CASE ref = Empty -> absent [] ref = "registry" -> "registry" [] OTHER -> ClassifyRef(ref)

PkgId(doc, p) == Id(doc.eco, p.name, p.ver, "none")

\* The entry that a name means among the entries V of a list: the last.
Meant(list, V, name) ==
    {i \in V : list[i].name = name /\ \A j \in V : list[j].name = name => j <= i}

\* The edges between packages of a list that is keyed by name, at both ends.
NameLinks(doc, V) ==
    LET id(i) == PkgId(doc, doc.packages[i])
        to(i) == UNION {Meant(doc.packages, V, n) : n \in doc.packages[i].needs}
    IN  {e \in UNION {{<<id(f), id(t)>> : f \in Meant(doc.packages, V, doc.packages[i].name), t \in to(i)} : i \in V} :
            e[1] # e[2]}

\* A manifest alone: all it declares is left to the transitive expansion.
ReadNames(doc, names) == Graph(Only(DirRoot(doc), [Leaves(names) EXCEPT !.flat = TRUE]), {}, {DirRoot(doc)})

-----------------------------------------------------------------------------
(***************************************************************************)
(* Cargo.lock (parseCargoLock).  Entries are told apart by name, version   *)
(* and source; without a source one is a member of the workspace.  A       *)
(* dependency carries a version and a source only where it needs them.     *)
(***************************************************************************)
CargoId(k) == Id("cargo", k.name, k.ver, ClassOr(k.ref, "path"))

Keys(doc) == {[name |-> e.name, ver |-> e.ver, ref |-> e.ref] :
                  e \in {doc.packages[i] : i \in {j \in DOMAIN doc.packages : doc.packages[j].ver # NoVersion}}}

\* The entries a dependency could mean.
Candidates(doc, d) == {k \in Keys(doc) : /\ k.name = d.name
                                         /\ d.ver # NoVersion => k.ver = d.ver
                                         /\ d.ver # NoVersion /\ d.ref # Empty => k.ref = d.ref}

\* resolveDep: the only candidate, or none.
ResolveDep(doc, d) ==
    IF Cardinality(Candidates(doc, d)) = 1 THEN {CargoId(k) : k \in Candidates(doc, d)} ELSE {}

\* cargoRoots: the members nothing depends on, else all members; without members
\* the crates nothing depends on, else the first.
CargoRoots(doc, ids, local, edges, collided) ==
    LET top(S) == {id \in S : id \notin collided /\ \A e \in edges : e[2] # id}
    IN  CASE local # {} -> IF top(local) # {} THEN top(local) ELSE local
          [] OTHER      -> IF top(ids) # {} THEN top(ids) ELSE {CargoId(doc.packages[1])} \cap ids

ReadCargo(doc) ==
    LET K        == Keys(doc)
        ids      == {CargoId(k) : k \in K}
        E        == {doc.packages[i] : i \in {j \in DOMAIN doc.packages : doc.packages[j].ver # NoVersion}}
        wants(id) == UNION {e.needs : e \in {x \in E : CargoId(x) = id}}
        edges    == {e \in UNION {{<<id, to>> : to \in UNION {ResolveDep(doc, d) : d \in wants(id)}} : id \in ids} :
                        e[1] # e[2]}
        lost(id) == {d.name : d \in {w \in wants(id) : /\ ResolveDep(doc, w) = {}
                                                       /\ Cardinality({k \in K : k.name = w.name}) > 1}}
        collided == {id \in ids : \E i, j \in DOMAIN doc.packages :
                        /\ i # j /\ CargoId(doc.packages[i]) = id
                        /\ \A f \in {"name", "ver", "ref"} : doc.packages[i][f] = doc.packages[j][f]}
        class(id) == IF id \in collided THEN "unknown"
                     ELSE ClassOr((CHOOSE k \in K : CargoId(k) = id).ref, "path")
        roots    == CargoRoots(doc, ids, {CargoId(k) : k \in {c \in K : c.ref = Empty}}, edges, collided)
        direct   == {e[2] : e \in {x \in edges : x[1] \in roots}}
        g        == Graph([id \in ids |-> [Leaves(lost(id)) EXCEPT !.class = class(id), !.direct = id \in direct]],
                          edges, roots)
    IN  Rename(g, [id \in roots |-> [id EXCEPT !.src = "registry"]])

-----------------------------------------------------------------------------
(***************************************************************************)
(* composer.lock (parseComposerLock): `packages` is both of its lists.     *)
(* Every package is the root's own until another requires it.              *)
(***************************************************************************)
HasVersion(doc) == {i \in DOMAIN doc.packages : doc.packages[i].ver # NoVersion}

\* The class a package's last entry gives it.
LastClass(doc, id, absent) ==
    ClassOr(doc.packages[Max({i \in HasVersion(doc) : PkgId(doc, doc.packages[i]) = id})].ref, absent)

ReadComposer(doc) ==
    LET root   == DirRoot(doc)
        ids    == {PkgId(doc, doc.packages[i]) : i \in HasVersion(doc)}
        links  == NameLinks(doc, HasVersion(doc))
        direct == ids \ {e[2] : e \in links}
    IN  Graph(Over(Only(root, Plain),
                   [id \in ids |-> [Plain EXCEPT !.direct = id \in direct, !.class = LastClass(doc, id, "none")]]),
              links \cup {<<root, id>> : id \in direct}, {root})

\* parseComposerManifest: the platform (php, ext-*) is no package.
ReadComposerManifest(doc) == ReadNames(doc, doc.names \ doc.platform)

-----------------------------------------------------------------------------
(***************************************************************************)
(* Gemfile.lock (parseGemfileLock): the section a gem stands in is its     *)
(* origin.  A gem locked for several platforms has an entry for each.      *)
(***************************************************************************)
ReadGems(doc) ==
    LET root   == DirRoot(doc)
        V      == HasVersion(doc)
        id(i)  == PkgId(doc, doc.packages[i])
        ids    == {id(i) : i \in V}
        meant  == {id(i) : i \in UNION {Meant(doc.packages, V, doc.packages[j].name) : j \in V}}
        links  == NameLinks(doc, V) \cup {<<root, x>> : x \in {y \in meant : y.name \in doc.directs}}
    IN  AttachUnneeded(
            Graph(Over(Only(root, Plain),
                       [x \in ids |-> [Plain EXCEPT !.direct = x.name \in doc.directs, !.class = LastClass(doc, x, "none")]]),
                  links, {root}),
            root, meant)

\* parseGemfile
ReadGemfile(doc) == ReadNames(doc, doc.names)

-----------------------------------------------------------------------------
(***************************************************************************)
(* nuget.  packages.lock.json (parsePackagesLock) holds, for each target   *)
(* framework in order, an entry by name; project.assets.json               *)
(* (parseProjectAssets) one by name and version.                           *)
(***************************************************************************)
NuId(name, ver) == Id("nuget", name, ver, "none")

\* The entries with a version, as <<framework, name>>.
Locks(doc, f, n) == n \in DOMAIN doc.frameworks[f] /\ doc.frameworks[f][n].ver # NoVersion

Slots(doc) ==
    {s \in UNION {{f} \X DOMAIN doc.frameworks[f] : f \in DOMAIN doc.frameworks} : Locks(doc, s[1], s[2])}

SlotId(doc, s) == NuId(s[2], doc.frameworks[s[1]][s[2]].ver)

\* A dependency <<name, version>> means that package, else the framework's own of the name.
SlotTarget(doc, f, d) ==
    IF NuId(d[1], d[2]) \in {SlotId(doc, s) : s \in Slots(doc)} THEN {NuId(d[1], d[2])}
    ELSE IF Locks(doc, f, d[1]) THEN {SlotId(doc, <<f, d[1]>>)} ELSE {}

\* The first framework to lock a package says what kind it is.
SlotKind(doc, x) ==
    LET s == CHOOSE s \in Slots(doc) : SlotId(doc, s) = x /\ \A t \in Slots(doc) : SlotId(doc, t) = x => s[1] <= t[1]
    IN  doc.frameworks[s[1]][s[2]].type

ReadPackagesLock(doc) ==
    LET root  == DirRoot(doc)
        ids   == {SlotId(doc, s) : s \in Slots(doc)}
        own   == {x \in ids : SlotKind(doc, x) = "Direct"}
        needs(s) == UNION {SlotTarget(doc, s[1], d) : d \in doc.frameworks[s[1]][s[2]].needs}
        links == UNION {{<<SlotId(doc, s), to>> : to \in needs(s)} : s \in Slots(doc)}
    IN  AttachUnneeded(
            Graph(Over(Only(root, Plain),
                       [x \in ids |-> [Plain EXCEPT !.direct = x \in own,
                                                    !.class = IF SlotKind(doc, x) = "Project" THEN "path" ELSE "registry"]]),
                  {e \in links : e[1] # e[2]} \cup {<<root, x>> : x \in own}, {root}),
            root, ids)

\* A dependency is an exact version here, and one that is no package of this or an
\* earlier framework is passed over.
ReadAssets(doc) ==
    LET root     == DirRoot(doc)
        F        == doc.frameworks
        lib(f)   == {p \in DOMAIN F[f] : F[f][p].type = "package"}
        known(f) == UNION {lib(h) : h \in 1..f}
        links    == UNION {UNION {{<<NuId(p[1], p[2]), NuId(d[1], d[2])>> : d \in F[f][p].needs \cap known(f)} :
                                     p \in lib(f)} : f \in DOMAIN F}
        ids      == {NuId(p[1], p[2]) : p \in known(Len(F))}
    IN  AttachUnneeded(
            Graph(Over(Only(root, Plain), [x \in ids |-> [Plain EXCEPT !.class = "registry"]]), links, {root}), root, ids)

\* paket.lock (parsePaketLock): a list, where a package of several groups counts
\* where it comes first.
ReadPaket(doc) ==
    LET root  == DirRoot(doc)
        id(i) == PkgId(doc, doc.packages[i])
        V     == {i \in HasVersion(doc) : \A j \in HasVersion(doc) : id(j) = id(i) => i <= j}
        named == UNION {Meant(doc.packages, V, doc.packages[i].name) : i \in V}
        links == UNION {{<<id(f), id(t)>> : f \in Meant(doc.packages, V, doc.packages[i].name),
                                            t \in UNION {Meant(doc.packages, V, n) : n \in doc.packages[i].needs}} :
                           i \in HasVersion(doc)}
    IN  AttachUnneeded(
            Graph(Over(Only(root, Plain), [x \in {id(i) : i \in V} |-> [Plain EXCEPT !.class = "registry"]]),
                  {e \in links : e[1] # e[2]}, {root}),
            root, {id(i) : i \in named})

\* readMSBuild: the files of a directory are read in turn and share one table of
\* central versions and one of properties; the last to set a name is heard.
LastSet(files, k, table, name, otherwise) ==
    LET S == {j \in 1..k : name \in DOMAIN files[j][table]}
    IN  IF S = {} THEN otherwise ELSE files[Max(S)][table][name]

\* msbuildScan.add: the version a reference in the k-th file is pinned to.  A range
\* is no version, nor is a property that nothing sets.
Concrete(files, k, ref) ==
    LET given == IF ref.ver = NoVersion /\ files[k].kind = "msbuild"
                 THEN LastSet(files, k, "versions", ref.name, NoVersion) ELSE ref.ver
        v == IF files[k].kind \in {"msbuild", "nuspec"} THEN LastSet(files, k, "props", given, given) ELSE given
    IN  IF v \in {"range", "$(property)"} THEN NoVersion ELSE v

\* parseMSBuildDir: those of the directories above, the outermost first, then the
\* directory's own by name, then its tools.
InReadingOrder(doc) == doc.above \o doc.own \o doc.tools

\* What the files refer to, as <<file, place>>.
References(files) == UNION {{k} \X DOMAIN files[k].refs : k \in DOMAIN files}

\* parsePackagesConfig: pinned packages, all direct.
ConfigPackages(doc) == {NuId(p[1], p[2]) : p \in doc.config}

\* build, and mergeDeclared with packages.config.
ReadProjectFiles(doc) ==
    LET root   == DirRoot(doc)
        files  == InReadingOrder(doc)
        name(r) == files[r[1]].refs[r[2]].name
        ver(r)  == Concrete(files, r[1], files[r[1]].refs[r[2]])
        pinned == {r \in References(files) : ver(r) # NoVersion}
        open   == References(files) \ pinned
        ids    == ConfigPackages(doc) \cup {NuId(name(r), ver(r)) : r \in pinned}
    IN  Graph(Over(Only(root, [Plain EXCEPT !.open = {name(r) : r \in open}, !.count = Cardinality(open),
                                            !.flat = doc.msbuild]),
                   [x \in ids |-> [Plain EXCEPT !.direct = TRUE, !.class = "registry"]]),
              {<<root, x>> : x \in ids}, {root})

-----------------------------------------------------------------------------
\* go.mod (parseGoMod): every requirement is linked to the module.
Go == INSTANCE GoMod WITH Module <- {}, Version <- {}, Rank <- Order

ReadGoMod(doc) ==
    LET root   == Id("gomod", doc.name, "0.0.0", "none")
        id(r)  == Id("gomod", r[1], r[2], "none")
        direct(r) == ~doc.text[Min({i \in Go!RequireLines(doc.text) : <<doc.text[i].mod, doc.text[i].ver>> = r})].indirect
        R      == Go!Requires(doc.text)
        nodes  == [x \in {id(r) : r \in R} |-> [Plain EXCEPT !.direct = direct(<<x.name, x.ver>>)]]
    IN  Graph(Over(nodes, Only(root, [Plain EXCEPT !.flat = R # {}])), {<<root, id(r)>> : r \in R}, {root})

\* project.clj and deps.edn: what has no version and comes from a registry is left
\* to the transitive expansion;
OpenIn(doc) == {d \in doc.declares : d.ver = NoVersion /\ d.source = "registry"}

\* what cannot be read is counted with it.
ReadClojure(doc) ==
    LET root  == Id("maven", doc.name, doc.ver, "none")
        closed == doc.declares \ OpenIn(doc)
        id(d) == Id("maven", d.name, d.ver, "none")
        names == {d.name : d \in OpenIn(doc)}
        source(x) == (CHOOSE d \in doc.declares : id(d) = x).source
    IN  Graph(Over([x \in {id(d) : d \in closed} |-> [Plain EXCEPT !.direct = TRUE, !.class = source(x)]],
                   Only(root, [Plain EXCEPT !.open = names, !.count = Cardinality(names) + doc.unparsed, !.flat = TRUE])),
              {<<root, id(d)>> : d \in closed}, {root})

-----------------------------------------------------------------------------
\* Resolve of each adapter: the first of the files there are, in this order.
OtherFormats ==
    [cargo    |-> <<"Cargo.lock">>,
     composer |-> <<"composer.lock", "composer.json">>,
     gem      |-> <<"Gemfile.lock", "Gemfile">>,
     nuget    |-> <<"packages.lock.json", "project.assets.json", "paket.lock", "project-files">>,
     gomod    |-> <<"go.mod">>,
     clojure  |-> <<"clj">>]

\* What a parser leaves of a file; the first entry of a Cargo.lock has a version.
OtherFile(doc) ==
    /\ \E k \in DOMAIN OtherFormats[doc.eco] : OtherFormats[doc.eco][k] = doc.format
    /\ CASE doc.format = "Cargo.lock" ->
               /\ IsList(doc.packages) /\ (doc.packages # <<>> => doc.packages[1].ver # NoVersion)
               /\ \A i \in DOMAIN doc.packages : IsFiniteSet(doc.packages[i].needs)
         [] doc.format \in {"composer.lock", "Gemfile.lock", "paket.lock"} -> IsList(doc.packages)
         [] doc.format \in {"packages.lock.json", "project.assets.json"} ->
               IsList(doc.frameworks) /\ \A f \in DOMAIN doc.frameworks : IsFiniteSet(DOMAIN doc.frameworks[f])
         [] doc.format = "go.mod" -> IsList(doc.text)
         [] doc.format = "project-files" ->
               /\ IsList(doc.above) /\ IsList(doc.own) /\ IsList(doc.tools) /\ IsFiniteSet(doc.config)
               /\ \A k \in DOMAIN InReadingOrder(doc) : IsList(InReadingOrder(doc)[k].refs)
         [] doc.format = "clj" -> IsFiniteSet(doc.declares) /\ doc.unparsed \in Nat
         [] doc.format \in {"composer.json", "Gemfile"} -> IsFiniteSet(doc.names)
         [] OTHER -> TRUE

\* A lock file without packages is an error.
OtherFails(doc) ==
    CASE doc.format = "Cargo.lock" -> doc.packages = <<>>
      [] doc.format \in {"composer.lock", "Gemfile.lock", "paket.lock"} -> HasVersion(doc) = {}
      [] doc.format = "packages.lock.json" ->
            \A f \in DOMAIN doc.frameworks : \A n \in DOMAIN doc.frameworks[f] : doc.frameworks[f][n].ver = NoVersion
      [] doc.format = "project.assets.json" ->
            \A f \in DOMAIN doc.frameworks : \A p \in DOMAIN doc.frameworks[f] : doc.frameworks[f][p].type # "package"
      [] OTHER -> FALSE

ReadOther(doc) ==
    CASE doc.format = "Cargo.lock"          -> ReadCargo(doc)
      [] doc.format = "composer.lock"       -> ReadComposer(doc)
      [] doc.format = "Gemfile.lock"        -> ReadGems(doc)
      [] doc.format = "packages.lock.json"  -> ReadPackagesLock(doc)
      [] doc.format = "project.assets.json" -> ReadAssets(doc)
      [] doc.format = "paket.lock"          -> ReadPaket(doc)
      [] doc.format = "project-files"       -> ReadProjectFiles(doc)
      [] doc.format = "go.mod"              -> ReadGoMod(doc)
      [] doc.format = "clj"                 -> ReadClojure(doc)
      [] doc.format = "composer.json"       -> ReadComposerManifest(doc)
      [] doc.format = "Gemfile"             -> ReadGemfile(doc)
=============================================================================
