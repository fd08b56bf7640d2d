------------------------------- MODULE Managers -------------------------------
(***************************************************************************)
(* External: what the package managers write down of an installation.  The *)
(* adapters in internal/ecosystem read these files back; their tests and   *)
(* comments quote them.                                                    *)
(*                                                                         *)
(* An installation is its packages <<name, version>> and its links: from   *)
(* the project, Top, or a package to the packages it uses, at most one of  *)
(* each name.  `git` are the packages that come from a repository, and     *)
(* `dir` is the project's directory.                                       *)
(***************************************************************************)
EXTENDS DepGraph

Top == <<"top", "0.0.0">>

Uses(T, p)    == {l[2] : l \in {k \in T.links : k[1] = p}}
UsedBy(T, p)  == {l[1] : l \in {k \in T.links : k[2] = p}}
NamesOf(S)    == {p[1] : p \in S}
VersionsOf(T, n) == {p \in T.pkgs : p[1] = n}

OneVersionEach(T) == Cardinality(NamesOf(T.pkgs)) = Cardinality(T.pkgs)

\* A cycle among the packages.
Cyclic(T) ==
    LET from[n \in 1..Cardinality(T.pkgs)] ==
            IF n = 1 THEN T.links
            ELSE LET before == from[n - 1]
                 IN  before \cup {l \in T.pkgs \X T.pkgs : \E q \in T.pkgs : <<l[1], q>> \in before /\ <<q, l[2]>> \in before}
    IN  T.pkgs # {} /\ \E p \in T.pkgs : <<p, p>> \in from[Cardinality(T.pkgs)]

First(p, q) == \/ Order[p[1]] < Order[q[1]]
               \/ p[1] = q[1] /\ Order[p[2]] < Order[q[2]]

\* The packages in the order a lockfile lists them, the project first where it is
\* listed at all.
InOrder(S) == [k \in 1..Cardinality(S) |-> CHOOSE p \in S : Cardinality({q \in S : First(q, p)}) = k - 1]

List(T, entry(_)) == [k \in 1..Cardinality(T.pkgs) |-> entry(InOrder(T.pkgs)[k])]

Origin(T, p, registry) == IF p \in T.git THEN "git" ELSE registry

Doc(T, eco, format) == [eco |-> eco, format |-> format, dir |-> T.dir, name |-> T.dir, ver |-> "0.0.0"]

-----------------------------------------------------------------------------
\* npm puts one version of a name at the top, the project's own if it has one, and
\* nests the others beneath each package that uses them.
AtTop(T, n) ==
    LET own == {p \in Uses(T, Top) : p[1] = n}
    IN  IF own # {} THEN CHOOSE p \in own : TRUE
        ELSE CHOOSE p \in VersionsOf(T, n) : \A q \in VersionsOf(T, n) : ~First(q, p)

PlacesOf(T, p) == IF p = AtTop(T, p[1]) THEN {<<p[1]>>} ELSE {<<u[1], p[1]>> : u \in UsedBy(T, p)}

AtPlaces(T, entry) ==
    [place \in UNION {PlacesOf(T, p) : p \in T.pkgs} |-> entry[CHOOSE p \in T.pkgs : place \in PlacesOf(T, p)]]

WriteNpm(T, layout) ==
    [layout |-> layout, deps |-> NamesOf(Uses(T, Top)), dev |-> {}, optional |-> {}, peer |-> {}, members |-> {},
     at |-> AtPlaces(T, [p \in T.pkgs |-> [name |-> Empty, ver |-> p[2], ref |-> Origin(T, p, "http"), needs |-> NamesOf(Uses(T, p))]])]

WriteBun(T) ==
    [deps |-> NamesOf(Uses(T, Top)),
     at |-> AtPlaces(T, [p \in T.pkgs |-> [name |-> p[1], ver |-> p[2], ref |-> Origin(T, p, "registry"), needs |-> NamesOf(Uses(T, p))]])]

WritePnpm(T) ==
    [packages |-> T.pkgs, direct |-> Uses(T, Top), snapshots |-> {l \in T.links : l[1] # Top}]

\* yarn has an entry for each range; here a package asks for the version it gets.
Descriptor(p) == [name |-> p[1], of |-> Empty, range |-> p[2]]

WriteYarn(T) ==
    [wants |-> {Descriptor(p) : p \in Uses(T, Top)},
     entries |-> List(T, LAMBDA p : [descriptors |-> <<Descriptor(p)>>, ver |-> p[2], ref |-> Origin(T, p, "http"),
                                     wants |-> {Descriptor(q) : q \in Uses(T, p)}])]

-----------------------------------------------------------------------------
\* uv and cargo add what tells two versions of a name apart, only where there are.
Told(T, S) == {[name |-> p[1], ver |-> IF Cardinality(VersionsOf(T, p[1])) > 1 THEN p[2] ELSE NoVersion, ref |-> Empty] : p \in S}

WriteUv(T) ==
    [packages |-> <<[name |-> T.dir, ver |-> "0.0.0", ref |-> "editable",
                    parts |-> ("dependencies" :> Told(T, Uses(T, Top))) @@ ("metadata" :> Told(T, T.pkgs))]>>
        \o List(T, LAMBDA p : [name |-> p[1], ver |-> p[2], ref |-> Origin(T, p, "registry"),
                               parts |-> "dependencies" :> Told(T, Uses(T, p))])]

WriteCargo(T) ==
    [packages |-> List(T, LAMBDA p : [name |-> p[1], ver |-> p[2], ref |-> Origin(T, p, "registry"), needs |-> Told(T, Uses(T, p))])
        \o <<[name |-> T.dir, ver |-> "0.0.0", ref |-> Empty, needs |-> Told(T, Uses(T, Top))]>>]

\* poetry, pdm and pip record the names alone; Pipfile.lock, and requirements that
\* pip freeze wrote, not even those.
WriteNames(T) ==
    [packages |-> List(T, LAMBDA p : [name |-> p[1], ver |-> p[2], ref |-> Origin(T, p, Empty),
                                      origins |-> IF p \in T.git THEN {"vcs"} ELSE {"index", "sdist", "wheels"},
                                      parts |-> "dependencies" :> NamesOf(Uses(T, p))])]

WriteFlat(T) == [packages |-> List(T, LAMBDA p : [name |-> p[1], ver |-> p[2], ref |-> Empty, deps |-> {}])]

\* Requirements with the package each is there for, where it is not the project.
Pinned(T, p, via) ==
    <<[kind |-> "pin", name |-> p[1], ver |-> p[2]]>>
        \o (IF via THEN LET U == InOrder(UsedBy(T, p) \ {Top})
                        IN  [k \in 1..Len(U) |-> [kind |-> "via", name |-> U[k][1]]]
            ELSE <<>>)

WriteRequirements(T, via) ==
    LET P == InOrder(T.pkgs)
        text[k \in 0..Len(P)] == IF k = 0 THEN <<>> ELSE text[k - 1] \o Pinned(T, P[k], via)
    IN  [files |-> [f \in {"requirements.txt"} |-> text[Len(P)]], first |-> "requirements.txt", siblings |-> <<>>]

-----------------------------------------------------------------------------
WriteComposer(T) ==
    [packages |-> List(T, LAMBDA p : [name |-> p[1], ver |-> p[2], ref |-> Origin(T, p, "registry"), needs |-> NamesOf(Uses(T, p))])]

WriteGems(T) == [directs |-> NamesOf(Uses(T, Top))] @@ WriteComposer(T)

Entry(T, p, needs) == [type |-> IF <<Top, p>> \in T.links THEN "Direct" ELSE "Transitive", ver |-> p[2], needs |-> needs]

WriteNuget(T) ==
    [frameworks |-> <<[n \in NamesOf(T.pkgs) |->
        LET p == CHOOSE q \in T.pkgs : q[1] = n IN Entry(T, p, Uses(T, p))]>>]

WriteAssets(T) == [frameworks |-> <<[p \in T.pkgs |-> [type |-> "package", needs |-> Uses(T, p)]]>>]

WriteGoMod(T) ==
    [text |-> <<[kind |-> "opensRequire"]>>
        \o List(T, LAMBDA p : [kind |-> "entry", mod |-> p[1], ver |-> p[2], indirect |-> <<Top, p>> \notin T.links])]

-----------------------------------------------------------------------------
\* The formats: the manager's, whether it can hold an installation, and what it writes.
LockFormat ==
    { <<"npm", "package-lock">>, <<"npm", "package-lock v1">>, <<"npm", "pnpm">>, <<"npm", "yarn">>, <<"npm", "bun">>,
      <<"pypi", "uv">>, <<"pypi", "poetry">>, <<"pypi", "pdm">>, <<"pypi", "pylock">>, <<"pypi", "pipfile">>,
      <<"pypi", "requirements">>, <<"pypi", "freeze">>,
      <<"cargo", "Cargo.lock">>, <<"composer", "composer.lock">>, <<"gem", "Gemfile.lock">>,
      <<"nuget", "packages.lock.json">>, <<"nuget", "project.assets.json">>, <<"nuget", "paket.lock">>,
      <<"gomod", "go.mod">> }

Holds(format, T) ==
    format \in {"package-lock", "package-lock v1", "pnpm", "yarn", "bun", "uv", "Cargo.lock"} \/ OneVersionEach(T)

Write(f, T) ==
    LET d == Doc(T, f[1], f[2])
    IN  CASE f[2] = "package-lock"        -> WriteNpm(T, 3) @@ d
          [] f[2] = "package-lock v1"     -> [WriteNpm(T, 1) @@ d EXCEPT !.format = "package-lock"]
          [] f[2] = "pnpm"                -> WritePnpm(T) @@ d
          [] f[2] = "yarn"                -> WriteYarn(T) @@ d
          [] f[2] = "bun"                 -> WriteBun(T) @@ d
          [] f[2] = "uv"                  -> WriteUv(T) @@ d
          [] f[2] \in {"poetry", "pdm", "pylock"} -> WriteNames(T) @@ d
          [] f[2] = "pipfile"             -> WriteFlat(T) @@ d
          [] f[2] = "requirements"        -> WriteRequirements(T, TRUE) @@ d
          [] f[2] = "freeze"              -> [WriteRequirements(T, FALSE) @@ d EXCEPT !.format = "requirements"]
          [] f[2] = "Cargo.lock"          -> WriteCargo(T) @@ d
          [] f[2] \in {"composer.lock", "paket.lock"} -> WriteComposer(T) @@ d
          [] f[2] = "Gemfile.lock"        -> WriteGems(T) @@ d
          [] f[2] = "packages.lock.json"  -> WriteNuget(T) @@ d
          [] f[2] = "project.assets.json" -> WriteAssets(T) @@ d
          [] f[2] = "go.mod"              -> WriteGoMod(T) @@ d
=============================================================================
