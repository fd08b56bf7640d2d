------------------------------ MODULE MCWorkspace ------------------------------
(***************************************************************************)
(* Scans of one project, in every format that can hold the installation:   *)
(* packages a, b in two versions and c, any of which may use the others    *)
(* (but b2, which uses nothing); and scans of trees of up to seven         *)
(* directories with projects, manifests and unread files in them.          *)
(***************************************************************************)
EXTENDS Workspace

MCOrder ==
    LET names == <<".github", "0.0.0", "1", "2", "a", "again", "app", "b", "build", "c", "classes", "git", "lib",
                   "node_modules",
                   "none", "path", "registry", "top", "unscanned", "url", "web", NoVersion>>
    IN  [n \in {names[k] : k \in DOMAIN names} |-> CHOOSE k \in DOMAIN names : names[k] = n]

MCHiddenName == {".github"}

a1 == <<"a", "1">>
b1 == <<"b", "1">>
b2 == <<"b", "2">>
c1 == <<"c", "1">>

Both == {b1, b2}

\* The installation in which each of Top, a1, b1 and c1 uses some packages.
Installation(dir, uses, git) ==
    LET from[n \in 0..4] == IF n = 0 THEN {Top} ELSE from[n - 1] \cup UNION {uses[p] : p \in from[n - 1] \ {b2}}
    IN  [dir |-> dir, pkgs |-> from[4] \ {Top}, git |-> git \cap from[4],
         links |-> UNION {{p} \X uses[p] : p \in from[4] \ {b2}}]

Installations ==
    {Installation("app", (Top :> t) @@ (a1 :> a) @@ (b1 :> b) @@ (c1 :> c), {}) :
        t \in {S \in SUBSET {a1, b1, b2, c1} : S # {} /\ ~Both \subseteq S},
        a \in {S \in SUBSET {b1, b2, c1} : ~Both \subseteq S},
        b \in SUBSET {a1, c1},
        c \in {{}, {a1}, {b2}}}

Publishes(T) == [p \in T.pkgs |-> NamesOf(Uses(T, p))]

Dir(docs, files, identity) == [docs |-> docs, files |-> files, identity |-> identity, readable |-> TRUE]

-----------------------------------------------------------------------------
\* One project alone, in the directory that is scanned.
Alone(f, T) ==
    [base |-> T.dir, publishes |-> Publishes(T), tree |-> <<>> :> Dir({Write(f, T)}, {}, 1), declares |-> {},
     holds |-> {[path |-> <<>>, eco |-> f[1], format |-> f[2], of |-> T]}]

OneInstallation == UNION {{Alone(f, T) : T \in {U \in Installations : Holds(f[2], U)}} : f \in LockFormat}

\* Three packages in a cycle that the project enters at one, and so on: what the
\* formats that hide cycles lose.
Ring == Installation("app", (Top :> {a1}) @@ (a1 :> {c1}) @@ (b1 :> {}) @@ (c1 :> {a1}), {})

CutOff == {Alone(f, Ring) : f \in {x \in LockFormat : x[2] \in CycleHides \cup {"poetry"}}}

-----------------------------------------------------------------------------
(***************************************************************************)
(* Trees.  In each directory of a skeleton stands one of some kinds of     *)
(* project, or nothing.                                                    *)
(***************************************************************************)
Simple(dir) == Installation(dir, (Top :> {a1}) @@ (a1 :> {c1}) @@ (b1 :> {}) @@ (c1 :> {}), {})
Forked(dir) == [Simple(dir) EXCEPT !.git = {c1}]

Small(dir) == Installation(dir, (Top :> {b1}) @@ (a1 :> {}) @@ (b1 :> {}) @@ (c1 :> {}), {})

Lock(dir, f, T) == [docs |-> {Write(f, T)}, holds |-> {[eco |-> f[1], format |-> f[2], of |-> T]},
                      files |-> {}, open |-> {}]
NoLock == [docs |-> {}, holds |-> {}, files |-> {}, open |-> {}]

Other(name, ext) == [name |-> name, ext |-> ext]

Stands(kind, dir) ==
    CASE kind = "nothing" -> NoLock
      [] kind \in {"yarn", "closed"} -> Lock(dir, <<"npm", "yarn">>, Simple(dir))
      [] kind = "pinned" -> Lock(dir, <<"pypi", "pipfile">>, Simple(dir))
      [] kind = "fork" -> Lock(dir, <<"cargo", "Cargo.lock">>, Forked(dir))
      [] kind = "crate" -> Lock(dir, <<"cargo", "Cargo.lock">>, Small(dir))
      [] kind = "settings" -> [NoLock EXCEPT !.files = {Other("Custom.props", ".props"), Other("Cargo.lock", ".lock")}]
      [] kind = "pom" -> [NoLock EXCEPT !.files = {Other("pom.xml", ".xml")}]
      [] kind = "csproj" -> [NoLock EXCEPT !.files = {Other("web.csproj", ".csproj"), Other("mcp.json", ".json")}]
      [] kind = "unknown lock" -> [NoLock EXCEPT !.files = {Other("rebar.lock", ".lock")}]
      [] kind = "yarn and pom" -> [Lock(dir, <<"npm", "yarn">>, Simple(dir)) EXCEPT !.files = {Other("pom.xml", ".xml")}]
      [] kind = "Gemfile" -> [NoLock EXCEPT !.docs = {[eco |-> "gem", format |-> "Gemfile", dir |-> dir, names |-> {"b"}]},
                                            !.open = {[eco |-> "gem", node |-> "gem", name |-> "b"]}]
      [] kind = "empty lock" -> [NoLock EXCEPT !.docs = {[eco |-> "composer", format |-> "composer.lock", dir |-> dir,
                                                          packages |-> <<>>]}]

\* `kinds` says what stands where, and `shows` which places a mount puts elsewhere too.
Tree(kinds, shows) ==
    LET name(p) == IF p = <<>> THEN "app" ELSE Last(p)
        there(p) == IF p \in DOMAIN shows THEN shows[p] ELSE p
        at(p) == Stands(kinds[there(p)], name(p))
        number(p) == Cardinality({q \in DOMAIN kinds : ~PlaceBefore(there(p), q)})
        P == {p \in DOMAIN kinds : kinds[p] # "closed"}
    IN  [base |-> "app", publishes |-> Publishes(Simple("app")),
         tree |-> [p \in DOMAIN kinds |-> [docs |-> at(p).docs, files |-> at(p).files, identity |-> number(p),
                                           readable |-> kinds[there(p)] # "closed"]],
         holds |-> UNION {{h @@ [path |-> p] : h \in at(p).holds} : p \in P \ DOMAIN shows},
         declares |-> UNION {{d @@ [path |-> p] : d \in at(p).open} : p \in P \ DOMAIN shows}]

MonoRepo ==
    {Tree((<<>> :> top) @@ (<<"web">> :> web) @@ (<<"build">> :> build) @@ (<<"build", "web">> :> copy)
            @@ (<<"build", "classes">> :> out) @@ (<<"node_modules">> :> "yarn") @@ (<<".github">> :> "pom"), <<>>) :
        top \in {"nothing", "yarn and pom", "Gemfile"},
        web \in {"nothing", "yarn", "Gemfile", "pinned", "fork"},
        build \in {"nothing", "closed"},
        copy \in {"nothing", "Gemfile", "pinned", "empty lock"},
        out \in {"nothing", "pom"}}

\* Two projects of one ecosystem in directories of one name: they have one root.
Namesakes ==
    {Tree((<<>> :> "nothing") @@ (<<"web">> :> web) @@ (<<"build">> :> "nothing") @@ (<<"build", "web">> :> copy), <<>>) :
        web \in {"fork", "crate"}, copy \in {"fork", "crate"}}

MountLoop ==
    {Tree((<<>> :> top) @@ (<<"web">> :> web) @@ (<<"web", "again">> :> "nothing"), <<"web", "again">> :> <<>>) :
        top \in {"yarn", "Gemfile", "pom"}, web \in {"settings", "yarn", "csproj", "unknown lock"}}

\* What lies in web is mounted at a place that the walk meets first.
MountTwice ==
    {Tree((<<>> :> top) @@ (<<"web">> :> web) @@ (<<"web", "classes">> :> inner)
            @@ (<<"again">> :> "nothing") @@ (<<"again", "classes">> :> "nothing"),
          (<<"again">> :> <<"web">>) @@ (<<"again", "classes">> :> <<"web", "classes">>)) :
        top \in {"yarn", "Gemfile"}, web \in {"nothing", "yarn", "csproj"}, inner \in {"nothing", "pom", "pinned"}}

-----------------------------------------------------------------------------
(***************************************************************************)
(* Files that ask for more than they pin.                                  *)
(***************************************************************************)
Asks(doc, node, names) ==
    [base |-> "app", publishes |-> [p \in {a1, b1, b2, c1} |-> {}], tree |-> <<>> :> Dir({doc}, {}, 1), holds |-> {},
     declares |-> {[path |-> <<>>, eco |-> doc.eco, node |-> node, name |-> n] : n \in names}]

App == [dir |-> "app", name |-> "app", ver |-> "0.0.0"]
File(eco, format) == [eco |-> eco, format |-> format] @@ App

Uv(name, ver, ref, parts) == [name |-> name, ver |-> ver, ref |-> ref, parts |-> parts]
Want(name, ver) == [name |-> name, ver |-> ver, ref |-> ""]
Refer(name, ver) == [name |-> name, ver |-> ver]
MSBuild(versions, props, refs) == [kind |-> "msbuild", versions |-> versions, props |-> props, refs |-> refs]
Item(name, excluded) == [name |-> name, excluded |-> excluded, extra |-> FALSE, bracket |-> FALSE]
Text(kind, name) == [kind |-> kind, name |-> name, ver |-> "1", excluded |-> FALSE, file |-> ""]

Unpinned ==
    { Asks([packages |-> <<Uv("app", "0.0.0", "virtual", ("dependencies" :> {Want("a", NoVersion)})
                                                            @@ ("dev-dependencies" :> {Want("c", NoVersion)})),
                           Uv("a", "1", "registry", ("dependencies" :> {Want("b", "2")})
                                                        @@ ("optional-dependencies" :> {Want("app", NoVersion)})),
                           Uv("b", "1", "registry", <<>>)>>]
             @@ File("pypi", "uv"), "pypi", {"a", "b", "c"}),
      Asks([packages |-> <<[name |-> "a", ver |-> "1", ref |-> "", parts |-> ("dependencies" :> {"b", "c"}) @@ ("extras" :> {"app"})],
                           [name |-> "c", ver |-> "1", ref |-> "legacy", parts |-> "dependencies" :> {"a"}]>>]
             @@ File("pypi", "poetry"), "pypi", {"a", "b", "c"}),
      Asks([first |-> "requirements.txt", siblings |-> <<"dev.txt", "test.txt">>,
            files |-> ("requirements.txt" :> <<Text("pin", "a"), Text("open", "b"), [Text("include", "") EXCEPT !.file = "more.txt"]>>)
                        @@ ("dev.txt" :> <<Text("option", ""), [Text("include", "") EXCEPT !.file = "base.txt"], Text("garbled", "")>>)
                        @@ ("more.txt" :> <<Text("pin", "c"), [Text("include", "") EXCEPT !.file = "requirements.txt"]>>)]
             @@ File("pypi", "requirements"), "pypi", {"a", "b", "c"}),
      Asks([declares |-> {Item("a", FALSE), Item("app", FALSE), [Item("app", FALSE) EXCEPT !.extra = TRUE], Item("c", TRUE)}]
             @@ File("pypi", "pyproject"), "pypi", {"a", "app"}),
      Asks([declares |-> {Item("a", FALSE), Item("c", FALSE)}] @@ File("pypi", "Pipfile"), "pypi", {"a", "c"}),
      Asks([items |-> <<Item("a", FALSE), Item("b", TRUE), [Item("c", FALSE) EXCEPT !.bracket = TRUE]>>]
             @@ File("pypi", "setup.py"), "pypi", {"a"}),
      Asks([layout |-> 3, deps |-> {"a", "web"}, dev |-> {}, optional |-> {}, peer |-> {}, members |-> {<<"lib">>},
            at |-> (<<"a">> :> [name |-> "", ver |-> "1", ref |-> "http", needs |-> {}])
                     @@ (<<"web">> :> [name |-> "", ver |-> NoVersion, ref |-> "other", needs |-> {}])
                     @@ (<<"lib">> :> [name |-> "web", ver |-> "1", ref |-> "", needs |-> {"a", "c"}])
                     @@ (<<"lib", "c">> :> [name |-> "", ver |-> "1", ref |-> "http", needs |-> {"web"}])]
             @@ File("npm", "package-lock"), "npm", {"a"}),
      Asks([runtime |-> {"a"}, optional |-> {"b"}] @@ File("npm", "package.json"), "npm", {"a", "b"}),
      Asks([names |-> {"a", "b", "c"}, platform |-> {"c"}] @@ File("composer", "composer.json"), "composer", {"a", "b"}),
      Asks([packages |-> <<[name |-> "app", ver |-> "0.0.0", ref |-> "", needs |-> {Want("b", NoVersion), Want("c", NoVersion)}],
                           [name |-> "b", ver |-> "1", ref |-> "registry", needs |-> {}],
                           [name |-> "b", ver |-> "2", ref |-> "git", needs |-> {Want("c", "1")}],
                           [name |-> "c", ver |-> "1", ref |-> "", needs |-> {}],
                           [name |-> "c", ver |-> "1", ref |-> "", needs |-> {}]>>]
             @@ File("cargo", "Cargo.lock"), "cargo", {"b", "c"}),
      Asks([msbuild |-> TRUE, config |-> {<<"app", "1">>},
            above |-> <<MSBuild("b" :> "2", "$(property)" :> "1", <<>>), MSBuild("b" :> "1", <<>>, <<>>)>>,
            own   |-> <<MSBuild(<<>>, <<>>, <<Refer("a", "$(property)"), Refer("b", NoVersion), Refer("c", "range")>>)>>,
            tools |-> <<[MSBuild(<<>>, <<>>, <<Refer("a", "$(property)"), Refer("b", NoVersion)>>) EXCEPT !.kind = "tools"]>>]
             @@ File("nuget", "project-files"), "nuget", {"a", "b", "c", "app"}),
      Asks([unparsed |-> 1, declares |-> {[name |-> "a", ver |-> "1", source |-> "registry"],
                                          [name |-> "b", ver |-> NoVersion, source |-> "registry"],
                                          [name |-> "c", ver |-> NoVersion, source |-> "git"]}]
             @@ File("clojure", "clj"), "maven", {"a", "b", "c"}),
      Asks([frameworks |-> <<("a" :> [type |-> "Direct", ver |-> "1", needs |-> {<<"b", "1">>}])
                                @@ ("b" :> [type |-> "Transitive", ver |-> "2", needs |-> {}]),
                             ("b" :> [type |-> "Transitive", ver |-> "1", needs |-> {}])
                                @@ ("c" :> [type |-> "Project", ver |-> "1", needs |-> {<<"b", "2">>}])>>]
             @@ File("nuget", "packages.lock.json"), "nuget", {"a", "b", "c"}),
      Asks([directs |-> {"a"},
            packages |-> <<[name |-> "a", ver |-> "1", ref |-> "registry", needs |-> {"b", "app"}],
                           [name |-> "a", ver |-> "2", ref |-> "registry", needs |-> {"c"}],
                           [name |-> "b", ver |-> "1", ref |-> "path", needs |-> {}]>>]
             @@ File("gem", "Gemfile.lock"), "gem", {"a", "b"}) }

\* A package from a repository, in the formats that record where packages come from.
FromGit ==
    {Alone(f, Forked("app")) :
        f \in {x \in LockFormat : x[2] \in {"package-lock", "package-lock v1", "yarn", "bun", "uv", "poetry", "pylock",
                                              "Cargo.lock", "composer.lock", "Gemfile.lock"}}}

-----------------------------------------------------------------------------
Strict == [recurse |-> TRUE, noBuildDirs |-> FALSE, requireProject |-> TRUE, failOnIncomplete |-> TRUE]
Lax    == [Strict EXCEPT !.requireProject = FALSE, !.failOnIncomplete = FALSE]

\* A strict scan in all four shapes, and a lax one.
Variants == {[Strict EXCEPT !.recurse = r, !.noBuildDirs = b] : r \in BOOLEAN, b \in BOOLEAN} \cup {Lax}

MCScans ==
    ((OneInstallation \cup FromGit \cup Unpinned \cup Namesakes \cup MountLoop \cup MountTwice) \X {Strict})
        \cup (MonoRepo \X Variants)

\* Two manifests in directories of one name, and installations in a ring.
MCTwins == {w \in MonoRepo : Cardinality(w.declares) > 1} \X {Strict}
MCRings == CutOff \X {Strict}
=============================================================================
