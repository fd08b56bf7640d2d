------------------------------- MODULE MCDrift -------------------------------
(***************************************************************************)
(* Two days, four sources and trees of at most five pins.  On the second   *)
(* day the good releases of the crate "foo" are withdrawn beneath a newer  *)
(* one.                                                                    *)
(***************************************************************************)
EXTENDS Drift, TLC

MCVersion  == {"1.0.0", "1.0.1", "1.1.0", "2.0.0"}
MCRank     == "1.0.0" :> 1 @@ "1.0.1" :> 2 @@ "1.1.0" :> 3 @@ "2.0.0" :> 4
MCAccount  == {"alice", "mallory"}
MCCalendar == {800, 810}
MCSources  == <<"npm", "pypi", "cargo", "gomod">>

MCBump == [c \in MCVersion \X MCVersion |->
              IF c[1] = c[2] THEN "none"
              ELSE IF "2.0.0" \in {c[1], c[2]} THEN "major"
              ELSE IF "1.1.0" \in {c[1], c[2]} THEN "minor" ELSE "patch"]

R(v, at, who) ==
    [ver |-> v, at |-> at, dated |-> TRUE, author |-> who, recorded |-> TRUE, withdrawn |-> 9999]

Undated(r) == [r EXCEPT !.dated = FALSE]

MCTimeline ==
    \* lib wakes under a new account; old may have known the account before, and late
    \* did, in a release without a date
    <<"npm", "lib">>    :> {R("1.0.0", 10, "alice"), R("1.0.1", 800, "mallory")}
 @@ <<"npm", "late">>   :> {R("1.0.0", 10, "alice"), Undated(R("1.0.1", 20, "mallory")), R("1.1.0", 800, "mallory")}
 @@ <<"npm", "old">>    :> {R("1.0.0", 10, "alice"), [R("1.0.1", 20, "mallory") EXCEPT !.recorded = FALSE],
                            R("1.1.0", 800, "mallory")}
    \* tool was released four times, twice on one day
 @@ <<"pypi", "tool">>  :> {R("1.0.0", 10, "alice"), R("1.0.1", 799, "alice"),
                            R("1.1.0", 800, "alice"), R("2.0.0", 800, "alice")}
 @@ <<"cargo", "foo">>  :> {[R("1.0.0", 10, "alice") EXCEPT !.withdrawn = 805],
                            [R("1.0.1", 20, "alice") EXCEPT !.withdrawn = 805], R("1.1.0", 790, "mallory")}
 @@ <<"cargo", "mac">>  :> {R("1.0.0", 700, "alice")}
    \* mod without the date of 1.0.1 looks silent for more than a year
 @@ <<"gomod", "mod">>  :> {R("1.0.0", 10, "alice"), R("1.0.1", 300, "alice"),
                            R("1.1.0", 600, "alice"), R("2.0.0", 790, "alice")}
    \* gone has no go.mod any more, and no date of 1.0.1
 @@ <<"gomod", "gone">> :> {R("1.0.0", 10, "alice"), Undated(R("1.0.1", 300, "alice")), R("1.1.0", 790, "alice")}

MCModFile ==
    [c \in {"mod"} \X MCVersion |->
        IF c[2] # "2.0.0" THEN <<>>
        ELSE <<[kind |-> "opensRetract"], [kind |-> "span", lo |-> "1.0.1", hi |-> "1.1.0"],
               [kind |-> "span", lo |-> "none", hi |-> "2.0.0"], [kind |-> "closes"],
               [kind |-> "retract", lo |-> "1.0.0", hi |-> "1.0.0"]>>]

MCBuildDeps ==
    <<"foo", "1.0.0">> :> {"cc"} @@ <<"foo", "1.0.1">> :> {"cc"} @@ <<"foo", "1.1.0">> :> {"cc", "proc"}
 @@ <<"mac", "1.0.0">> :> {}

MCHostile == {"tool"}

N(id, eco, name, ver, build, macro) ==
    [id |-> id, eco |-> eco, name |-> name, ver |-> ver, root |-> FALSE, listed |-> TRUE,
     build |-> build, macro |-> macro, partial |-> FALSE]

App    == [N("app", "npm", "app", "1.0.0", {"postinstall"}, {}) EXCEPT !.root = TRUE]
Foo    == N("foo@1.0.0", "cargo", "foo", "1.0.0", {"build.rs", "network"}, {})
Foo1   == [N("foo@1.0.1", "cargo", "foo", "1.0.1", {"build.rs", "network", "env"}, {}) EXCEPT !.listed = FALSE]
Mac    == N("mac@1.0.0", "cargo", "mac", "1.0.0", {}, {"proc-macro"})
Lib    == [N("lib@1.0.0", "npm", "lib", "1.0.0", {"postinstall"}, {}) EXCEPT !.partial = TRUE]
Lib1   == N("lib@1.0.1", "npm", "lib", "1.0.1", {"postinstall", "network"}, {})
LibFork == N("lib@1.0.1?git", "npm", "lib", "1.0.1", {"postinstall", "env"}, {})
Lib2   == N("lib@2.0.0", "npm", "lib", "2.0.0", {"postinstall", "network", "env"}, {})
Old    == N("old@1.1.0", "npm", "old", "1.1.0", {"postinstall"}, {})
Late   == N("late@1.1.0", "npm", "late", "1.1.0", {"postinstall"}, {})
Gone   == N("gone@1.1.0", "gomod", "gone", "1.1.0", {}, {})
Tool   == N("tool@1.1.0", "pypi", "tool", "1.1.0", {}, {})
Mod    == N("mod@2.0.0", "gomod", "mod", "2.0.0", {}, {})
Mod0   == N("mod@1.0.0", "gomod", "mod", "1.0.0", {}, {})
NpmFoo == N("npm foo", "npm", "foo", "1.0.0", {}, {})

Pin(project, node, onDisk) == [project |-> project, node |-> node, onDisk |-> onDisk]

MCTree ==
    { {Pin("p", App, TRUE), Pin("p", Lib, TRUE), Pin("p", Foo, FALSE), Pin("q", Foo, FALSE), Pin("q", Mac, FALSE)},
      {Pin("p", Lib1, TRUE), Pin("q", LibFork, TRUE), Pin("q", Foo1, TRUE), Pin("p", Foo1, FALSE)},
      {Pin("p", Lib2, TRUE), Pin("p", Old, TRUE), Pin("p", Late, TRUE), Pin("q", Gone, TRUE)},
      {Pin("p", Tool, TRUE), Pin("p", Mod, TRUE), Pin("q", Mod0, TRUE)},
      {Pin("p", NpmFoo, TRUE), Pin("q", Foo, FALSE)} }
=============================================================================
