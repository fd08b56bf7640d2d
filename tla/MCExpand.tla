------------------------------ MODULE MCExpand ------------------------------
(***************************************************************************)
(* Two projects, "app" (read from a lockfile adapter, so its own coordinate*)
(* looks like a registry one) and "lib" (a local path), and packages a, b  *)
(* and c in two versions.                                                  *)
(***************************************************************************)
EXTENDS Expand, TLC

MCName    == {"app", "lib", "a", "b", "c"}
MCVersion == {1, 2}

app == [name |-> "app", version |-> 1, registry |-> TRUE]
lib == [name |-> "lib", version |-> 1, registry |-> FALSE]
MCRoot == {app, lib}

\* Node of a published package, and of a fork kept in a git repository.
P(m, v)  == Identify(m, v)
Fork(m, v) == [name |-> m, version |-> v, registry |-> FALSE]

Needs(m, S) == [name |-> m, admits |-> S]
Either == MCVersion

\* A function on D that maps a key to its value in table, and any other key to other.
Else(table, D, other) == [k \in D |-> IF k \in DOMAIN table THEN table[k] ELSE other]

(***************************************************************************)
(* shared: both projects need b; lib's lockfile pins b to a version that a *)
(*   of app does not admit, and the packages need each other in a cycle.   *)
(* diamond: a and b are seeded from a manifest and constrain c differently.*)
(* resolved: a resolver knows the subtrees of a and b, and of the fork's   *)
(*   namesake; c is asserted beneath a, and the manifest of lib asks for c.*)
(* listed: the resolver knows app's whole build list.                      *)
(***************************************************************************)
MCWorld == {"shared", "diamond", "resolved", "listed"}

Lock(E, stranded) == [nodes |-> MCRoot \cup Ends(E) \cup stranded, edges |-> E]

MCLocked ==
    [ shared   |-> Lock({<<app, P("a", 1)>>, <<lib, P("b", 2)>>, <<P("b", 2), P("c", 1)>>}, {}),
      diamond  |-> Lock({<<app, P("c", 1)>>}, {}),
      resolved |-> Lock({<<app, P("a", 1)>>, <<app, P("b", 1)>>, <<app, Fork("c", 1)>>}, {}),
      listed   |-> Lock({<<app, P("a", 1)>>, <<lib, P("a", 1)>>}, {P("b", 1)}) ]

MCDeclared ==
    [ shared   |-> [r \in MCRoot |-> {}],
      diamond  |-> (app :> {} @@ lib :> {Needs("a", Either), Needs("b", {1})}),
      resolved |-> (app :> {} @@ lib :> {Needs("c", Either), Needs("a", Unevaluable)}),
      listed   |-> (app :> {Needs("b", {1}), Needs("b", {2})} @@ lib :> {}) ]

MCRequires ==
    [w \in MCWorld |->
        Else( CASE w = "shared" ->
                   (P("a", 1) :> {Needs("b", {1})} @@ P("b", 1) :> {Needs("a", Either)}
                      @@ P("b", 2) :> {Needs("c", {2}), Needs("a", {2})})
                [] w = "diamond" ->
                   (P("a", 2) :> {Needs("c", Either)} @@ P("b", 1) :> {Needs("c", {1})}
                      @@ P("c", 1) :> {Needs("b", {2})})
                [] w = "resolved" ->
                   (P("a", 1) :> {Needs("c", Either), Needs("b", Either)} @@ P("b", 1) :> {Needs("c", {1})}
                      @@ P("c", 2) :> {Needs("b", {2})})
                [] w = "listed" ->
                   (P("a", 1) :> {Needs("c", {2})} @@ app :> {Needs("c", {1})}),
              Package, {})]

MCPublished == [w \in MCWorld |-> [m \in MCName |-> IF m = "lib" THEN {} ELSE MCVersion]]

MCSubtree ==
    [w \in MCWorld |->
        IF w = "resolved"
        THEN Else( P("a", 1) :> {{<<P("a", 1), P("c", 2)>>, <<P("c", 2), P("b", 1)>>}}
                     @@ P("b", 1) :> {{<<P("b", 1), P("c", 2)>>}},
                   Package, {} )
        ELSE [n \in Package |-> {}]]

MCBuildList ==
    [w \in MCWorld |->
        IF w = "listed"
        THEN app :> {{<<app, P("a", 2)>>, <<P("a", 2), P("c", 2)>>}} @@ lib :> {}
        ELSE [r \in MCRoot |-> {}]]

MCBounds == {[layers |-> 1, chosen |-> FALSE], [layers |-> 2, chosen |-> TRUE],
             [layers |-> 3, chosen |-> FALSE]}

=============================================================================
