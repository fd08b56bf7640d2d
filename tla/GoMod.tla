-------------------------------- MODULE GoMod --------------------------------
(***************************************************************************)
(* What depSNORT reads out of a go.mod file: the requirements and the `go` *)
(* directive (internal/ecosystem/gomod) and the retractions                *)
(* (internal/datasource/goproxy).                                          *)
(*                                                                         *)
(* A file is the sequence of its lines, comments stripped and tokens       *)
(* unquoted.  "entry" and "span" are lines without a keyword, whose        *)
(* meaning depends on the block they stand in; "opens" opens a block of    *)
(* another directive (exclude, replace).  A line whose version is not one  *)
(* has NoVersion.                                                          *)
(***************************************************************************)
EXTENDS Integers, Sequences

CONSTANTS Module, Version, NoVersion,
          Rank      \* the place of a version in semver's order

Line ==
    [kind: {"go"}, minor: Nat]
      \cup [kind: {"require", "entry"}, mod: Module, ver: Version \cup {NoVersion}, indirect: BOOLEAN]
      \cup [kind: {"retract", "span"}, lo: Version \cup {NoVersion}, hi: Version \cup {NoVersion}]
      \cup [kind: {"opensRequire", "opensRetract", "opens", "closes"}]

\* Versions are compared by rank: build metadata does not count, and all that are
\* no semantic version share the highest rank.
Less(a, b) == Rank[a] < Rank[b]

\* Line i stands inside a block that `opener` opened.
Inside(text, i, opener) ==
    \E j \in 1..(i - 1) : /\ text[j].kind = opener
                          /\ \A k \in (j + 1)..(i - 1) : text[k].kind # "closes"

-----------------------------------------------------------------------------
\* scanGoMod: the requirements, those of other blocks left out.
RequireLines(text) ==
    {i \in DOMAIN text :
        /\ \/ text[i].kind = "require" /\ ~Inside(text, i, "opensRequire")
           \/ text[i].kind = "entry"   /\ Inside(text, i, "opensRequire")
        /\ text[i].ver # NoVersion}

Requires(text) == {<<text[i].mod, text[i].ver>> : i \in RequireLines(text)}

\* HasPrunedModuleGraph: go 1.17 or later; without a directive, an older one.
\* The last directive of the file counts.
HasPrunedModuleGraph(text) ==
    \E i \in DOMAIN text : /\ text[i].kind = "go" /\ text[i].minor >= 17
                           /\ \A j \in DOMAIN text : j > i => text[j].kind # "go"

-----------------------------------------------------------------------------
\* parseRetract: single versions and ranges, a single one as a range of one.
Retractions(text) ==
    {<<text[i].lo, text[i].hi>> :
        i \in {j \in DOMAIN text :
                 /\ \/ text[j].kind = "retract" /\ ~Inside(text, j, "opensRetract")
                    \/ text[j].kind = "span"    /\ Inside(text, j, "opensRetract")
                 /\ NoVersion \notin {text[j].lo, text[j].hi}}}

\* isRetracted and highestVersion, which skip what is no semantic version.
IsRetracted(v, specs, valid) ==
    /\ v \in valid
    /\ \E s \in specs : {s[1], s[2]} \subseteq valid /\ ~Less(v, s[1]) /\ ~Less(s[2], v)

Highest(versions, valid) ==
    {v \in versions \cap valid : \A w \in versions \cap valid : ~Less(v, w)}
=============================================================================
