------------------------------- MODULE Weather -------------------------------
(***************************************************************************)
(* What depSNORT knows of a package's releases (internal/datasource:       *)
(* ReleaseHistory) and the checks that judge a pinned version by them:     *)
(* VC-004 dormancy, VC-005 burst, VC-011 publisher lineage and VC-012      *)
(* yank-lure (internal/check/builtin).                                     *)
(*                                                                         *)
(* A history is the sequence of the releases, oldest first.  Times are     *)
(* days; a finding is kept to what gates and to what it claims.            *)
(***************************************************************************)
EXTENDS GoMod, FiniteSets

CONSTANTS Account, NoAccount     \* publishers, and a release that records none

DormantAfter == 365              \* dormancyThreshold
FreshFor     == 246              \* the last day at which Decay >= 0.15
BurstWindow  == 1
BurstAtLeast == 3
SlowCadence  == 7                \* burstMinCadence; burstMinRatio follows from it
LureMinRun   == 2                \* YankLureMinRun

Release == [ver: Version, at: Nat, yanked: BOOLEAN, publisher: Account \cup {NoAccount}]

\* Sort: by time, and releases of one time in any order.
Sorted(R) ==
    {h \in [1..Cardinality(R) -> R] :
        /\ \A i, j \in DOMAIN h : i # j => h[i] # h[j]
        /\ \A i, j \in DOMAIN h : i < j => h[i].at <= h[j].at}

\* Sort by version; the order of equal ones is some fixed one.
ByVersion(h) ==
    CHOOSE s \in [DOMAIN h -> {h[i] : i \in DOMAIN h}] :
        /\ \A i, j \in DOMAIN s : i # j => s[i] # s[j]
        /\ \A i, j \in DOMAIN s : i < j => ~Less(s[j].ver, s[i].ver)

Fresh(at, today) == today - at <= FreshFor

Finding(check, n, gates, claim) == [check |-> check, node |-> n.id, gates |-> gates, claim |-> claim]

-----------------------------------------------------------------------------
(***************************************************************************)
(* VC-004: the last long silence before the pinned release, if the release *)
(* that broke it is fresh.                                                 *)
(***************************************************************************)
Gap(h, c) == h[c].at - h[c - 1].at

\* Where the silence ends that the cluster of the release `ver` awoke from.
Awakenings(h, ver) ==
    {c \in 2..Len(h) :
        /\ Gap(h, c) >= DormantAfter
        /\ \E i \in c..Len(h) : /\ h[i].ver = ver
                                /\ \A d \in (c + 1)..i : Gap(h, d) < DormantAfter}

Dormancy(n, h, hooked, today) ==
    {Finding("VC-004", n, hooked, {h[c - 1].ver, h[c].ver}) :
        c \in {b \in Awakenings(h, n.ver) : Fresh(h[b].at, today)}}

-----------------------------------------------------------------------------
(***************************************************************************)
(* VC-005: many releases around the pinned one, in a package that is slow. *)
(***************************************************************************)
PositiveGaps(h) == {c \in 2..Len(h) : Gap(h, c) > 0}

\* MedianInterval: the upper median of the positive gaps.
IsMedian(h, g) ==
    LET C == PositiveGaps(h)
        below(d) == Cardinality({c \in C : Gap(h, c) < d})
    IN  /\ g \in {Gap(h, c) : c \in C}
        /\ below(g) <= Cardinality(C) \div 2
        /\ Cardinality(C) \div 2 < Cardinality({c \in C : Gap(h, c) <= g})

Burst(n, h, hooked, today) ==
    {Finding("VC-005", n, hooked, {n.ver}) :
        i \in {j \in DOMAIN h :
                 /\ h[j].ver = n.ver /\ Fresh(h[j].at, today)
                 /\ BurstAtLeast <= Cardinality({k \in DOMAIN h : /\ h[k].at - h[j].at <= BurstWindow
                                                                  /\ h[j].at - h[k].at <= BurstWindow})
                 /\ \E g \in {Gap(h, c) : c \in PositiveGaps(h)} : IsMedian(h, g) /\ g >= SlowCadence}}

-----------------------------------------------------------------------------
(***************************************************************************)
(* VC-011: a publisher that no earlier release records.  With a gap in the *)
(* record (PriorPublishers not Complete) the finding does not gate.        *)
(***************************************************************************)
Prior(h, i) == {h[k].publisher : k \in 1..(i - 1)}

\* A fault: the releases that record no publisher are passed over.
CompleteIfAny(h, i) == Prior(h, i) # {NoAccount}

Complete(h, i) == NoAccount \notin Prior(h, i)

Lineage(n, h, hooked, today) ==
    {Finding("VC-011", n,
             Complete(h, i) /\ (hooked \/ Gap(h, i) >= DormantAfter),
             {h[i].publisher}) :
        i \in {j \in 2..Len(h) :
                 /\ h[j].ver = n.ver /\ h[j].publisher # NoAccount
                 /\ Prior(h, j) \ {NoAccount} # {}
                 /\ h[j].publisher \notin Prior(h, j)
                 /\ Fresh(h[j].at, today)}}

-----------------------------------------------------------------------------
(***************************************************************************)
(* VC-012: a withdrawn pin, and above it the shape of the lure.            *)
(***************************************************************************)
Withdrawable == {"cargo", "pypi", "gomod"}

IsYanked(h, ver) == \E i \in DOMAIN h : h[i].ver = ver /\ h[i].yanked

\* YankLureShape: the highest version is live, atop a run of withdrawn ones.
Lures(h) ==
    LET s == ByVersion(h)
        n == Len(s)
    IN  IF n > LureMinRun /\ ~s[n].yanked /\ \A i \in (n - LureMinRun)..(n - 1) : s[i].yanked
        THEN {s[n].ver} ELSE {}

Flagged(n, h) == n.eco \in Withdrawable /\ IsYanked(h, n.ver)

\* `extra` is what the enrichment recorded of the live newest version.
YankLure(n, h, extra) ==
    IF ~Flagged(n, h) THEN {}
    ELSE {Finding("VC-012", n, Lures(h) # {}, Lures(h) \cup (IF Lures(h) = {} THEN {} ELSE extra))}
=============================================================================
