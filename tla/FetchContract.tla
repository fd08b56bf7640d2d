--------------------------- MODULE FetchContract ---------------------------
(***************************************************************************)
(* What a metadata client promises to the stage that calls it: one answer  *)
(* per call, computed from the fate of each coordinate alone.  Neither the *)
(* order in which the concurrent fetches end nor another run that shares   *)
(* the cache directory shows in it (decisions D-13 and D-24).              *)
(***************************************************************************)
EXTENDS Naturals, FiniteSets

CONSTANTS
    Call,       \* the calls of the client, by one or several depsnort runs
    Coord,      \* the coordinates every call asks about
    Offline,    \* the calls made under -offline
    Tolerant,   \* the calls of the NuGet and Composer clients
    Rank,       \* the sort order of the coordinates' keys
    None

VARIABLE reply  \* what each call has returned, None before it returns

\* A coordinate's fate: served and readable, served but unreadable, unknown to
\* the registry, or not obtained; the first two from the cache or the network.
Fate == {"cached", "net", "garbledCached", "garbledNet", "notfound", "gap"}

Possible(k) ==
    {"cached", "gap"}
      \cup (IF k \in Tolerant THEN {"garbledCached"} ELSE {})
      \cup (IF k \in Offline THEN {} ELSE {"net", "notfound"})
      \cup (IF k \in Tolerant \ Offline THEN {"garbledNet"} ELSE {})

Having(fate, F) == {c \in Coord : fate[c] \in F}

\* Counters, results and error as functions of the fates.
Answer(k, fate) ==
    [out   |-> Having(fate, {"cached", "net"}),
     stats |-> [cache    |-> Cardinality(Having(fate, {"cached", "garbledCached"})),
                net      |-> Cardinality(Having(fate, {"net", "garbledNet"})),
                notfound |-> Cardinality(Having(fate, {"notfound"})),
                gaps     |-> Cardinality(Having(fate, {"gap"}))],
     err   |-> IF k \in Offline \/ Having(fate, {"gap"}) = {}
               THEN None
               ELSE CHOOSE c \in Having(fate, {"gap"}) :
                       \A d \in Having(fate, {"gap"}) : Rank[c] <= Rank[d]]

Init == reply = [k \in Call |-> None]

Return(k) ==
    /\ reply[k] = None
    /\ reply'[k] # None
    /\ \E fate \in [Coord -> Possible(k)] :
          reply' = [reply EXCEPT ![k] = Answer(k, fate)]

Next == \E k \in Call : Return(k)

Spec == Init /\ [][Next]_reply

=============================================================================
