------------------------------ MODULE MCFetch ------------------------------
(***************************************************************************)
(* Two runs of depsnort share a cache directory: a strict client (PyPI,    *)
(* Cargo, the histories) whose process may crash, and a tolerant one       *)
(* (NuGet, Composer). Two coordinates, one of them unknown to the registry *)
(* and the other not, and a semaphore of one so that misses queue.         *)
(***************************************************************************)
EXTENDS Fetch

CONSTANTS strict, tolerant

MCCall      == {strict, tolerant}
MCTolerant  == {tolerant}
MCOffline   == {}
MCFaulty    == {strict}
MCPublished == {1}
MCRank      == <<2, 1>>

=============================================================================
