------------------------------- MODULE MCScan -------------------------------
(***************************************************************************)
(* Three coordinates, asked about one at a time.  The bundled dataset knows*)
(* malware in 1, a vulnerability of 2 and nothing of 3.                    *)
(***************************************************************************)
EXTENDS Scan

MCPackage == 1..3

MCLocks == {{1, 2}, {2, 3}}

MCBundle == [p \in MCPackage |-> CASE p = 1 -> "malicious" [] p = 2 -> "vulnerable" [] p = 3 -> Absent]

MCFeeds ==
    {[p \in MCPackage |-> CASE p = 1 -> a [] p = 2 -> "vulnerable" [] p = 3 -> "none"] :
        a \in {"malicious", "none"}}

=============================================================================
