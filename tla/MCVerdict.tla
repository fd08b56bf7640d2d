----------------------------- MODULE MCVerdict -----------------------------
(***************************************************************************)
(* A workspace of two root packages, "app" and "lib", and one install hook *)
(* that both may declare.                                                  *)
(***************************************************************************)
EXTENDS Verdict

MCNode    == {"app", "lib", "hook"}
MCPackage == {"app", "lib"}

CONSTANTS f1, f2

MCFinding == {f1, f2}

\* Two findings, in either order the same, of every gate class and staleness.
Filed == [node: MCNode, gate: {"block", "gate-eligible"}, decay: {"stale", "fresh"}]
           \cup [node: MCNode, gate: {"advisory"}, decay: {"none"}]

Order(f) == (CASE f.node = "app" -> 0 [] f.node = "lib" -> 10 [] f.node = "hook" -> 20)
          + (CASE f.gate = "block" -> 0 [] f.gate = "gate-eligible" -> 3 [] f.gate = "advisory" -> 6)
          + (CASE f.decay = "stale" -> 0 [] f.decay = "fresh" -> 1 [] f.decay = "none" -> 2)

MCFilings == {p \in [MCFinding -> Filed] : Order(p[f1]) <= Order(p[f2])}

Arc(from, to, class) == [from |-> from, to |-> to, class |-> class]

\* A chain; a cycle through the hook (a hook that republishes); a shared hook.
MCEdgeSets ==
    { {Arc("app", "lib", "other"), Arc("lib", "hook", "install")},
      {Arc("lib", "hook", "install"), Arc("hook", "app", "install"),
       Arc("app", "hook", "install"), Arc("hook", "hook", "install")},
      {Arc("app", "hook", "install"), Arc("lib", "hook", "install")} }

MCTruths ==
    { [n \in MCNode |-> "observed"],
      [app |-> "observed", lib |-> "presumed", hook |-> "observed"],
      [app |-> "contested", lib |-> "asserted", hook |-> "observed"] }

MCPolicies ==
    { [failOnEligible |-> TRUE, failOnIncomplete |-> TRUE, designated |-> TRUE, real |-> {"lib"}],
      [failOnEligible |-> FALSE, failOnIncomplete |-> TRUE, designated |-> FALSE, real |-> {}] }

=============================================================================
