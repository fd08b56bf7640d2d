-------------------------- MODULE VerdictContract --------------------------
(***************************************************************************)
(* What the verdict of a scan promises, as one step from its inputs to its *)
(* result: the exit-code contract of internal/verdict (its package comment *)
(* and decisions D-05, D-06, D-09, D-12, D-24), the risk of every node and *)
(* the containment label.  Verdict.tla is the stage-by-stage evaluation    *)
(* and is shown to implement this module.                                  *)
(***************************************************************************)
EXTENDS Naturals, FiniteSets

CONSTANTS
    Node,       \* the nodes of the resolved graph
    Package,    \* those of kind "package"; the others are hooks, artifacts, sinks
    Root,       \* the scan roots
    Finding,    \* identifiers of the findings the checks filed
    NoVerdict   \* the result before the evaluation has finished

VARIABLES
    edges,      \* the edges of the graph, with their class
    truth,      \* how the version of each node is known
    filed,      \* the findings exactly as the checks filed them
    policy,     \* -fail-on-eligible, -fail-on-incomplete, -real-roots
    incomplete, \* Coverage.Incomplete() of the assembled scan coverage
    verdict     \* what the scan reports

inputs == <<edges, truth, filed, policy, incomplete>>

EdgeClass  == {"install", "other"}
Edge       == [from: Node, to: Node, class: EdgeClass]
TruthLevel == {"observed", "presumed", "asserted", "contested"}
GateClass  == {"block", "gate-eligible", "advisory"}
\* RecencyDecay is 0 (no temporal meaning), below StaleFloor, or at least StaleFloor.
Decay      == {"none", "stale", "fresh"}
FiledFinding == [node: Node, gate: GateClass, decay: Decay]
Policy     == [failOnEligible: BOOLEAN, failOnIncomplete: BOOLEAN,
               designated: BOOLEAN, real: SUBSET Root]

Clean   == 0
Warned  == 1
Flagged == 2
Risk    == Clean..Flagged

ExitClean      == 0
ExitBlock      == 1
ExitGate       == 2
ExitIncomplete == 3

(***************************************************************************)
(* Reachability, as membership of every closed set that holds the source.  *)
(***************************************************************************)
Closed(E, C) == \A e \in E : e.from \in C => e.to \in C

ReachedFrom(E, s) ==
    LET Enclosing == {C \in SUBSET Node : s \in C /\ Closed(E, C)}
    IN  {n \in Node : \A C \in Enclosing : n \in C}

InstallEdges == {e \in edges : e.class = "install"}

-----------------------------------------------------------------------------
(***************************************************************************)
(* A finding keeps the right to gate unless its node's version was chosen  *)
(* by the tool or a service, or it is a stale gate-eligible one.           *)
(***************************************************************************)
IsPresumed(n) == truth[n] \in {"presumed", "asserted"}

MayBlock(f) == filed[f].gate = "block" /\ ~IsPresumed(filed[f].node)

MayGate(f) == /\ filed[f].gate = "gate-eligible"
              /\ filed[f].decay # "stale"
              /\ ~IsPresumed(filed[f].node)

ExitPromised ==
    IF \E f \in Finding : MayBlock(f) THEN ExitBlock
    ELSE IF policy.failOnEligible /\ \E f \in Finding : MayGate(f) THEN ExitGate
    ELSE IF policy.failOnIncomplete /\ incomplete THEN ExitIncomplete
    ELSE ExitClean

\* A node's own risk: flagged by a finding that still blocks, warned by any other.
OwnRisk(n) ==
    IF \E f \in Finding : filed[f].node = n /\ MayBlock(f) THEN Flagged
    ELSE IF \E f \in Finding : filed[f].node = n THEN Warned
    ELSE Clean

\* The packages whose risk a node renders: those that reach it at install time.
HeatSources(n) == {n} \cup {p \in Package : n \in ReachedFrom(InstallEdges, p)}

IsRiskPromised(n, r) ==
    /\ \A m \in HeatSources(n) : OwnRisk(m) <= r
    /\ \E m \in HeatSources(n) : OwnRisk(m) = r

ContainedPromised ==
    {f \in Finding : /\ policy.designated
                     /\ \A r \in policy.real : filed[f].node \notin ReachedFrom(edges, r)}

-----------------------------------------------------------------------------
Init ==
    /\ edges \in SUBSET Edge
    /\ truth \in [Node -> TruthLevel]
    /\ filed \in [Finding -> FiledFinding]
    /\ policy \in Policy
    /\ incomplete \in BOOLEAN
    /\ verdict = NoVerdict

Deliver ==
    /\ verdict = NoVerdict
    /\ \E risk \in [Node -> Risk] :
          /\ \A n \in Node : IsRiskPromised(n, risk[n])
          /\ verdict' = [exit |-> ExitPromised, contained |-> ContainedPromised,
                         risk |-> risk]
    /\ UNCHANGED inputs

Next == Deliver

Spec == Init /\ [][Next]_<<inputs, verdict>>

=============================================================================
