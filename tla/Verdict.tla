------------------------------ MODULE Verdict ------------------------------
(***************************************************************************)
(* internal/verdict: EvaluateWithCoverage turns the graph and the findings *)
(* into risk states and one exit code, stage by stage: two demotions, the  *)
(* containment label, the tally, the overlay of findings on nodes (a range *)
(* over a Go map, so in any order), the breadth-first propagation of risk  *)
(* along install-time edges, and the exit code.                            *)
(***************************************************************************)
EXTENDS Naturals, FiniteSets

CONSTANTS
    Node, Package, Root, Finding,
    NoVerdict,  \* the result before the evaluation has finished
    NoPackage,  \* no package is being propagated
    EdgeSets,   \* the graphs considered
    Truths,     \* the assignments of version truth considered
    Filings,    \* what the checks may have filed
    Policies    \* the policies considered

VARIABLES
    edges, truth, filed, policy, incomplete,  \* the inputs, see VerdictContract
    stage,      \* which statement of EvaluateWithCoverage comes next
    findings,   \* the working copy the stages rewrite
    counts,     \* Result.Counts
    grouped,    \* nodes of byNode still to be overlaid
    risk,       \* Result.Risk, and Node.Risk of the same node
    sources,    \* packages propagateInstallTime has yet to visit
    pkg,        \* the package whose traversal runs
    seen, queue,\* its visited nodes and its queue
    exitCode

inputs  == <<edges, truth, filed, policy, incomplete>>
working == <<stage, findings, counts, grouped, risk, sources, pkg, seen, queue, exitCode>>
vars    == <<inputs, working>>

Contract ==
    INSTANCE VerdictContract WITH
        verdict <- IF stage = "done"
                   THEN [exit |-> exitCode,
                         contained |-> {f \in Finding : findings[f].contained},
                         risk |-> risk]
                   ELSE NoVerdict

Edge         == Contract!Edge
FiledFinding == Contract!FiledFinding
Risk         == Contract!Risk
Clean        == Contract!Clean
Warned       == Contract!Warned
Flagged      == Contract!Flagged

ASSUME VerdictAssumption ==
    /\ Package \subseteq Node
    /\ Root \subseteq Node
    /\ IsFiniteSet(Finding)
    /\ NoPackage \notin Node
    /\ EdgeSets \subseteq SUBSET Edge
    /\ Truths \subseteq [Node -> Contract!TruthLevel]
    /\ Filings \subseteq [Finding -> FiledFinding]
    /\ Policies \subseteq Contract!Policy

WorkingFinding == [node: Node, gate: Contract!GateClass, decay: Contract!Decay,
                   contained: BOOLEAN]

Stage == {"recency", "presumed", "containment", "tally", "overlay", "propagate",
          "traverse", "decide", "done"}

-----------------------------------------------------------------------------
(***************************************************************************)
(* The demotions.                                                          *)
(***************************************************************************)
Presumed(n) == truth[n] \in {"presumed", "asserted"}

\* The operators named ...NotBlock, ...AlsoBlock, ...Blindly, ...BySum and
\* ...Revisiting are faults: no action uses them, and each breaks a property.
Stale(f) == f.gate = "gate-eligible" /\ f.decay = "stale"

RecencyDemotedAlsoBlock(f) == IF f.decay = "stale" THEN [f EXCEPT !.gate = "advisory"] ELSE f

RecencyDemoted(f) == IF Stale(f) THEN [f EXCEPT !.gate = "advisory"] ELSE f

PresumedDemotedNotBlock(f) ==
    IF f.gate = "gate-eligible" /\ Presumed(f.node) THEN [f EXCEPT !.gate = "advisory"] ELSE f

PresumedDemoted(f) ==
    IF f.gate # "advisory" /\ Presumed(f.node) THEN [f EXCEPT !.gate = "advisory"] ELSE f

ReachableRoots(n) == {r \in Root : n \in Contract!ReachedFrom(edges, r)}

Contain(f) ==
    IF policy.designated /\ ReachableRoots(f.node) \cap policy.real = {}
    THEN [f EXCEPT !.contained = TRUE]
    ELSE f

Tallied(class) == Cardinality({f \in Finding : findings[f].gate = class})

Adjacent(n) == {m \in Node : \E e \in edges : e.class = "install" /\ e.from = n /\ e.to = m}

-----------------------------------------------------------------------------
Init ==
    /\ edges \in EdgeSets
    /\ truth \in Truths
    /\ filed \in Filings
    /\ policy \in Policies
    /\ incomplete \in BOOLEAN
    /\ stage = "recency"
    /\ findings = [f \in Finding |-> [node |-> filed[f].node, gate |-> filed[f].gate,
                                      decay |-> filed[f].decay, contained |-> FALSE]]
    /\ counts = [block |-> 0, eligible |-> 0, advisory |-> 0]
    /\ grouped = {}
    /\ risk = [n \in Node |-> Clean]
    /\ sources = {}
    /\ pkg = NoPackage
    /\ seen = {}
    /\ queue = {}
    /\ exitCode = 0

\* A stage that rewrites every finding and leaves the rest of the result alone.
Rewrite(from, to, Change(_)) ==
    /\ stage = from
    /\ findings' = [f \in Finding |-> Change(findings[f])]
    /\ stage' = to
    /\ UNCHANGED <<inputs, counts, grouped, risk, sources, pkg, seen, queue, exitCode>>

ApplyRecencyDemotion  == Rewrite("recency", "presumed", RecencyDemoted)
ApplyPresumedDemotion == Rewrite("presumed", "containment", PresumedDemoted)
ApplyContainment      == Rewrite("containment", "tally", Contain)

\* Group the findings by node, count them by class, and start every node clean.
Tally ==
    /\ stage = "tally"
    /\ counts' = [block    |-> Tallied("block"),
                  eligible |-> Tallied("gate-eligible"),
                  advisory |-> Tallied("advisory")]
    /\ grouped' = {findings[f].node : f \in Finding}
    /\ risk' = [n \in Node |-> Clean]
    /\ stage' = "overlay"
    /\ UNCHANGED <<inputs, findings, sources, pkg, seen, queue, exitCode>>

Overlay(n) ==
    /\ stage = "overlay"
    /\ n \in grouped
    /\ grouped' = grouped \ {n}
    /\ risk' = [risk EXCEPT ![n] =
                  IF \E f \in Finding : findings[f].node = n /\ findings[f].gate = "block"
                  THEN Flagged ELSE Warned]
    /\ UNCHANGED <<inputs, stage, findings, counts, sources, pkg, seen, queue, exitCode>>

StartPropagation ==
    /\ stage = "overlay"
    /\ grouped = {}
    /\ sources' = Package
    /\ stage' = "propagate"
    /\ UNCHANGED <<inputs, findings, counts, grouped, risk, pkg, seen, queue, exitCode>>

\* The loop visits packages in the order of their IDs; any order is allowed here.
StartPackage(p) ==
    /\ stage = "propagate"
    /\ p \in sources
    /\ sources' = sources \ {p}
    /\ IF risk[p] = Clean
       THEN UNCHANGED <<stage, pkg, seen, queue>>
       ELSE /\ pkg' = p
            /\ seen' = {p}
            /\ queue' = Adjacent(p)
            /\ stage' = "traverse"
    /\ UNCHANGED <<inputs, findings, counts, grouped, risk, exitCode>>

RaisedBlindly(n) == risk[pkg]

Raised(n) == IF risk[pkg] > risk[n] THEN risk[pkg] ELSE risk[n]

\* Nodes already seen are queued again and dropped when they are taken.
Enqueue(n) == (queue \ {n}) \cup Adjacent(n)

TraverseRevisiting(n) ==
    /\ stage = "traverse"
    /\ n \in queue
    /\ seen' = seen \cup {n}
    /\ risk' = [risk EXCEPT ![n] = Raised(n)]
    /\ queue' = Enqueue(n)
    /\ UNCHANGED <<inputs, stage, findings, counts, grouped, sources, pkg, exitCode>>

Traverse(n) ==
    /\ stage = "traverse"
    /\ n \in queue
    /\ IF n \in seen
       THEN /\ queue' = queue \ {n}
            /\ UNCHANGED <<seen, risk>>
       ELSE /\ seen' = seen \cup {n}
            /\ risk' = [risk EXCEPT ![n] = Raised(n)]
            /\ queue' = Enqueue(n)
    /\ UNCHANGED <<inputs, stage, findings, counts, grouped, sources, pkg, exitCode>>

FinishPackage ==
    /\ stage = "traverse"
    /\ queue = {}
    /\ stage' = "propagate"
    /\ pkg' = NoPackage
    /\ seen' = {}
    /\ UNCHANGED <<inputs, findings, counts, grouped, risk, sources, queue, exitCode>>

FinishPropagation ==
    /\ stage = "propagate"
    /\ sources = {}
    /\ stage' = "decide"
    /\ UNCHANGED <<inputs, findings, counts, grouped, risk, sources, pkg, seen, queue, exitCode>>

ExitCodeIn(c) ==
    IF c.block > 0 THEN Contract!ExitBlock
    ELSE IF policy.failOnEligible /\ c.eligible > 0 THEN Contract!ExitGate
    ELSE IF policy.failOnIncomplete /\ incomplete THEN Contract!ExitIncomplete
    ELSE Contract!ExitClean

Decide ==
    /\ stage = "decide"
    /\ exitCode' = ExitCodeIn(counts)
    /\ stage' = "done"
    /\ UNCHANGED <<inputs, findings, counts, grouped, risk, sources, pkg, seen, queue>>

Done == stage = "done" /\ UNCHANGED vars

Next ==
    \/ ApplyRecencyDemotion
    \/ ApplyPresumedDemotion
    \/ ApplyContainment
    \/ Tally
    \/ \E n \in Node : Overlay(n)
    \/ StartPropagation
    \/ \E p \in Package : StartPackage(p)
    \/ \E n \in Node : Traverse(n)
    \/ FinishPackage
    \/ FinishPropagation
    \/ Decide
    \/ Done

Spec == Init /\ [][Next]_vars

\* The evaluation is one goroutine that nothing blocks: it keeps taking steps.
FairSpec == Spec /\ WF_vars(Next)

-----------------------------------------------------------------------------
(***************************************************************************)
(* Properties.                                                             *)
(***************************************************************************)
TypeOK ==
    /\ edges \in SUBSET Edge
    /\ truth \in [Node -> Contract!TruthLevel]
    /\ filed \in [Finding -> FiledFinding]
    /\ policy \in Contract!Policy
    /\ incomplete \in BOOLEAN
    /\ stage \in Stage
    /\ findings \in [Finding -> WorkingFinding]
    /\ counts \in [block: Nat, eligible: Nat, advisory: Nat]
    /\ grouped \subseteq Node
    /\ risk \in [Node -> Risk]
    /\ sources \subseteq Package
    /\ pkg \in IF stage = "traverse" THEN Package ELSE {NoPackage}
    /\ seen \subseteq Node
    /\ queue \subseteq Node
    /\ exitCode \in 0..3

(***************************************************************************)
(* The parts of the inductive invariant.                                   *)
(***************************************************************************)

\* The gate class of a finding after both demotions.
FinalGate(f) == IF Contract!MayBlock(f) THEN "block"
                ELSE IF Contract!MayGate(f) THEN "gate-eligible"
                ELSE "advisory"

SameFinding(f) == /\ findings[f].node = filed[f].node
                  /\ findings[f].decay = filed[f].decay

\* What the rewriting stages have made of the findings when each stage begins.
FindingsInv ==
    \A f \in Finding :
        /\ SameFinding(f)
        /\ stage = "recency" => findings[f].gate = filed[f].gate
        /\ stage = "presumed" =>
              findings[f].gate = IF filed[f].gate = "gate-eligible" /\ filed[f].decay = "stale"
                                 THEN "advisory" ELSE filed[f].gate
        /\ stage \notin {"recency", "presumed"} => findings[f].gate = FinalGate(f)
        /\ findings[f].contained <=>
              /\ stage \notin {"recency", "presumed", "containment"}
              /\ f \in Contract!ContainedPromised

CountsInv ==
    stage \notin {"recency", "presumed", "containment", "tally"} =>
        /\ counts.block > 0 <=> \E f \in Finding : Contract!MayBlock(f)
        /\ counts.eligible > 0 <=> \E f \in Finding : Contract!MayGate(f)

\* Before propagation a node has its own risk once its findings are overlaid.
OverlayInv ==
    stage = "overlay" =>
        /\ grouped \subseteq {filed[f].node : f \in Finding}
        /\ \A n \in Node : risk[n] = IF n \in grouped THEN Clean ELSE Contract!OwnRisk(n)

\* During propagation a risk is somebody's who reaches the node, never less than
\* the node's own, and every package already visited has heated all it reaches.
PropagationInv ==
    stage \in {"propagate", "traverse", "decide", "done"} =>
        /\ \A n \in Node : \E m \in Contract!HeatSources(n) : risk[n] = Contract!OwnRisk(m)
        /\ \A n \in Node : Contract!OwnRisk(n) <= risk[n]
        /\ \A p \in Package : \A n \in Contract!ReachedFrom(Contract!InstallEdges, p) :
              p \in sources \/ p = pkg \/ Contract!OwnRisk(p) <= risk[n]

\* The breadth-first traversal: what is seen or queued is reachable, and every
\* install-time edge out of a seen node ends in a seen or queued one.
TraversalInv ==
    IF stage = "traverse"
    THEN /\ pkg \in seen
         /\ seen \cup queue \subseteq Contract!ReachedFrom(Contract!InstallEdges, pkg)
         /\ \A e \in Contract!InstallEdges : e.from \in seen => e.to \in seen \cup queue
         /\ \A n \in seen : risk[pkg] <= risk[n]
    ELSE queue = {}

SourcesInv == stage \in {"decide", "done"} => sources = {}

ExitInv == stage = "done" => exitCode = Contract!ExitPromised

IInv ==
    /\ TypeOK
    /\ FindingsInv
    /\ CountsInv
    /\ OverlayInv
    /\ PropagationInv
    /\ TraversalInv
    /\ SourcesInv
    /\ ExitInv

-----------------------------------------------------------------------------
\* The exit code, the risk of every node and the containment labels that the
\* stages end with are the ones VerdictContract promises for the same inputs
\* (verdict.go:5-17): no advisory, stale or presumed finding reaches the exit
\* code, and a node renders as hot as the hottest package that reaches it.
ImplementsContract == Contract!Spec

\* From the overlay on a risk is raised and never lowered, whatever order the
\* map of findings and the packages are visited in (verdict.go:85-131).
RiskNeverSoftened ==
    [][stage \notin {"recency", "presumed", "containment", "tally"} =>
           \A n \in Node : risk'[n] >= risk[n]]_vars

\* The evaluation ends, also over a graph whose install-time edges form a cycle.
Terminates == <>(stage = "done")

=============================================================================
