--------------------------- MODULE VerdictProofs ---------------------------
(***************************************************************************)
(* The evaluation keeps its types, its inductive invariant, and implements *)
(* VerdictContract, for every graph, every set of findings and every       *)
(* policy.                                                                 *)
(***************************************************************************)
EXTENDS Verdict, FiniteSetTheorems, TLAPS

USE VerdictAssumption

\* The values that the stages and the contract are written with.
LEMMA RiskValues == Risk = {0, 1, 2} /\ Clean = 0 /\ Warned = 1 /\ Flagged = 2
BY DEF Risk, Clean, Warned, Flagged, Contract!Risk, Contract!Clean,
       Contract!Warned, Contract!Flagged

\* A node reaches itself, and reachability is closed under edges and transitive.
LEMMA ReachReflexive ==
    ASSUME NEW E, NEW s \in Node
    PROVE  s \in Contract!ReachedFrom(E, s)
BY DEF Contract!ReachedFrom

LEMMA ReachTransitive ==
    ASSUME NEW E, NEW s, NEW m \in Contract!ReachedFrom(E, s),
           NEW n \in Contract!ReachedFrom(E, m)
    PROVE  n \in Contract!ReachedFrom(E, s)
BY DEF Contract!ReachedFrom

LEMMA ReachStep ==
    ASSUME NEW E, NEW s, NEW e \in E,
           e.from \in Contract!ReachedFrom(E, s), e.to \in Node
    PROVE  e.to \in Contract!ReachedFrom(E, s)
BY DEF Contract!ReachedFrom, Contract!Closed

\* A closed set that holds the source holds everything the source reaches.
LEMMA ReachWithinClosed ==
    ASSUME NEW E, NEW C \in SUBSET Node, NEW s \in C,
           \A e \in E : e.from \in C => e.to \in C
    PROVE  Contract!ReachedFrom(E, s) \subseteq C
BY DEF Contract!ReachedFrom, Contract!Closed

-----------------------------------------------------------------------------
\* The rewriting stages keep a working finding a working finding.
LEMMA RewriteTypes ==
    ASSUME NEW f \in WorkingFinding
    PROVE  /\ RecencyDemoted(f) \in WorkingFinding
           /\ PresumedDemoted(f) \in WorkingFinding
           /\ Contain(f) \in WorkingFinding
BY DEF WorkingFinding, RecencyDemoted, PresumedDemoted, Contain, Contract!GateClass

LEMMA TalliedType == \A class : Tallied(class) \in Nat
<1>1. SUFFICES ASSUME NEW class PROVE Tallied(class) \in Nat
  OBVIOUS
<1>2. IsFiniteSet({f \in Finding : findings[f].gate = class})
  BY FS_Subset
<1>3. QED BY <1>2, FS_CardinalityType DEF Tallied

\* Every variable keeps its type along the evaluation (verdict.go:330-412).
THEOREM TypeCorrect == Spec => []TypeOK
<1>1. Init => TypeOK
  <2>1. SUFFICES ASSUME Init PROVE TypeOK
    OBVIOUS
  <2>2. findings \in [Finding -> WorkingFinding]
    BY <2>1 DEF Init, WorkingFinding, FiledFinding, Contract!FiledFinding
  <2>3. risk \in [Node -> Risk]
    BY <2>1, RiskValues DEF Init
  <2>4. QED BY <2>1, <2>2, <2>3 DEF Init, TypeOK, Stage, Edge
<1>2. TypeOK /\ [Next]_vars => TypeOK'
  <2>1. SUFFICES ASSUME TypeOK, [Next]_vars PROVE TypeOK'
    OBVIOUS
  <2> USE DEF TypeOK, Stage, inputs
  <2>2. CASE ApplyRecencyDemotion
    <3>1. findings' \in [Finding -> WorkingFinding]
      BY <2>1, <2>2, RewriteTypes DEF ApplyRecencyDemotion, Rewrite
    <3>2. QED BY <2>1, <2>2, <3>1 DEF ApplyRecencyDemotion, Rewrite
  <2>3. CASE ApplyPresumedDemotion
    <3>1. findings' \in [Finding -> WorkingFinding]
      BY <2>1, <2>3, RewriteTypes DEF ApplyPresumedDemotion, Rewrite
    <3>2. QED BY <2>1, <2>3, <3>1 DEF ApplyPresumedDemotion, Rewrite
  <2>4. CASE ApplyContainment
    <3>1. findings' \in [Finding -> WorkingFinding]
      BY <2>1, <2>4, RewriteTypes DEF ApplyContainment, Rewrite
    <3>2. QED BY <2>1, <2>4, <3>1 DEF ApplyContainment, Rewrite
  <2>5. CASE Tally
    <3>1. counts' \in [block: Nat, eligible: Nat, advisory: Nat]
      BY <2>5, TalliedType DEF Tally
    <3>2. grouped' \subseteq Node
      BY <2>1, <2>5 DEF Tally, WorkingFinding
    <3>3. risk' \in [Node -> Risk]
      BY <2>5, RiskValues DEF Tally
    <3>4. QED BY <2>1, <2>5, <3>1, <3>2, <3>3 DEF Tally
  <2>6. CASE \E n \in Node : Overlay(n)
    <3>1. PICK n \in Node : Overlay(n)
      BY <2>6
    <3>2. risk' \in [Node -> Risk]
      BY <2>1, <3>1, RiskValues DEF Overlay
    <3>3. QED BY <2>1, <3>1, <3>2 DEF Overlay
  <2>7. CASE StartPropagation
    BY <2>1, <2>7 DEF StartPropagation
  <2>8. CASE \E p \in Package : StartPackage(p)
    BY <2>1, <2>8 DEF StartPackage, Adjacent
  <2>9. CASE \E n \in Node : Traverse(n)
    <3>1. PICK n \in Node : Traverse(n)
      BY <2>9
    <3>2. CASE n \in seen
      BY <2>1, <3>1, <3>2 DEF Traverse
    <3>3. CASE n \notin seen
      <4>1. risk' \in [Node -> Risk]
        BY <2>1, <3>1, <3>3 DEF Traverse, Raised
      <4>2. QED BY <2>1, <3>1, <3>3, <4>1 DEF Traverse, Enqueue, Adjacent
    <3>4. QED BY <3>2, <3>3
  <2>10. CASE FinishPackage
    BY <2>1, <2>10 DEF FinishPackage
  <2>11. CASE FinishPropagation
    BY <2>1, <2>11 DEF FinishPropagation
  <2>12. CASE Decide
    <3>1. exitCode' \in 0..3
      BY <2>12 DEF Decide, ExitCodeIn, Contract!ExitBlock, Contract!ExitGate,
                   Contract!ExitIncomplete, Contract!ExitClean
    <3>2. QED BY <2>1, <2>12, <3>1 DEF Decide
  <2>13. CASE Done
    BY <2>1, <2>13 DEF Done, vars, working
  <2>14. CASE UNCHANGED vars
    BY <2>1, <2>14 DEF vars, working
  <2>15. QED
    BY <2>1, <2>2, <2>3, <2>4, <2>5, <2>6, <2>7, <2>8, <2>9, <2>10, <2>11, <2>12,
       <2>13, <2>14 DEF Next
<1>3. QED BY <1>1, <1>2, PTL DEF Spec

-----------------------------------------------------------------------------
\* The inputs never change, so what the contract promises for them never does.
LEMMA InputsFixed == [Next]_vars => UNCHANGED inputs
BY DEF Next, vars, ApplyRecencyDemotion, ApplyPresumedDemotion, ApplyContainment, Rewrite,
       Tally, Overlay, StartPropagation, StartPackage, Traverse, FinishPackage,
       FinishPropagation, Decide, Done

LEMMA PromisesFixed ==
    ASSUME UNCHANGED inputs
    PROVE  /\ \A f \in Finding : /\ Contract!MayBlock(f)' <=> Contract!MayBlock(f)
                                 /\ Contract!MayGate(f)' <=> Contract!MayGate(f)
                                 /\ FinalGate(f)' = FinalGate(f)
                                 /\ Presumed(f)' <=> Presumed(f)
           /\ \A n \in Node : /\ Contract!OwnRisk(n)' = Contract!OwnRisk(n)
                              /\ Contract!HeatSources(n)' = Contract!HeatSources(n)
           /\ Contract!InstallEdges' = Contract!InstallEdges
           /\ Contract!ContainedPromised' = Contract!ContainedPromised
           /\ Contract!ExitPromised' = Contract!ExitPromised
BY DEF inputs, Contract!MayBlock, Contract!MayGate, FinalGate, Presumed, Contract!OwnRisk,
       Contract!HeatSources, Contract!InstallEdges, Contract!ContainedPromised,
       Contract!ExitPromised, Contract!IsPresumed

\* A node's own risk is one of the three risk states.
LEMMA OwnRiskType ==
    ASSUME NEW n
    PROVE  Contract!OwnRisk(n) \in Risk
BY RiskValues DEF Contract!OwnRisk, Contract!Flagged, Contract!Warned, Contract!Clean

\* The two demotions, one after the other, leave exactly the promised gate class,
\* and the containment stage marks exactly the promised findings.
LEMMA FindingsStep == TypeOK /\ FindingsInv /\ [Next]_vars => FindingsInv'
<1>1. SUFFICES ASSUME TypeOK, FindingsInv, [Next]_vars, NEW f \in Finding
               PROVE  /\ SameFinding(f)'
                      /\ stage' = "recency" => findings'[f].gate = filed'[f].gate
                      /\ stage' = "presumed" =>
                            findings'[f].gate =
                               IF filed'[f].gate = "gate-eligible" /\ filed'[f].decay = "stale"
                               THEN "advisory" ELSE filed'[f].gate
                      /\ stage' \notin {"recency", "presumed"} =>
                            findings'[f].gate = FinalGate(f)'
                      /\ findings'[f].contained <=>
                            /\ stage' \notin {"recency", "presumed", "containment"}
                            /\ f \in Contract!ContainedPromised'
  BY DEF FindingsInv
<1> DEFINE Kept ==
      /\ findings' = findings
      /\ stage' \notin {"recency", "presumed", "containment"}
      /\ stage \notin {"recency", "presumed", "containment"}
<1>2. UNCHANGED inputs
  BY <1>1, InputsFixed
<1>3. findings[f] \in WorkingFinding
  BY <1>1 DEF TypeOK
<1>4. CASE ApplyRecencyDemotion
  <2>1. findings'[f] = RecencyDemoted(findings[f]) /\ stage = "recency" /\ stage' = "presumed"
    BY <1>4 DEF ApplyRecencyDemotion, Rewrite
  <2>2. QED
    BY <1>1, <1>2, <1>3, <2>1
    DEF FindingsInv, SameFinding, RecencyDemoted, Stale, WorkingFinding, inputs
<1>5. CASE ApplyPresumedDemotion
  <2>1. /\ findings'[f] = PresumedDemoted(findings[f])
        /\ stage = "presumed" /\ stage' = "containment"
    BY <1>5 DEF ApplyPresumedDemotion, Rewrite
  <2>2. filed[f] \in FiledFinding
    BY <1>1 DEF TypeOK
  <2>3. findings'[f].gate = FinalGate(f)
    BY <1>1, <1>3, <2>1, <2>2
    DEF FindingsInv, SameFinding, PresumedDemoted, Presumed, WorkingFinding, FinalGate,
        Contract!MayBlock, Contract!MayGate, Contract!IsPresumed, FiledFinding,
        Contract!FiledFinding, Contract!GateClass
  <2>4. /\ findings'[f].node = findings[f].node
        /\ findings'[f].decay = findings[f].decay
        /\ findings'[f].contained = findings[f].contained
    BY <1>3, <2>1 DEF PresumedDemoted, WorkingFinding
  <2>5. QED
    BY <1>1, <1>2, <2>1, <2>3, <2>4, PromisesFixed DEF FindingsInv, SameFinding, inputs
<1>6. CASE ApplyContainment
  <2>1. /\ findings'[f] = Contain(findings[f])
        /\ stage = "containment" /\ stage' = "tally"
    BY <1>6 DEF ApplyContainment, Rewrite
  <2>2. ReachableRoots(findings[f].node) \cap policy.real = {} <=>
           \A r \in policy.real : filed[f].node \notin Contract!ReachedFrom(edges, r)
    <3>1. findings[f].node = filed[f].node /\ policy.real \subseteq Root
      BY <1>1 DEF FindingsInv, SameFinding, TypeOK, Contract!Policy
    <3>2. QED BY <3>1 DEF ReachableRoots
  <2>3. findings'[f].contained <=> f \in Contract!ContainedPromised
    BY <1>1, <1>3, <2>1, <2>2
    DEF FindingsInv, Contain, WorkingFinding, Contract!ContainedPromised
  <2>4. /\ findings'[f].node = findings[f].node
        /\ findings'[f].decay = findings[f].decay
        /\ findings'[f].gate = findings[f].gate
    BY <1>3, <2>1 DEF Contain, WorkingFinding
  <2>5. QED
    BY <1>1, <1>2, <2>1, <2>3, <2>4, PromisesFixed DEF FindingsInv, SameFinding, inputs
<1>7. CASE Kept
  BY <1>1, <1>2, <1>7, PromisesFixed DEF FindingsInv, SameFinding, inputs
<1>8. CASE UNCHANGED <<findings, stage>>
  BY <1>1, <1>2, <1>8, PromisesFixed DEF FindingsInv, SameFinding, inputs
<1>9. Next => ApplyRecencyDemotion \/ ApplyPresumedDemotion \/ ApplyContainment \/ Kept
              \/ UNCHANGED <<findings, stage>>
  BY DEF Next, Tally, Overlay, StartPropagation, StartPackage, Traverse, FinishPackage,
         FinishPropagation, Decide, Done, vars, working
<1>10. QED BY <1>1, <1>4, <1>5, <1>6, <1>7, <1>8, <1>9 DEF vars, working

LEMMA TalliedPositive ==
    ASSUME NEW class
    PROVE  Tallied(class) > 0 <=> \E f \in Finding : findings[f].gate = class
<1> DEFINE Of == {f \in Finding : findings[f].gate = class}
<1>1. IsFiniteSet(Of)
  BY FS_Subset
<1>2. Cardinality(Of) \in Nat /\ (Cardinality(Of) = 0 <=> Of = {})
  BY <1>1, FS_CardinalityType, FS_EmptySet
<1>3. QED BY <1>2 DEF Tallied

\* The tally counts what the demotions left, so a class is counted exactly when
\* some finding keeps it.
LEMMA CountsStep == TypeOK /\ FindingsInv /\ CountsInv /\ [Next]_vars => CountsInv'
<1>1. SUFFICES ASSUME TypeOK, FindingsInv, CountsInv, [Next]_vars PROVE CountsInv'
  OBVIOUS
<1>2. UNCHANGED inputs
  BY <1>1, InputsFixed
<1>3. CASE Tally
  <2>1. \A f \in Finding : findings[f].gate = FinalGate(f)
    BY <1>1, <1>3 DEF FindingsInv, Tally
  <2>2. \A f \in Finding : /\ findings[f].gate = "block" <=> Contract!MayBlock(f)
                           /\ findings[f].gate = "gate-eligible" <=> Contract!MayGate(f)
    BY <2>1 DEF FinalGate, Contract!MayBlock, Contract!MayGate
  <2>3. /\ counts'.block > 0 <=> \E f \in Finding : Contract!MayBlock(f)
        /\ counts'.eligible > 0 <=> \E f \in Finding : Contract!MayGate(f)
    BY <1>3, <2>2, TalliedPositive DEF Tally
  <2>4. QED BY <1>2, <2>3, PromisesFixed DEF CountsInv
<1>4. CASE stage' \in {"recency", "presumed", "containment", "tally"}
  BY <1>4 DEF CountsInv
<1>5. CASE counts' = counts /\ stage \notin {"recency", "presumed", "containment", "tally"}
  BY <1>1, <1>2, <1>5, PromisesFixed DEF CountsInv
<1>6. CASE UNCHANGED vars
  BY <1>1, <1>2, <1>6, PromisesFixed DEF CountsInv, vars, working
<1>7. Next => \/ Tally
              \/ stage' \in {"recency", "presumed", "containment", "tally"}
              \/ counts' = counts /\ stage \notin {"recency", "presumed", "containment", "tally"}
              \/ UNCHANGED vars
  BY DEF Next, ApplyRecencyDemotion, ApplyPresumedDemotion, ApplyContainment, Rewrite,
         Overlay, StartPropagation, StartPackage, Traverse, FinishPackage,
         FinishPropagation, Decide, Done
<1>8. QED BY <1>1, <1>3, <1>4, <1>5, <1>6, <1>7

-----------------------------------------------------------------------------
\* A node with findings shows its own risk once it is overlaid; a node without
\* findings is clean from the start.
LEMMA OverlayStep == TypeOK /\ FindingsInv /\ OverlayInv /\ [Next]_vars => OverlayInv'
<1>1. SUFFICES ASSUME TypeOK, FindingsInv, OverlayInv, [Next]_vars PROVE OverlayInv'
  OBVIOUS
<1>2. UNCHANGED inputs
  BY <1>1, InputsFixed
<1>3. CASE Tally
  <2>1. \A f \in Finding : findings[f].node = filed[f].node
    BY <1>1 DEF FindingsInv, SameFinding
  <2>2. grouped' = {filed[f].node : f \in Finding}
    BY <1>3, <2>1 DEF Tally
  <2>3. \A n \in Node \ grouped' : Contract!OwnRisk(n) = Clean
    BY <2>2 DEF Contract!OwnRisk, Clean, Contract!MayBlock
  <2>4. risk' = [n \in Node |-> Clean] /\ filed' = filed
    BY <1>2, <1>3 DEF Tally, inputs
  <2>5. QED BY <1>2, <2>2, <2>3, <2>4, PromisesFixed DEF OverlayInv
<1>4. CASE \E n \in Node : Overlay(n)
  <2>1. PICK n \in Node : Overlay(n)
    BY <1>4
  <2>2. \A f \in Finding : /\ findings[f].node = filed[f].node
                           /\ findings[f].gate = FinalGate(f)
    BY <1>1, <2>1 DEF FindingsInv, SameFinding, Overlay
  <2>3. \A f \in Finding : findings[f].gate = "block" <=> Contract!MayBlock(f)
    BY <2>2 DEF FinalGate
  <2>4. PICK f \in Finding : filed[f].node = n
    BY <1>1, <2>1 DEF OverlayInv, Overlay
  <2>5. risk'[n] = Contract!OwnRisk(n)
    <3>1. risk'[n] = IF \E g \in Finding : filed[g].node = n /\ Contract!MayBlock(g)
                     THEN Flagged ELSE Warned
      BY <1>1, <2>1, <2>2, <2>3 DEF TypeOK, Overlay
    <3>2. QED BY <2>4, <3>1 DEF Contract!OwnRisk, Flagged, Warned
  <2>6. /\ \A m \in Node : m # n => risk'[m] = risk[m]
        /\ grouped' = grouped \ {n} /\ stage = "overlay" /\ filed' = filed
    BY <1>1, <1>2, <2>1 DEF Overlay, TypeOK, inputs
  <2>7. \A m \in Node : risk'[m] = IF m \in grouped' THEN Clean ELSE Contract!OwnRisk(m)
    BY <1>1, <2>5, <2>6 DEF OverlayInv
  <2>8. QED BY <1>1, <1>2, <2>6, <2>7, PromisesFixed DEF OverlayInv
<1>5. CASE stage' # "overlay"
  BY <1>5 DEF OverlayInv
<1>6. CASE UNCHANGED <<stage, grouped, risk>>
  BY <1>1, <1>2, <1>6, PromisesFixed DEF OverlayInv, inputs
<1>7. Next => \/ Tally
              \/ \E n \in Node : Overlay(n)
              \/ stage' # "overlay"
              \/ UNCHANGED <<stage, grouped, risk>>
  BY DEF Next, ApplyRecencyDemotion, ApplyPresumedDemotion, ApplyContainment, Rewrite,
         StartPropagation, StartPackage, Traverse, FinishPackage,
         FinishPropagation, Decide, Done, vars, working
<1>8. QED BY <1>1, <1>3, <1>4, <1>5, <1>6, <1>7 DEF vars, working

-----------------------------------------------------------------------------
Heat == Contract!InstallEdges

LEMMA AdjacentByEdge ==
    ASSUME NEW n, NEW m
    PROVE  m \in Adjacent(n) <=> m \in Node /\ \E e \in Heat : e.from = n /\ e.to = m
BY DEF Adjacent, Heat, Contract!InstallEdges

LEMMA EndsAreNodes == TypeOK => \A e \in Heat : e.from \in Node /\ e.to \in Node
BY DEF TypeOK, Edge, Contract!Edge, Heat, Contract!InstallEdges

\* The traversal stays within what the package reaches and leaves no install-time
\* edge out of a visited node unfollowed.
LEMMA TraversalStep ==
    TypeOK /\ OverlayInv /\ TraversalInv /\ [Next]_vars => TraversalInv'
<1>1. SUFFICES ASSUME TypeOK, TraversalInv, [Next]_vars PROVE TraversalInv'
  OBVIOUS
<1>2. UNCHANGED inputs /\ Heat' = Heat
  BY <1>1, InputsFixed, PromisesFixed DEF Heat
<1>3. \A p \in Package : p \in Contract!ReachedFrom(Heat, p)
  BY ReachReflexive
<1>4. CASE \E p \in Package : StartPackage(p)
  <2>1. PICK p \in Package : StartPackage(p)
    BY <1>4
  <2>2. CASE risk[p] = Clean
    BY <1>1, <2>1, <2>2 DEF StartPackage, TraversalInv
  <2>3. CASE risk[p] # Clean
    <3>1. /\ stage' = "traverse" /\ pkg' = p /\ seen' = {p} /\ queue' = Adjacent(p)
          /\ risk' = risk
      BY <2>1, <2>3 DEF StartPackage
    <3>2. Adjacent(p) \subseteq Contract!ReachedFrom(Heat, p)
      BY <1>3, AdjacentByEdge, ReachStep
    <3>3. \A e \in Heat : e.from = p => e.to \in Adjacent(p)
      BY <1>1, AdjacentByEdge, EndsAreNodes
    <3>4. risk[p] <= risk[p]
      BY <1>1, RiskValues DEF TypeOK
    <3>5. QED BY <1>2, <1>3, <3>1, <3>2, <3>3, <3>4 DEF TraversalInv, Heat
  <2>4. QED BY <2>2, <2>3
<1>5. CASE \E n \in Node : Traverse(n)
  <2>1. PICK n \in Node : Traverse(n)
    BY <1>5
  <2>2. stage = "traverse" /\ stage' = "traverse" /\ pkg' = pkg /\ n \in queue
    BY <2>1 DEF Traverse
  <2>3. CASE n \in seen
    BY <1>1, <1>2, <2>1, <2>2, <2>3 DEF Traverse, TraversalInv, Heat
  <2>4. CASE n \notin seen
    <3>1. /\ seen' = seen \cup {n}
          /\ risk' = [risk EXCEPT ![n] = Raised(n)]
          /\ queue' = (queue \ {n}) \cup Adjacent(n)
      BY <2>1, <2>4 DEF Traverse, Enqueue
    <3>2. n \in Contract!ReachedFrom(Heat, pkg)
      BY <1>1, <2>2 DEF TraversalInv, Heat
    <3>3. Adjacent(n) \subseteq Contract!ReachedFrom(Heat, pkg)
      BY <3>2, AdjacentByEdge, ReachStep
    <3>4. \A e \in Heat : e.from = n => e.to \in Adjacent(n)
      BY <1>1, AdjacentByEdge, EndsAreNodes
    <3>5. pkg # n /\ pkg \in Node
      BY <1>1, <2>2, <2>4 DEF TraversalInv, TypeOK
    <3>6. \A m \in seen' : risk'[pkg] <= risk'[m]
      BY <1>1, <2>2, <3>1, <3>5, RiskValues DEF TraversalInv, TypeOK, Raised
    <3>7. seen' \cup queue' \subseteq Contract!ReachedFrom(Heat, pkg)
      BY <1>1, <2>2, <3>1, <3>3 DEF TraversalInv, Heat
    <3>8. \A e \in Heat : e.from \in seen' => e.to \in seen' \cup queue'
      BY <1>1, <2>2, <3>1, <3>4 DEF TraversalInv, Heat
    <3>9. QED BY <1>1, <1>2, <2>2, <3>1, <3>6, <3>7, <3>8 DEF TraversalInv, Heat
  <2>5. QED BY <2>3, <2>4
<1>6. CASE stage' # "traverse" /\ queue' = {}
  BY <1>6 DEF TraversalInv
<1>7. CASE stage # "traverse" /\ stage' # "traverse" /\ queue' = queue
  BY <1>1, <1>7 DEF TraversalInv
<1>8. CASE UNCHANGED <<stage, pkg, seen, queue, risk>>
  BY <1>1, <1>2, <1>8 DEF TraversalInv, Heat
<1>9. Next => \/ \E p \in Package : StartPackage(p)
              \/ \E n \in Node : Traverse(n)
              \/ stage' # "traverse" /\ queue' = {}
              \/ stage # "traverse" /\ stage' # "traverse" /\ queue' = queue
              \/ UNCHANGED <<stage, pkg, seen, queue, risk>>
  BY DEF Next, ApplyRecencyDemotion, ApplyPresumedDemotion, ApplyContainment, Rewrite,
         Tally, Overlay, StartPropagation, FinishPackage, FinishPropagation, Decide, Done,
         vars, working
<1>10. QED BY <1>1, <1>4, <1>5, <1>6, <1>7, <1>8, <1>9 DEF vars, working

\* Heat reaches every node a package reaches and comes from nowhere else.
LEMMA PropagationStep ==
    /\ TypeOK
    /\ OverlayInv
    /\ PropagationInv
    /\ TraversalInv
    /\ [Next]_vars
    => PropagationInv'
<1>1. SUFFICES ASSUME TypeOK, OverlayInv, PropagationInv, TraversalInv, [Next]_vars
               PROVE  PropagationInv'
  OBVIOUS
<1> DEFINE Active == stage \in {"propagate", "traverse", "decide", "done"}
           FromSource(r) == \A n \in Node : \E m \in Contract!HeatSources(n) :
                                r[n] = Contract!OwnRisk(m)
           AtLeastOwn(r) == \A n \in Node : Contract!OwnRisk(n) <= r[n]
           Heated(p, r) == \A n \in Contract!ReachedFrom(Heat, p) : Contract!OwnRisk(p) <= r[n]
<1>2. UNCHANGED inputs
  BY <1>1, InputsFixed
<1>3. SUFFICES ASSUME stage' \in {"propagate", "traverse", "decide", "done"}
               PROVE  /\ FromSource(risk') /\ AtLeastOwn(risk')
                      /\ \A p \in Package : p \in sources' \/ p = pkg' \/ Heated(p, risk')
  <2>1. /\ \A n \in Node : /\ Contract!OwnRisk(n)' = Contract!OwnRisk(n)
                             /\ Contract!HeatSources(n)' = Contract!HeatSources(n)
        /\ Contract!InstallEdges' = Contract!InstallEdges
    BY <1>2, PromisesFixed
  <2>2. \A p \in Package : /\ Contract!OwnRisk(p)' = Contract!OwnRisk(p)
                            /\ Contract!ReachedFrom(Contract!InstallEdges, p)'
                                 = Contract!ReachedFrom(Heat, p)
    BY <2>1 DEF Heat
  <2>3. /\ FromSource(risk') <=> (\A n \in Node : \E m \in Contract!HeatSources(n)' :
                                    risk'[n] = Contract!OwnRisk(m)')
        /\ AtLeastOwn(risk') <=> (\A n \in Node : Contract!OwnRisk(n)' <= risk'[n])
    BY <2>1 DEF Contract!HeatSources
  <2>4. ASSUME \A p \in Package : p \in sources' \/ p = pkg' \/ Heated(p, risk')
        PROVE  \A p \in Package :
                  \A n \in Contract!ReachedFrom(Contract!InstallEdges, p)' :
                     p \in sources' \/ p = pkg' \/ Contract!OwnRisk(p)' <= risk'[n]
    BY <2>2, <2>4
  <2>5. QED BY <2>3, <2>4 DEF PropagationInv
<1>4. CASE StartPropagation
  <2>1. \A n \in Node : risk'[n] = Contract!OwnRisk(n)
    BY <1>1, <1>4 DEF StartPropagation, OverlayInv
  <2>2. sources' = Package
    BY <1>4 DEF StartPropagation
  <2>3. \A n \in Node : n \in Contract!HeatSources(n)
    BY DEF Contract!HeatSources
  <2>4. \A n \in Node : Contract!OwnRisk(n) <= Contract!OwnRisk(n)
    BY OwnRiskType, RiskValues
  <2>5. QED BY <2>1, <2>2, <2>3, <2>4
<1>5. ASSUME Active
      PROVE  /\ FromSource(risk) /\ AtLeastOwn(risk)
             /\ \A p \in Package : p \in sources \/ p = pkg \/ Heated(p, risk)
  BY <1>1, <1>5 DEF PropagationInv, Heat
<1>6. CASE \E p \in Package : StartPackage(p)
  <2>1. PICK p \in Package : StartPackage(p)
    BY <1>6
  <2>2. Active /\ risk' = risk /\ sources' = sources \ {p} /\ pkg = NoPackage
    BY <1>1, <2>1 DEF StartPackage, TypeOK
  <2>3. CASE risk[p] = Clean
    <3>1. Contract!OwnRisk(p) = 0
      BY <1>5, <2>2, <2>3, OwnRiskType, RiskValues
    <3>2. Heated(p, risk)
      BY <1>1, <3>1, RiskValues DEF TypeOK, Contract!ReachedFrom
    <3>3. pkg' = pkg
      BY <2>1, <2>3 DEF StartPackage
    <3>4. QED BY <1>5, <2>2, <3>2, <3>3
  <2>4. CASE risk[p] # Clean
    <3>1. pkg' = p
      BY <2>1, <2>4 DEF StartPackage
    <3>2. NoPackage \notin Package
      OBVIOUS
    <3>3. QED BY <1>5, <2>2, <3>1, <3>2
  <2>5. QED BY <2>3, <2>4
<1>7. CASE \E n \in Node : Traverse(n)
  <2>1. PICK n \in Node : Traverse(n)
    BY <1>7
  <2>2. Active /\ stage = "traverse" /\ sources' = sources /\ pkg' = pkg /\ n \in queue
    BY <2>1 DEF Traverse
  <2>3. CASE n \in seen
    BY <1>5, <2>1, <2>2, <2>3 DEF Traverse
  <2>4. CASE n \notin seen
    <3>1. risk' = [risk EXCEPT ![n] = Raised(n)]
      BY <2>1, <2>4 DEF Traverse
    <3>2. pkg \in Package /\ pkg \in Node /\ risk[pkg] \in {0, 1, 2} /\ risk[n] \in {0, 1, 2}
      BY <1>1, <2>2, RiskValues DEF TypeOK
    <3>3. \A m \in Node : m # n => risk'[m] = risk[m]
      BY <1>1, <3>1 DEF TypeOK
    <3>4. /\ risk'[n] = risk[pkg] \/ risk'[n] = risk[n]
          /\ risk[n] <= risk'[n]
      BY <1>1, <3>1, <3>2 DEF TypeOK, Raised
    <3>5. \A m \in Node : risk[m] <= risk'[m] /\ risk[m] \in {0, 1, 2} /\ risk'[m] \in {0, 1, 2}
      BY <1>1, <3>2, <3>3, <3>4, RiskValues DEF TypeOK
    <3>6. n \in Contract!ReachedFrom(Heat, pkg)
      BY <1>1, <2>2 DEF TraversalInv, Heat
    <3>7. Contract!HeatSources(pkg) \subseteq Contract!HeatSources(n)
      <4>1. SUFFICES ASSUME NEW m \in Contract!HeatSources(pkg)
                     PROVE  m \in Package /\ n \in Contract!ReachedFrom(Heat, m)
        BY DEF Contract!HeatSources, Heat
      <4>2. CASE m = pkg
        BY <3>2, <3>6, <4>2
      <4>3. CASE m \in Package /\ pkg \in Contract!ReachedFrom(Heat, m)
        BY <3>6, <4>3, ReachTransitive
      <4>4. QED BY <4>1, <4>2, <4>3 DEF Contract!HeatSources, Heat
    <3>8. FromSource(risk')
      <4>1. SUFFICES ASSUME NEW k \in Node
                     PROVE  \E m \in Contract!HeatSources(k) : risk'[k] = Contract!OwnRisk(m)
        OBVIOUS
      <4>2. CASE k # n \/ risk'[n] = risk[n]
        BY <1>5, <2>2, <3>3, <4>2
      <4>3. CASE k = n /\ risk'[n] = risk[pkg]
        BY <1>5, <2>2, <3>2, <3>7, <4>3
      <4>4. QED BY <3>4, <4>2, <4>3
    <3>9. AtLeastOwn(risk')
      BY <1>5, <2>2, <3>5, OwnRiskType, RiskValues
    <3>10. ASSUME NEW p \in Package, Heated(p, risk)
           PROVE  Heated(p, risk')
      BY <3>5, <3>10, OwnRiskType, RiskValues DEF Contract!ReachedFrom
    <3>11. QED BY <1>5, <2>2, <3>8, <3>9, <3>10
  <2>5. QED BY <2>3, <2>4
<1>8. CASE FinishPackage
  <2>1. /\ Active /\ stage = "traverse" /\ queue = {}
        /\ risk' = risk /\ sources' = sources /\ pkg' = NoPackage
    BY <1>8 DEF FinishPackage
  <2>2. pkg \in Package /\ seen \subseteq Node /\ pkg \in seen
    BY <1>1, <2>1 DEF TypeOK, TraversalInv
  <2>3. Contract!ReachedFrom(Heat, pkg) \subseteq seen
    BY <1>1, <2>1, <2>2, ReachWithinClosed DEF TraversalInv, Heat
  <2>4. \A n \in seen : Contract!OwnRisk(pkg) <= risk[n]
    <3>1. SUFFICES ASSUME NEW n \in seen PROVE Contract!OwnRisk(pkg) <= risk[n]
      OBVIOUS
    <3>2. risk[pkg] <= risk[n] /\ Contract!OwnRisk(pkg) <= risk[pkg]
      BY <1>1, <1>5, <2>1, <2>2 DEF TraversalInv
    <3>3. risk[pkg] \in {0, 1, 2} /\ risk[n] \in {0, 1, 2} /\ Contract!OwnRisk(pkg) \in {0, 1, 2}
      BY <1>1, <2>2, OwnRiskType, RiskValues DEF TypeOK
    <3>4. QED BY <3>2, <3>3
  <2>5. Heated(pkg, risk)
    BY <2>3, <2>4
  <2>6. QED BY <1>5, <2>1, <2>5
<1>9. CASE Active /\ UNCHANGED <<risk, sources, pkg>>
  BY <1>5, <1>9
<1>10. Next => \/ StartPropagation
               \/ \E p \in Package : StartPackage(p)
               \/ \E n \in Node : Traverse(n)
               \/ FinishPackage
               \/ Active /\ UNCHANGED <<risk, sources, pkg>>
  BY <1>3
  DEF Next, ApplyRecencyDemotion, ApplyPresumedDemotion, ApplyContainment, Rewrite, Tally,
      Overlay, FinishPropagation, Decide, Done, vars, working
<1>11. UNCHANGED vars => Active /\ UNCHANGED <<risk, sources, pkg>>
  BY <1>3 DEF vars, working
<1>12. QED BY <1>1, <1>4, <1>6, <1>7, <1>8, <1>9, <1>10, <1>11

-----------------------------------------------------------------------------
\* The order of the switch on the tallies is the promised precedence.
LEMMA ExitStep ==
    /\ TypeOK
    /\ CountsInv
    /\ ExitInv
    /\ [Next]_vars
    => ExitInv'
<1>1. SUFFICES ASSUME TypeOK, CountsInv, ExitInv, [Next]_vars PROVE ExitInv'
  OBVIOUS
<1>2. UNCHANGED inputs
  BY <1>1, InputsFixed
<1>3. CASE Decide
  <2>1. exitCode' = Contract!ExitPromised
    BY <1>1, <1>3 DEF Decide, CountsInv, ExitCodeIn, Contract!ExitPromised
  <2>2. QED BY <1>2, <2>1, PromisesFixed DEF ExitInv
<1>4. CASE stage' # "done"
  BY <1>4 DEF ExitInv
<1>5. CASE UNCHANGED <<stage, exitCode>>
  BY <1>1, <1>2, <1>5, PromisesFixed DEF ExitInv
<1>6. Next => Decide \/ stage' # "done" \/ UNCHANGED <<stage, exitCode>>
  BY DEF Next, ApplyRecencyDemotion, ApplyPresumedDemotion, ApplyContainment, Rewrite,
         Tally, Overlay, StartPropagation, StartPackage, Traverse, FinishPackage,
         FinishPropagation, Done, vars, working
<1>7. QED BY <1>1, <1>3, <1>4, <1>5, <1>6 DEF vars, working

LEMMA SourcesStep == SourcesInv /\ [Next]_vars => SourcesInv'
BY DEF SourcesInv, Next, ApplyRecencyDemotion, ApplyPresumedDemotion, ApplyContainment,
       Rewrite, Tally, Overlay, StartPropagation, StartPackage, Traverse, FinishPackage,
       FinishPropagation, Decide, Done, vars, working

\* The inductive invariant: what the demotions, the tally, the overlay and the
\* traversal have achieved at each stage of the evaluation (verdict.go:330-411).
THEOREM Invariance == Spec => []IInv
<1>1. Init => IInv
  <2>1. SUFFICES ASSUME Init PROVE IInv
    OBVIOUS
  <2>2. TypeOK
    <3>1. findings \in [Finding -> WorkingFinding]
      BY <2>1 DEF Init, WorkingFinding, FiledFinding, Contract!FiledFinding
    <3>2. risk \in [Node -> Risk]
      BY <2>1, RiskValues DEF Init
    <3>3. QED BY <2>1, <3>1, <3>2 DEF Init, TypeOK, Stage, Edge
  <2>3. FindingsInv
    BY <2>1 DEF Init, FindingsInv, SameFinding
  <2>4. QED
    BY <2>1, <2>2, <2>3
    DEF Init, IInv, CountsInv, OverlayInv, PropagationInv, TraversalInv, SourcesInv, ExitInv
<1>2. IInv /\ TypeOK' /\ [Next]_vars => IInv'
  BY FindingsStep, CountsStep, OverlayStep, PropagationStep, TraversalStep, SourcesStep,
     ExitStep DEF IInv
<1>3. QED BY <1>1, <1>2, TypeCorrect, PTL DEF Spec

-----------------------------------------------------------------------------
\* The stages implement the contract: the exit code, the risk of every node and
\* the containment labels are the promised ones, for every graph with any cycles,
\* any findings and any policy (verdict.go:5-17).
THEOREM Implementation == Spec => ImplementsContract
<1> DEFINE Result == [exit |-> exitCode,
                      contained |-> {f \in Finding : findings[f].contained},
                      risk |-> risk]
           Verdict0 == IF stage = "done" THEN Result ELSE NoVerdict
<1>1. Init => Contract!Init
  BY DEF Init, Contract!Init, Edge, FiledFinding
<1>2. IInv /\ Decide => Contract!Deliver
  <2>1. SUFFICES ASSUME IInv, Decide PROVE Contract!Deliver
    OBVIOUS
  <2>2. UNCHANGED inputs /\ stage = "decide" /\ stage' = "done"
        /\ risk' = risk /\ findings' = findings /\ pkg' = pkg /\ sources' = sources
    BY <2>1 DEF Decide
  <2>3. risk \in [Node -> Contract!Risk]
    BY <2>1 DEF IInv, TypeOK, Risk
  <2>4. \A n \in Node : Contract!IsRiskPromised(n, risk[n])
    <3>1. SUFFICES ASSUME NEW n \in Node PROVE Contract!IsRiskPromised(n, risk[n])
      OBVIOUS
    <3>2. \A m \in Contract!HeatSources(n) : Contract!OwnRisk(m) <= risk[n]
      BY <2>1, <2>2 DEF IInv, TypeOK, PropagationInv, SourcesInv, Contract!HeatSources
    <3>3. \E m \in Contract!HeatSources(n) : Contract!OwnRisk(m) = risk[n]
      BY <2>1, <2>2 DEF IInv, PropagationInv
    <3>4. QED BY <3>2, <3>3 DEF Contract!IsRiskPromised
  <2>5. exitCode' = Contract!ExitPromised
    BY <2>1, <2>2 DEF IInv, CountsInv, Decide, ExitCodeIn, Contract!ExitPromised
  <2>6. {f \in Finding : findings[f].contained} = Contract!ContainedPromised
    BY <2>1, <2>2 DEF IInv, FindingsInv, Contract!ContainedPromised
  <2>7. QED
    BY <2>2, <2>3, <2>4, <2>5, <2>6 DEF Contract!Deliver, inputs, Contract!inputs
<1>3. IInv /\ [Next]_vars => [Contract!Next]_<<Contract!inputs, Verdict0>>
  <2>1. SUFFICES ASSUME IInv, [Next]_vars
                 PROVE  Contract!Deliver \/ UNCHANGED <<Contract!inputs, Verdict0>>
    BY DEF Contract!Next
  <2>2. UNCHANGED Contract!inputs
    BY <2>1, InputsFixed DEF inputs, Contract!inputs
  <2>3. CASE Decide
    BY <2>1, <2>3, <1>2
  <2>4. CASE stage # "done" /\ stage' # "done"
    BY <2>2, <2>4
  <2>5. CASE UNCHANGED vars
    BY <2>2, <2>5 DEF vars, working
  <2>6. Next => Decide \/ (stage # "done" /\ stage' # "done") \/ UNCHANGED vars
    BY DEF Next, ApplyRecencyDemotion, ApplyPresumedDemotion, ApplyContainment, Rewrite,
           Tally, Overlay, StartPropagation, StartPackage, Traverse, FinishPackage,
           FinishPropagation, Done
  <2>7. QED BY <2>1, <2>3, <2>4, <2>5, <2>6
<1>4. QED
  BY <1>1, <1>3, Invariance, PTL DEF Spec, ImplementsContract, Contract!Spec

\* No step after the tally lowers the risk of a node (verdict.go:97-131).
THEOREM NeverSoftened == Spec => RiskNeverSoftened
<1>1. IInv /\ [Next]_vars =>
        [stage \notin {"recency", "presumed", "containment", "tally"} =>
            \A n \in Node : risk'[n] >= risk[n]]_vars
  <2>1. SUFFICES ASSUME IInv, Next, stage \notin {"recency", "presumed", "containment", "tally"},
                        NEW n \in Node
                 PROVE  risk'[n] >= risk[n]
    OBVIOUS
  <2>2. risk \in [Node -> {0, 1, 2}]
    BY <2>1, RiskValues DEF IInv, TypeOK
  <2>3. CASE \E m \in Node : Overlay(m)
    <3>1. PICK m \in Node : Overlay(m)
      BY <2>3
    <3>2. risk[m] = 0 /\ (risk'[m] = 1 \/ risk'[m] = 2)
      BY <2>1, <2>2, <3>1, RiskValues DEF IInv, OverlayInv, Overlay
    <3>3. \A k \in Node : k # m => risk'[k] = risk[k]
      BY <2>2, <3>1 DEF Overlay
    <3>4. QED BY <2>2, <3>2, <3>3
  <2>4. CASE \E m \in Node : Traverse(m)
    <3>1. PICK m \in Node : Traverse(m)
      BY <2>4
    <3>2. pkg \in Node
      BY <2>1, <3>1 DEF IInv, TypeOK, Traverse
    <3>3. risk' = risk \/ risk' = [risk EXCEPT ![m] = Raised(m)]
      BY <3>1 DEF Traverse
    <3>4. QED BY <2>2, <3>2, <3>3 DEF Raised
  <2>5. CASE risk' = risk
    BY <2>2, <2>5
  <2>6. QED
    BY <2>1, <2>3, <2>4, <2>5
    DEF Next, ApplyRecencyDemotion, ApplyPresumedDemotion, ApplyContainment, Rewrite, Tally,
        StartPropagation, StartPackage, FinishPackage, FinishPropagation, Decide, Done,
        vars, working
<1>2. QED BY <1>1, Invariance, PTL DEF Spec, RiskNeverSoftened

=============================================================================
