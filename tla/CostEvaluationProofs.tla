------------------------ MODULE CostEvaluationProofs ------------------------
(***************************************************************************)
(* What holds of every evaluation, for all registries, contents, prices and *)
(* policies: which stacks it evaluates, what its decision rests on, and     *)
(* what its estimate may be trusted for.                                    *)
(*                                                                          *)
(* Whatever the report says of an estimate follows from how it was made.    *)
(* Founded states that: two scans with a total, of the head as planned and  *)
(* of the state as read, and a plan Terraform made of a content to the      *)
(* head.  The properties are first derived from it, one by one.  Then it is *)
(* carried along: the induction is on where the job is, each place says     *)
(* what the earlier ones have established, and nothing that is established  *)
(* is taken back before the end (EvidenceInv, PlaceInv, FoundedInv).        *)
(***************************************************************************)
EXTENDS CostEstimateProofs, StackRegistryProofs

(* --- what an estimate is founded on ---------------------------------- *)

ProposedIsScanned ==
    documents["proposed"] \in ScansOf(schema, trigger.head, Unresolved(plan.changes, trigger.head))

BaselineIsScanned == documents["baseline"] \in ScansOf(schema, baseline, {})

\* Two scans with a total, of the head as planned and of the state as read.
Founded ==
    /\ schema \in {"v2", "v0.10"}
    /\ trigger.head \in Content /\ baseline \in Content
    /\ plan.before \in Content /\ plan.changes \in ChangesOf(plan.before, trigger.head)
    /\ ProposedIsScanned /\ documents["proposed"].total # Null
    /\ BaselineIsScanned /\ documents["baseline"].total # Null
    /\ estimate = BuildEstimate(Parse(documents["proposed"]), Parse(documents["baseline"]),
                                PlanActions(plan.changes))

\* Each of the two documents is an answer to its scan.
LEMMA FoundedOnScans ==
    ASSUME Founded
    PROVE  /\ ScanFacts(documents["proposed"], schema, trigger.head,
                        Unresolved(plan.changes, trigger.head))
           /\ ScanFacts(documents["baseline"], schema, baseline, {})
<1>1. Unresolved(plan.changes, trigger.head) \in SUBSET Address
    BY ContentAssumption DEF Founded, Unresolved
<1>2. {} \in SUBSET Address
    OBVIOUS
<1> QED
    BY <1>1, <1>2, ScansAreFactual DEF Founded, ProposedIsScanned, BaselineIsScanned

(* --- the properties of an estimate, one by one ----------------------- *)

\* The rows add up to the totals but for the drift.
LEMMA FoundedReconciles ==
    ASSUME Founded
    PROVE  ReconciliationProblems(estimate) =
            {field \in {"new", "delta"} :
                /\ Complete(estimate)
                /\ BeyondTolerance(IF field = "new" THEN DriftOf(documents["proposed"])
                                                     ELSE Rounding)}
<1> DEFINE d == documents["proposed"]
           e == documents["baseline"]
           p == Parse(d)
           b == Parse(e)
           A == DOMAIN Bill[trigger.head]
           B == DOMAIN Bill[baseline]
           sumA == SumFunctionOnSet(CostsOf(p, A), A)
           sumB == SumFunctionOnSet(CostsOf(b, B), B)
           R == DOMAIN estimate.rows
<1>1. /\ Costed(p) /\ DOMAIN p.resources \subseteq A /\ IsFiniteSet(A)
      /\ Costed(b) /\ DOMAIN b.resources \subseteq B /\ IsFiniteSet(B)
    BY FoundedOnScans, ScansParse DEF Founded
<1>2. /\ d.total \in Nat /\ DriftOf(d) \in Int /\ d.total = DriftOf(d) + sumA
      /\ e.total \in Nat /\ DriftOf(e) \in Int /\ e.total = DriftOf(e) + sumB
    BY FoundedOnScans DEF Founded, ScanFacts
<1>3. estimate.new = d.total /\ estimate.previous = e.total
    BY DEF Founded, BuildEstimate, Parse
<1>4. estimate = BuildEstimate(p, b, PlanActions(plan.changes))
    BY DEF Founded
<1>5. Rounding = DriftOf(d) - DriftOf(e)
    BY DEF Rounding
<1>6. sumA \in Int /\ sumB \in Int
    <2>1. /\ \A a \in A : CostsOf(p, A)[a] \in Nat
          /\ \A a \in B : CostsOf(b, B)[a] \in Nat
        BY <1>1, CostsAreNatural DEF CostsOf
    <2> HIDE DEF p, b, A, B
    <2> QED
        BY <1>1, <2>1, SumIsNatural
<1> HIDE DEF p, b, A, B
<1>7. SumOfRows(estimate, R, "new") = sumA /\ SumOfRows(estimate, R, "delta") = sumA - sumB
    BY <1>1, <1>4, RowsAddUp
<1> HIDE DEF d, e, sumA, sumB, R
<1>8. /\ SumOfRows(estimate, R, "new") - estimate.new = - DriftOf(d)
      /\ SumOfRows(estimate, R, "delta") - Increment(estimate) = - Rounding
      /\ DriftOf(d) \in Int /\ Rounding \in Int
    BY <1>2, <1>3, <1>5, <1>6, <1>7 DEF Increment
<1>9. \A x \in Int : BeyondTolerance(-x) <=> BeyondTolerance(x)
    BY DEF BeyondTolerance, Tolerance
<1>10. /\ BeyondTolerance(SumOfRows(estimate, R, "new") - estimate.new)
            <=> BeyondTolerance(DriftOf(d))
       /\ BeyondTolerance(SumOfRows(estimate, R, "delta") - Increment(estimate))
            <=> BeyondTolerance(Rounding)
    BY <1>8, <1>9
<1>11. \A field \in {"new", "delta"} :
            BeyondTolerance(SumOfRows(estimate, R, field)
                            - IF field = "new" THEN estimate.new ELSE Increment(estimate))
            <=> BeyondTolerance(IF field = "new" THEN DriftOf(d) ELSE Rounding)
    BY <1>10
<1> QED
    BY <1>11 DEF ReconciliationProblems, R, d

\* A row is made of the two costs of a resource that a document lists.
LEMMA FoundedRows ==
    ASSUME Founded, NEW a \in DOMAIN estimate.rows
    PROVE  LET p == Parse(documents["proposed"])
               b == Parse(documents["baseline"])
           IN  /\ a \in DOMAIN p.resources \cup DOMAIN b.resources
               /\ estimate.rows[a] = Row(p, b, PlanActions(plan.changes), a)
               /\ estimate.rows[a].previous = CostIn(b, a) /\ CostIn(b, a) \in Nat
               /\ estimate.rows[a].new = CostIn(p, a) /\ CostIn(p, a) \in Nat
               /\ estimate.rows[a].delta = CostIn(p, a) - CostIn(b, a)
<1> DEFINE p == Parse(documents["proposed"])
           b == Parse(documents["baseline"])
<1>1. Costed(p) /\ Costed(b)
    BY FoundedOnScans, ScansParse DEF Founded
<1>2. estimate = BuildEstimate(p, b, PlanActions(plan.changes))
    BY DEF Founded
<1> HIDE DEF p, b
<1>3. /\ DOMAIN estimate.rows = RowAddresses(p, b)
      /\ estimate.rows[a] = Row(p, b, PlanActions(plan.changes), a)
    BY <1>2, RowsOfEstimate
<1>4. CostIn(p, a) \in Nat /\ CostIn(b, a) \in Nat
    BY <1>1, CostsAreNatural
<1>5. a \in DOMAIN p.resources \cup DOMAIN b.resources
    BY <1>3 DEF RowAddresses
<1>6. /\ estimate.rows[a].previous = CostIn(b, a)
      /\ estimate.rows[a].new = CostIn(p, a)
      /\ estimate.rows[a].delta = CostIn(p, a) - CostIn(b, a)
    BY <1>3 DEF Row
<1> QED
    BY <1>3, <1>4, <1>5, <1>6 DEF p, b

\* A cost that moves has a row, and the report lists it.
LEMMA FoundedMovesAreListed ==
    ASSUME Founded
    PROVE  MovedCostIsListed
<1> DEFINE d == documents["proposed"]
           e == documents["baseline"]
           A == DOMAIN Bill[trigger.head]
           B == DOMAIN Bill[baseline]
           actions == PlanActions(plan.changes)
           moved(a) == TruePrice(trigger.head, a) - TruePrice(baseline, a)
<1> SUFFICES ASSUME Resolved, CountsUnpriced(d), Complete(estimate),
                    NEW a \in A \cup B, KnownBefore(a), moved(a) # 0
             PROVE  a \in ListedRows(estimate) /\ estimate.rows[a].delta = moved(a)
    BY DEF MovedCostIsListed
<1>1. /\ ScanFacts(d, schema, trigger.head, {}) /\ ScanFacts(e, schema, baseline, {})
      /\ schema \in {"v2", "v0.10"} /\ trigger.head \in Content /\ baseline \in Content
      /\ d.total # Null
    BY FoundedOnScans DEF Founded, Resolved
<1>2. estimate = BuildEstimate(Parse(d), Parse(e), actions)
    BY DEF Founded
<1>3. Parse(d).coverage.unsupported = 0 /\ Parse(d).coverage.noPrice = 0
    BY <1>2 DEF BuildEstimate, Complete
<1>4. CostIn(Parse(d), a) = TruePrice(trigger.head, a)
    <2> HIDE DEF d
    <2>1. CASE a \in A
        BY <1>1, <1>3, <2>1, CompleteScansPriceAll DEF TruePrice
    <2>2. CASE a \notin A
        BY <1>1, <2>2, ScansParse, UnlistedCostsNothing DEF TruePrice
    <2> QED
        BY <2>1, <2>2
<1>5. CostIn(Parse(e), a) = TruePrice(baseline, a)
    <2>1. CASE a \in B
        <3>1. a \in DOMAIN e.resources /\ Covered(e.resources[a]) /\ ~Unpriced(e.resources[a])
            BY <2>1 DEF KnownBefore
        <3> HIDE DEF e
        <3> QED
            BY <1>1, <2>1, <3>1, CoveredIsPriced DEF TruePrice
    <2>2. CASE a \notin B
        <3> HIDE DEF e
        <3> QED
            BY <1>1, <2>2, ScansParse, UnlistedCostsNothing DEF TruePrice
    <2> QED
        BY <2>1, <2>2
<1> HIDE DEF d, e, A, B, actions
<1>6. CostIn(Parse(d), a) \in Nat /\ CostIn(Parse(e), a) \in Nat
    BY <1>1, ScansParse, CostsAreNatural
<1>7. CostIn(Parse(d), a) - CostIn(Parse(e), a) # 0
    BY <1>4, <1>5
<1>8. CostIn(Parse(d), a) # 0 \/ CostIn(Parse(e), a) # 0
    BY <1>6, <1>7
<1>9. a \in DOMAIN Parse(d).resources \cup DOMAIN Parse(e).resources
    BY <1>8, UnlistedCostsNothing
<1>10. a \in RowAddresses(Parse(d), Parse(e))
    BY <1>8, <1>9 DEF RowAddresses
<1>11. /\ a \in DOMAIN estimate.rows
       /\ estimate.rows[a].delta = CostIn(Parse(d), a) - CostIn(Parse(e), a)
    BY <1>2, <1>10, RowsOfEstimate
<1>12. IsPrChange(estimate.rows[a])
    BY <1>7, <1>11 DEF IsPrChange
<1> QED
    BY <1>4, <1>5, <1>11, <1>12 DEF ListedRows

\* What is called priced is priced whole.
LEMMA FoundedLabels ==
    ASSUME Founded
    PROVE  PricedMeansFullyPriced
<1> DEFINE d == documents["proposed"]
           U == Unresolved(plan.changes, trigger.head)
<1> SUFFICES ASSUME U = {}, NEW a \in DOMAIN estimate.rows \cap DOMAIN d.resources,
                    CoverageLabel(estimate.rows[a]) # "UNSUPPORTED / UNESTIMATED"
             PROVE  estimate.rows[a].new = TrueCost(trigger.head, a)
    BY DEF PricedMeansFullyPriced, Resolved
<1>1. /\ ScanFacts(d, schema, trigger.head, {})
      /\ schema \in {"v2", "v0.10"} /\ trigger.head \in Content
    BY FoundedOnScans DEF Founded
<1> DEFINE parsed == ParseResource(schema, d.resources[a])
           row == Row(Parse(d), Parse(documents["baseline"]), PlanActions(plan.changes), a)
<1>2. d.schema = schema /\ a \in DOMAIN d.resources
    BY <1>1 DEF ScanFacts
<1>3. estimate.rows[a] = row
    BY FoundedRows
<1> HIDE DEF d, U
<1>4. /\ Parse(d).resources[a] = parsed /\ a \in DOMAIN Parse(d).resources
      /\ CostIn(Parse(d), a) = Paid(parsed.cost)
    BY <1>1, <1>2, CostAsParsed
<1>5. /\ a \in DOMAIN Bill[trigger.head]
      /\ ViewFacts(schema, trigger.head, a, {}, d.resources[a])
      /\ schema = "v2" \/ d.resources[a].supported
    BY <1>1, <1>2 DEF ScanFacts
<1> HIDE DEF parsed
<1>6. row.confidence = Confidence(parsed) /\ row.new = Paid(parsed.cost)
    BY <1>4 DEF Row
<1> HIDE DEF row
<1>7. parsed.supported /\ ~parsed.missing
    BY <1>3, <1>6 DEF CoverageLabel, Confidence
<1>8. Covered(d.resources[a])
    BY <1>1, <1>5, <1>7 DEF ViewFacts, Covered, parsed
<1>9. Paid(parsed.cost) = PricedAt(trigger.head, a, DOMAIN Bill[trigger.head][a])
    BY <1>5, <1>7, <1>8 DEF ViewFacts, parsed
<1> QED
    BY <1>1, <1>3, <1>5, <1>6, <1>9, PricesAreNatural

\* An estimate that does not say that it is incomplete does not understate.
LEMMA FoundedIsFlagged ==
    ASSUME Founded, Resolved, CountsUnpriced(documents["proposed"]),
           Increment(estimate) < TrueTotal(trigger.head) - TrueTotal(baseline) + Rounding
    PROVE  ~Complete(estimate)
<1> DEFINE d == documents["proposed"]
           e == documents["baseline"]
<1> SUFFICES ASSUME Complete(estimate) PROVE FALSE
    OBVIOUS
<1>1. /\ ScanFacts(d, schema, trigger.head, {}) /\ ScanFacts(e, schema, baseline, {})
      /\ schema \in {"v2", "v0.10"} /\ trigger.head \in Content /\ baseline \in Content
      /\ d.total # Null /\ e.total # Null
    BY FoundedOnScans DEF Founded, Resolved
<1>2. /\ estimate.new = d.total /\ estimate.previous = e.total
      /\ estimate.unsupported = Parse(d).coverage.unsupported
      /\ estimate.noPrice = Parse(d).coverage.noPrice
    BY DEF Founded, BuildEstimate, Parse
<1>3. Parse(d).coverage.unsupported = 0 /\ Parse(d).coverage.noPrice = 0
    BY <1>2 DEF Complete
<1> HIDE DEF d, e
<1>4. d.total = TrueTotal(trigger.head) + DriftOf(d)
    BY <1>1, <1>3, CompleteScansPriceAll DEF d
<1>5. /\ d.total \in Nat /\ DriftOf(d) \in Int /\ TrueTotal(trigger.head) \in Int
      /\ e.total \in Nat /\ DriftOf(e) \in Int /\ TrueTotal(baseline) \in Int
      /\ e.total <= TrueTotal(baseline) + DriftOf(e)
    BY <1>1, ScansDoNotOverprice
<1>6. Rounding = DriftOf(d) - DriftOf(e)
    BY DEF Rounding, d, e
<1> QED
    BY <1>2, <1>4, <1>5, <1>6 DEF Increment

\* A decision on an estimate that is incomplete is one of a policy that says so.
LEMMA IncompleteNeedsWarn ==
    ASSUME NEW e, e.unsupported \in Nat, e.noPrice \in Nat, ~Complete(e), NEW p \in Policies,
           Evaluate(e, p) \in {"PASS", "FAIL"}
    PROVE  "WARN" \in {p.onUnsupported, p.onUnknown}
<1>1. ~CannotBeTrusted(e, p)
    BY DEF Evaluate
<1>2. {p.onUnsupported, p.onUnknown} \subseteq {"WARN", "BLOCK"}
    BY PolicyAssumption
<1> QED
    BY <1>1, <1>2 DEF CannotBeTrusted, Complete

\* What a plan leaves alone is the same, and refers to the same, before and after.
LEMMA UntouchedIsTheSame ==
    ASSUME NEW before \in Content, NEW head \in Content, NEW changes \in ChangesOf(before, head),
           NEW a \in DOMAIN Size[before] \cap DOMAIN Size[head],
           \A b \in {a, Refers[a]} \cap DOMAIN changes : NormalizeAction(changes[b]) = "no-op"
    PROVE  Bill[before][a] = Bill[head][a] /\ a \notin Unresolved(changes, head)
<1> DEFINE addresses == DOMAIN Size[before] \cup DOMAIN Size[head]
           own(b) == CASE b \notin DOMAIN Size[before] -> {<<"create">>}
                       [] b \notin DOMAIN Size[head] -> {<<"delete">>}
                       [] OTHER -> IF Size[before][b] # Size[head][b]
                                   THEN {<<"update">>, <<"delete", "create">>}
                                   ELSE {<<"no-op">>}
           renewed(f, b) ==
                /\ Refers[b] \in addresses
                /\ NormalizeAction(f[Refers[b]]) \in {"create", "replace"}
<1>1. PICK f \in [addresses -> UNION {own(b) : b \in addresses}] :
            /\ \A b \in addresses : f[b] \in own(b)
            /\ changes = [b \in addresses |->
                            IF f[b] = <<"no-op">> /\ renewed(f, b) THEN <<"update">> ELSE f[b]]
    BY DEF ChangesOf
<1>2. DOMAIN changes = addresses
    BY <1>1
<1> HIDE DEF renewed
<1>3. ASSUME NEW b \in addresses, NormalizeAction(changes[b]) = "no-op"
      PROVE  /\ b \in DOMAIN Size[before] /\ b \in DOMAIN Size[head]
             /\ Size[before][b] = Size[head][b]
    <2>1. NormalizeAction(<<"create">>) # "no-op" /\ NormalizeAction(<<"delete">>) # "no-op"
        BY DEF NormalizeAction, Contains
    <2>2. /\ NormalizeAction(<<"update">>) # "no-op"
          /\ NormalizeAction(<<"delete", "create">>) # "no-op"
        BY DEF NormalizeAction, Contains
    <2>3. changes[b] \in {<<"update">>, f[b]}
        BY <1>1
    <2>4. f[b] \notin {<<"create">>, <<"delete">>, <<"update">>, <<"delete", "create">>}
        BY <1>3, <2>1, <2>2, <2>3
    <2>5. f[b] \in own(b)
        BY <1>1
    <2>6. b \in DOMAIN Size[before]
        BY <2>4, <2>5
    <2>7. b \in DOMAIN Size[head]
        BY <2>4, <2>5, <2>6
    <2>8. Size[before][b] = Size[head][b]
        BY <2>4, <2>5, <2>6, <2>7
    <2> QED
        BY <2>6, <2>7, <2>8
<1>4. a \in addresses /\ a \in DOMAIN changes
    BY <1>2
<1>5. Size[before][a] = Size[head][a]
    BY <1>3, <1>4
<1>6. CASE Refers[a] \in addresses
    <2>1. NormalizeAction(changes[Refers[a]]) = "no-op"
        BY <1>2, <1>6
    <2>2. /\ Refers[a] \in DOMAIN Size[before] /\ Refers[a] \in DOMAIN Size[head]
          /\ Size[before][Refers[a]] = Size[head][Refers[a]]
        BY <1>3, <1>6, <2>1
    <2> QED
        BY <1>5, <2>1, <2>2, ReferenceAssumption DEF Unresolved
<1>7. CASE Refers[a] \notin addresses
    BY <1>2, <1>5, <1>7, ReferenceAssumption DEF Unresolved
<1> QED
    BY <1>6, <1>7

\* What the plan leaves alone costs the same in both documents.
LEMMA FoundedCancels ==
    ASSUME Founded, plan.before = baseline, NEW a \in DOMAIN estimate.rows,
           Untouched(a), SeenAlike(a)
    PROVE  estimate.rows[a].delta = 0
<1> DEFINE d == documents["proposed"]
           e == documents["baseline"]
           U == Unresolved(plan.changes, trigger.head)
<1>1. /\ ScanFacts(d, schema, trigger.head, U) /\ ScanFacts(e, schema, baseline, {})
      /\ schema \in {"v2", "v0.10"} /\ trigger.head \in Content /\ baseline \in Content
      /\ plan.changes \in ChangesOf(baseline, trigger.head)
    BY FoundedOnScans DEF Founded
<1>2. /\ a \in DOMAIN d.resources /\ a \in DOMAIN e.resources
      /\ Len(d.resources[a].parts) = Len(e.resources[a].parts)
      /\ \A i \in DOMAIN d.resources[a].parts :
            d.resources[a].parts[i].found = e.resources[a].parts[i].found
    BY DEF SeenAlike, Side
<1> HIDE DEF d, e, U
<1>3. a \in DOMAIN Bill[trigger.head] /\ a \in DOMAIN Bill[baseline]
    BY <1>1, <1>2 DEF ScanFacts
<1>4. a \in DOMAIN Size[baseline] \cap DOMAIN Size[trigger.head]
    BY <1>1, <1>3, ContentAssumption
<1>5. Bill[baseline][a] = Bill[trigger.head][a] /\ a \notin U
    BY <1>1, <1>4, UntouchedIsTheSame DEF Untouched, U
<1>6. /\ CostIn(Parse(d), a) = PricedAt(trigger.head, a, Found(d.resources[a]))
      /\ CostIn(Parse(e), a) = PricedAt(baseline, a, Found(e.resources[a]))
    BY <1>1, <1>2, <1>5, CostAsParsed DEF ScanFacts, ViewFacts
<1>7. Found(d.resources[a]) = Found(e.resources[a])
    <2>1. /\ DOMAIN d.resources[a].parts = 1 .. Len(d.resources[a].parts)
          /\ DOMAIN e.resources[a].parts = 1 .. Len(e.resources[a].parts)
        BY <1>1, <1>2 DEF ScanFacts, ViewFacts, PartsAreNumbered
    <2> QED
        BY <1>2, <2>1 DEF Found
<1>8. PricedAt(trigger.head, a, Found(d.resources[a]))
            = PricedAt(baseline, a, Found(e.resources[a]))
    BY <1>5, <1>7 DEF PricedAt
<1>9. /\ estimate.rows[a].delta = CostIn(Parse(d), a) - CostIn(Parse(e), a)
      /\ CostIn(Parse(d), a) \in Nat
    BY FoundedRows DEF d, e
<1> QED
    BY <1>6, <1>8, <1>9

(* --- the evidence of a decision -------------------------------------- *)

AfterRead == {"plan", "normalize", "preflight", "proposed", "second", "estimate", "decide"}
AfterPlan == {"preflight", "proposed", "second", "estimate", "decide"}

BothArePriced ==
    \A side \in Side :
        documents[side].total # Null /\ documents[side].currency = estimate.currency

EvidenceInv ==
    /\ deployed \in Content
    /\ DOMAIN documents = Side
    /\ pc \in AfterRead => baseline \in Content
    /\ pc \in AfterPlan => ~plan.errored
    /\ pc \in {"second", "estimate", "decide"} => ProposedIsScanned
    /\ pc \in {"estimate", "decide"} => BaselineIsScanned
    /\ pc = "decide" => BothArePriced
    /\ pc # "done" => outcome = "none"

IInv == EvidenceInv /\ DecisionNeedsBothScans

\* Parsing keeps the total, null or not, and the currency.
LEMMA ParseKeepsTotal ==
    ASSUME NEW d
    PROVE  Parse(d).total = d.total /\ Parse(d).currency = d.currency
BY DEF Parse

\* An estimate that is not refused has both totals, in its own currency.
LEMMA EstimateIsPriced ==
    ASSUME NEW p, NEW b, NEW actions, ~NotPriced(Parse(p), Parse(b))
    PROVE  /\ p.total # Null /\ b.total # Null
           /\ p.currency = BuildEstimate(Parse(p), Parse(b), actions).currency
           /\ b.currency = BuildEstimate(Parse(p), Parse(b), actions).currency
<1>1. Parse(p).total = p.total /\ Parse(p).currency = p.currency
    BY ParseKeepsTotal
<1>2. Parse(b).total = b.total /\ Parse(b).currency = b.currency
    BY ParseKeepsTotal
<1>3. BuildEstimate(Parse(p), Parse(b), actions).currency = Parse(p).currency
    BY DEF BuildEstimate
<1> QED
    BY <1>1, <1>2, <1>3 DEF NotPriced

\* A PASS or a FAIL is in the currency of the policy.
LEMMA DecidedInCurrency ==
    ASSUME NEW e, NEW p, Evaluate(e, p) \in {"PASS", "FAIL"}
    PROVE  e.currency = p.currency
BY DEF Evaluate, CannotBeTrusted

\* The evaluation begins with nothing established.
LEMMA InitEvidence ==
    ASSUME Init
    PROVE  IInv
BY ContentAssumption DEF Init, IInv, EvidenceInv, DecisionNeedsBothScans, AfterRead, AfterPlan, Side

\* A step that ends a job without a decision, or that only moves on within the
\* detection, leaves the evidence alone.
LEMMA NoDecisionKeeps ==
    ASSUME IInv, UNCHANGED <<trigger, deployed, baseline, plan, schema, documents, estimate>>,
           \/ pc' = "done" /\ outcome' \notin {"PASS", "FAIL"}
           \/ pc' \in {"select", "matrix", "baseline", "hung"} /\ UNCHANGED outcome /\ pc # "done"
    PROVE  IInv'
<1>1. outcome' \notin {"PASS", "FAIL"}
    BY DEF IInv, EvidenceInv
<1>2. DecisionNeedsBothScans'
    BY <1>1 DEF DecisionNeedsBothScans
<1>3. EvidenceInv'
    BY DEF IInv, EvidenceInv, AfterRead, AfterPlan
<1> QED
    BY <1>2, <1>3 DEF IInv

\* Before a stack is chosen nothing has been read.
LEMMA DetectionKeeps ==
    ASSUME IInv, Detection
    PROVE  IInv'
<1>1. UNCHANGED <<trigger, deployed, baseline, plan, schema, documents, estimate>>
    BY DEF Detection, DetectChanges, DetectFails, Select, Dispatch, StartJob, remote, evidence
<1>2. \/ pc' = "done" /\ outcome' \notin {"PASS", "FAIL"}
      \/ pc' \in {"select", "matrix", "baseline", "hung"} /\ UNCHANGED outcome /\ pc # "done"
    <2>1. CASE DetectChanges
        BY <2>1 DEF DetectChanges, End, GoTo
    <2>2. CASE DetectFails
        BY <2>2 DEF DetectFails, End
    <2>3. CASE Select
        <3>1. \/ End("failed") \/ End("skipped") \/ GoTo("matrix")
            BY <2>3 DEF Select
        <3> QED
            BY <2>3, <3>1 DEF Select, End, GoTo
    <2>4. CASE Dispatch
        BY <2>4 DEF Dispatch, End, GoTo
    <2>5. CASE StartJob
        BY <2>5 DEF StartJob, GoTo
    <2> QED
        BY <2>1, <2>2, <2>3, <2>4, <2>5 DEF Detection
<1> QED
    BY <1>1, <1>2, NoDecisionKeeps

\* The jobs that end on a failure, and the scans that hang.
LEMMA FailuresKeep ==
    ASSUME IInv,
           \/ BaselineUnavailable \/ PlanFails \/ PreflightFails
           \/ ScanFails \/ ScanHangs \/ ScanTimesOut
    PROVE  IInv'
<1>1. UNCHANGED <<trigger, deployed, baseline, plan, schema, documents, estimate>>
    BY DEF BaselineUnavailable, PlanFails, PreflightFails, ScanFails, ScanHangs, ScanTimesOut,
           remote, evidence
<1>2. \/ pc' = "done" /\ outcome' \notin {"PASS", "FAIL"}
      \/ pc' \in {"select", "matrix", "baseline", "hung"} /\ UNCHANGED outcome /\ pc # "done"
    BY DEF BaselineUnavailable, PlanFails, PreflightFails, ScanFails, ScanHangs, ScanTimesOut,
           End, GoTo
<1> QED
    BY <1>1, <1>2, NoDecisionKeeps

\* What another run applies is read by neither of the steps that are left but one.
LEMMA DeployElsewhereKeeps ==
    ASSUME IInv, DeployElsewhere
    PROVE  IInv'
<1>1. /\ deployed' \in Content
      /\ UNCHANGED <<trigger, pc, baseline, plan, schema, documents, estimate, policy, outcome>>
    BY DEF DeployElsewhere, evidence
<1>2. DecisionNeedsBothScans'
    BY <1>1 DEF IInv, DecisionNeedsBothScans, Side
<1>3. EvidenceInv'
    BY <1>1, <1>2 DEF IInv, EvidenceInv, AfterRead, AfterPlan, DeployElsewhere
<1> QED
    BY <1>2, <1>3 DEF IInv

\* What is read is a content, and what is planned is not yet priced.
LEMMA ReadsKeep ==
    ASSUME IInv, ReadBaseline \/ PlanProposed
    PROVE  IInv'
<1>1. outcome' = "none"
    BY DEF IInv, EvidenceInv, ReadBaseline, PlanProposed, GoTo
<1>2. DecisionNeedsBothScans'
    BY <1>1 DEF DecisionNeedsBothScans
<1>3. CASE ReadBaseline
    <2>1. /\ pc' = "plan" /\ baseline' = deployed
          /\ UNCHANGED <<deployed, documents>>
        BY <1>3 DEF ReadBaseline, GoTo, remote
    <2> QED
        BY <1>1, <1>2, <2>1 DEF IInv, EvidenceInv, AfterRead, AfterPlan
<1>4. CASE PlanProposed
    <2>1. /\ pc = "plan" /\ pc' = "normalize"
          /\ UNCHANGED <<deployed, baseline, documents>>
        BY <1>4 DEF PlanProposed, GoTo, remote
    <2> QED
        BY <1>1, <1>2, <2>1 DEF IInv, EvidenceInv, AfterRead, AfterPlan
<1> QED
    BY <1>3, <1>4

\* A plan that is errored goes no further.
LEMMA NormalizeKeeps ==
    ASSUME IInv, Normalize
    PROVE  IInv'
<1>1. UNCHANGED <<trigger, deployed, baseline, plan, schema, documents, estimate>>
    BY DEF Normalize, remote, evidence
<1>2. CASE plan.errored
    BY <1>1, <1>2, NoDecisionKeeps DEF Normalize, End
<1>3. CASE ~plan.errored
    <2>1. pc = "normalize" /\ pc' = "preflight" /\ outcome' = "none"
        BY <1>3 DEF IInv, EvidenceInv, Normalize, GoTo
    <2> QED
        BY <1>1, <1>3, <2>1 DEF IInv, EvidenceInv, DecisionNeedsBothScans, AfterRead, AfterPlan
<1> QED
    BY <1>2, <1>3

\* No document is older than the schema.
LEMMA PreflightKeeps ==
    ASSUME IInv, Preflight
    PROVE  IInv'
<1>1. /\ pc = "preflight" /\ pc' = "proposed" /\ outcome' = "none"
      /\ UNCHANGED <<deployed, baseline, plan, documents>>
    BY DEF IInv, EvidenceInv, Preflight, GoTo, remote
<1> QED
    BY <1>1 DEF IInv, EvidenceInv, DecisionNeedsBothScans, AfterRead, AfterPlan

\* The first document is of the head as planned.
LEMMA ScanProposedKeeps ==
    ASSUME IInv, ScanProposed
    PROVE  IInv'
<1>1. /\ pc = "proposed" /\ pc' = "second" /\ outcome' = "none"
      /\ UNCHANGED <<trigger, deployed, baseline, plan, schema>>
    BY DEF IInv, EvidenceInv, ScanProposed, GoTo, remote
<1>2. PICK d \in ScansOf(schema, trigger.head, Unresolved(plan.changes, trigger.head)) :
            documents' = [documents EXCEPT !["proposed"] = d]
    BY DEF ScanProposed
<1>3. documents'["proposed"] = d /\ DOMAIN documents' = Side
    BY <1>2 DEF IInv, EvidenceInv, Side
<1>4. ProposedIsScanned'
    BY <1>1, <1>2, <1>3 DEF ProposedIsScanned
<1> QED
    BY <1>1, <1>3, <1>4 DEF IInv, EvidenceInv, DecisionNeedsBothScans, AfterRead, AfterPlan

\* The second is of the state as read, and the first is left as it was.
LEMMA ScanBaselineKeeps ==
    ASSUME IInv, ScanBaseline
    PROVE  IInv'
<1>1. /\ pc = "second" /\ pc' = "estimate" /\ outcome' = "none"
      /\ UNCHANGED <<trigger, deployed, baseline, plan, schema>>
    BY DEF IInv, EvidenceInv, ScanBaseline, GoTo, remote
<1>2. PICK d \in ScansOf(schema, baseline, {}) : documents' = [documents EXCEPT !["baseline"] = d]
    BY DEF ScanBaseline
<1>3. /\ documents'["baseline"] = d /\ documents'["proposed"] = documents["proposed"]
      /\ DOMAIN documents' = Side
    BY <1>2 DEF IInv, EvidenceInv, Side
<1>4. ProposedIsScanned' /\ BaselineIsScanned'
    BY <1>1, <1>2, <1>3 DEF IInv, EvidenceInv, ProposedIsScanned, BaselineIsScanned
<1> QED
    BY <1>1, <1>3, <1>4 DEF IInv, EvidenceInv, DecisionNeedsBothScans, AfterRead, AfterPlan

\* NotPriced is what keeps a total that is null out of the estimate.
LEMMA EstimateKeeps ==
    ASSUME IInv, Estimate
    PROVE  IInv'
<1> DEFINE p == documents["proposed"]
           b == documents["baseline"]
           built == BuildEstimate(Parse(p), Parse(b), PlanActions(plan.changes))
<1>1. UNCHANGED <<trigger, deployed, baseline, plan, schema, documents>>
    BY DEF Estimate, remote
<1>2. CASE NotPriced(Parse(p), Parse(b))
    BY <1>1, <1>2, NoDecisionKeeps DEF Estimate, End
<1>3. CASE ~NotPriced(Parse(p), Parse(b))
    <2>1. pc = "estimate" /\ pc' = "decide" /\ outcome' = "none" /\ estimate' = built
        BY <1>3 DEF IInv, EvidenceInv, Estimate, GoTo
    <2>2. /\ p.total # Null /\ b.total # Null
          /\ p.currency = built.currency /\ b.currency = built.currency
        BY <1>3, EstimateIsPriced
    <2>3. BothArePriced'
        BY <1>1, <2>1, <2>2 DEF BothArePriced, Side
    <2>4. ProposedIsScanned' /\ BaselineIsScanned'
        BY <1>1, <2>1 DEF IInv, EvidenceInv, ProposedIsScanned, BaselineIsScanned
    <2> QED
        BY <1>1, <2>1, <2>3, <2>4
        DEF IInv, EvidenceInv, DecisionNeedsBothScans, AfterRead, AfterPlan
<1> QED
    BY <1>2, <1>3

\* A decision is in the currency of both documents.
LEMMA DecideKeeps ==
    ASSUME IInv, Decide
    PROVE  IInv'
<1>1. /\ pc = "decide" /\ pc' = "done"
      /\ UNCHANGED <<trigger, deployed, baseline, plan, schema, documents, estimate>>
    BY DEF Decide, End, remote, evidence
<1>2. EvidenceInv'
    BY <1>1 DEF IInv, EvidenceInv, AfterRead, AfterPlan
<1>3. ASSUME outcome' \in {"PASS", "FAIL"}
      PROVE  DecisionNeedsBothScans'
    <2>1. estimate.currency = policy'.currency
        BY <1>3, DecidedInCurrency DEF Decide, End
    <2>2. \A side \in Side :
            documents[side].total # Null /\ documents[side].currency = policy'.currency
        BY <1>1, <2>1 DEF IInv, EvidenceInv, BothArePriced
    <2>3. baseline \in Content /\ ~plan.errored /\ ProposedIsScanned /\ BaselineIsScanned
        BY <1>1 DEF IInv, EvidenceInv, AfterRead, AfterPlan
    <2> QED
        BY <1>1, <2>2, <2>3 DEF DecisionNeedsBothScans, ProposedIsScanned, BaselineIsScanned
<1>4. DecisionNeedsBothScans'
    BY <1>3 DEF DecisionNeedsBothScans
<1> QED
    BY <1>2, <1>4 DEF IInv

\* Nor does a step of nobody take anything back.
LEMMA StutterKeeps ==
    ASSUME IInv, UNCHANGED vars
    PROVE  IInv'
BY DEF IInv, EvidenceInv, DecisionNeedsBothScans, ProposedIsScanned, BaselineIsScanned,
       BothArePriced, vars, remote, evidence

\* Every step keeps the evidence.
LEMMA StepKeeps ==
    ASSUME IInv, [Next]_vars
    PROVE  IInv'
<1>1. CASE Detection
    BY <1>1, DetectionKeeps
<1>2. CASE Reads
    BY <1>2, ReadsKeep, FailuresKeep DEF Reads
<1>3. CASE Scans
    BY <1>3, ScanProposedKeeps, ScanBaselineKeeps, FailuresKeep DEF Scans
<1>4. CASE Analysis /\ ~Scans
    BY <1>4, NormalizeKeeps, PreflightKeeps, FailuresKeep, EstimateKeeps, DecideKeeps DEF Analysis
<1>5. CASE DeployElsewhere
    BY <1>5, DeployElsewhereKeeps
<1>6. CASE UNCHANGED vars
    BY <1>6, StutterKeeps
<1> QED
    BY <1>1, <1>2, <1>3, <1>4, <1>5, <1>6 DEF Next, Job

(***************************************************************************)
(* A PASS or a FAIL is only ever given on two scans of this evaluation that *)
(* Infracost put a total on, in the currency of the policy, and on a plan   *)
(* without errors: whatever the contents, the prices, the policies and the  *)
(* registries, and however often other runs apply meanwhile.                *)
(***************************************************************************)
THEOREM DecisionsRestOnScans == Spec => []DecisionNeedsBothScans
<1>1. Init => IInv
    BY InitEvidence
<1>2. IInv /\ [Next]_vars => IInv'
    BY StepKeeps
<1>3. IInv => DecisionNeedsBothScans
    BY DEF IInv
<1> QED
    BY <1>1, <1>2, <1>3, PTL DEF Spec

(* --- types, the selection and the estimate --------------------------- *)

PlaceInv ==
    /\ trigger \in Triggers /\ policy \in Policies \cup {Null}
    /\ selected \subseteq Names(registry) /\ stack \in selected \cup {Null}
    /\ pc \in {"detect", "select"} => stack = Null
    /\ deploys \in 0 .. MaxDeploys
    /\ baseline \in Content \cup {Null}
    /\ outcome \in Outcome /\ (pc = "done" => outcome # "none")
    /\ TouchedStacksAreEvaluated

FoundedInv ==
    /\ pc \in {"proposed", "second", "estimate", "decide"} => schema \in {"v2", "v0.10"}
    /\ pc \in {"normalize"} \cup AfterPlan =>
        plan.before \in Content /\ plan.changes \in ChangesOf(plan.before, trigger.head)
    /\ estimate # Null => pc \in {"decide", "done"} /\ Founded
    /\ outcome \in {"PASS", "FAIL"} => policy \in Policies /\ outcome = Evaluate(estimate, policy)

\* With the evidence, an inductive invariant.
EstimateInv == IInv /\ PlaceInv /\ FoundedInv

\* The evaluation begins before all that is claimed.
LEMMA InitEstimate ==
    ASSUME Init
    PROVE  EstimateInv
<1>1. PlaceInv
    BY ContentAssumption DEF Init, PlaceInv, Outcome, TouchedStacksAreEvaluated
<1>2. FoundedInv
    BY DEF Init, FoundedInv, AfterPlan
<1> QED
    BY <1>1, <1>2, InitEvidence DEF EstimateInv

\* Of what a pull request touches the stacks are those that own the nearest
\* registered directories.
LEMMA SelectedAreNearest ==
    ASSUME trigger \in Triggers, trigger.event = "pull_request",
           PathsAreDirectories(registry, Changed)
    PROVE  SelectStacks(registry, InfrastructureFiles(Changed)) =
              UNION {NearestOwner(registry, path) :
                        path \in {f \in Changed : ~Ignored(f) /\ IsInfrastructure(f)}}
<1> DEFINE files == InfrastructureFiles(Changed)
<1>1. files = {f \in Changed : ~Ignored(f) /\ IsInfrastructure(f)}
    BY DEF InfrastructureFiles, IsInfrastructure
<1>2. \A path \in files : WellFormed(registry, path)
    <2> TAKE path \in files
    <2>1. path \in Changed /\ Last(path) \in InfrastructureExtensions
        BY DEF InfrastructureFiles, IsInfrastructure
    <2>2. IsRegistry(registry) /\ path \in Path /\ Head(path) # "/"
        BY <2>1, TriggerAssumption DEF registry, Changed
    <2>3. Last(path) # "/"
        BY <2>1 DEF InfrastructureExtensions
    <2>4. Head(path) # "." /\ PathsAreDirectories(registry, {})
        BY <2>1 DEF PathsAreDirectories
    <2> QED
        BY <2>2, <2>3, <2>4 DEF WellFormed
<1> HIDE DEF files
<1>3. \A path \in files : OwnersOf(registry, path) = NearestOwner(registry, path)
    BY <1>2, OwnersAreNearest
<1> QED
    BY <1>1, <1>3 DEF SelectStacks, files

\* A job that ends without a decision, and a scan that hangs.
LEMMA EndingKeepsPlace ==
    ASSUME EstimateInv, UNCHANGED <<trigger, policy, selected, stack, deploys, baseline>>,
           \/ pc' = "done" /\ outcome' \in {"skipped", "failed", "ERROR"}
           \/ /\ pc' \notin {"done", "detect", "select", "matrix"} /\ UNCHANGED outcome
    PROVE  PlaceInv'
<1>1. UNCHANGED registry
    BY DEF registry
<1> QED
    BY <1>1 DEF EstimateInv, PlaceInv, Outcome, Status, TouchedStacksAreEvaluated

\* What the estimate was founded on stays when a job ends.
LEMMA EndingKeepsFounded ==
    ASSUME EstimateInv, pc # "done",
           UNCHANGED <<trigger, policy, baseline, plan, schema, documents, estimate>>,
           \/ pc' = "done" /\ outcome' \notin {"PASS", "FAIL"}
           \/ pc' \in {"select", "matrix", "baseline", "hung"} /\ pc # "decide" /\ UNCHANGED outcome
    PROVE  FoundedInv'
<1>1. outcome' \notin {"PASS", "FAIL"}
    BY DEF EstimateInv, IInv, EvidenceInv
<1>2. Founded => Founded'
    BY DEF Founded, ProposedIsScanned, BaselineIsScanned
<1> QED
    BY <1>1, <1>2 DEF EstimateInv, FoundedInv, AfterPlan

\* Only Select and Dispatch choose stacks, and both from the registry.
LEMMA DetectionKeepsPlace ==
    ASSUME EstimateInv, Detection
    PROVE  PlaceInv'
<1>1. /\ trigger' = trigger /\ registry' = registry /\ policy' = policy /\ deploys' = deploys
      /\ baseline' = baseline /\ Changed' = Changed
    BY DEF Detection, DetectChanges, DetectFails, Select, Dispatch, StartJob, remote, evidence,
           registry, Changed
<1>2. CASE DetectChanges
    BY <1>1, <1>2 DEF DetectChanges, End, GoTo, EstimateInv, PlaceInv, Outcome,
                      TouchedStacksAreEvaluated
<1>3. CASE DetectFails
    BY <1>1, <1>3 DEF DetectFails, End, EstimateInv, PlaceInv, Outcome, TouchedStacksAreEvaluated
<1>4. CASE Select
    <2> DEFINE stacks == SelectStacks(registry, InfrastructureFiles(Changed))
    <2>1. pc = "select" /\ stack' = stack /\ stack = Null
        BY <1>4 DEF Select, EstimateInv, PlaceInv
    <2>2. CASE ~Loads(registry)
        BY <1>1, <1>4, <2>1, <2>2
        DEF Select, End, EstimateInv, PlaceInv, Outcome, TouchedStacksAreEvaluated
    <2>3. CASE Loads(registry)
        <3>1. selected' = stacks
            BY <1>4, <2>3 DEF Select
        <3>2. selected' \subseteq Names(registry')
            BY <1>1, <3>1, SelectedAreRegistered
        <3>3. TouchedStacksAreEvaluated'
            BY <1>1, <3>1, SelectedAreNearest DEF TouchedStacksAreEvaluated, EstimateInv, PlaceInv
        <3>4. \/ pc' = "done" /\ outcome' = "skipped"
              \/ pc' = "matrix" /\ outcome' = outcome
            BY <1>4, <2>3 DEF Select, End, GoTo
        <3> QED
            BY <1>1, <2>1, <3>2, <3>3, <3>4 DEF EstimateInv, PlaceInv, Outcome
    <2> QED
        BY <2>2, <2>3
<1>5. CASE Dispatch
    <2>1. /\ pc = "detect" /\ stack' = stack /\ stack = Null
          /\ trigger.event # "pull_request"
        BY <1>5 DEF Dispatch, EstimateInv, PlaceInv
    <2>2. TouchedStacksAreEvaluated'
        BY <1>1, <2>1 DEF TouchedStacksAreEvaluated
    <2>3. \/ selected' = {trigger.name} /\ trigger.name \in Names(registry)
             /\ pc' = "matrix" /\ outcome' = outcome
          \/ selected' = selected /\ pc' = "done" /\ outcome' = "failed"
        BY <1>5 DEF Dispatch, End, GoTo
    <2> QED
        BY <1>1, <2>1, <2>2, <2>3 DEF EstimateInv, PlaceInv, Outcome
<1>6. CASE StartJob
    BY <1>1, <1>6 DEF StartJob, GoTo, EstimateInv, PlaceInv, TouchedStacksAreEvaluated
<1> QED
    BY <1>2, <1>3, <1>4, <1>5, <1>6 DEF Detection

\* There is no estimate yet.
LEMMA DetectionKeepsFounded ==
    ASSUME EstimateInv, Detection
    PROVE  FoundedInv'
<1>1. /\ UNCHANGED <<trigger, policy, baseline, plan, schema, documents, estimate>>
      /\ pc \in {"detect", "select", "matrix"}
    BY DEF Detection, DetectChanges, DetectFails, Select, Dispatch, StartJob, remote, evidence
<1>2. \/ pc' = "done" /\ outcome' \notin {"PASS", "FAIL"}
      \/ pc' \in {"select", "matrix", "baseline", "hung"} /\ UNCHANGED outcome
    BY DEF Detection, DetectChanges, DetectFails, Select, Dispatch, StartJob, End, GoTo
<1> QED
    BY <1>1, <1>2, EndingKeepsFounded

\* The jobs that end on a failure, and the scans that hang.
LEMMA FailuresKeepEstimate ==
    ASSUME EstimateInv,
           \/ BaselineUnavailable \/ PlanFails \/ PreflightFails
           \/ ScanFails \/ ScanHangs \/ ScanTimesOut
    PROVE  PlaceInv' /\ FoundedInv'
<1>1. /\ UNCHANGED <<trigger, policy, selected, stack, deploys, baseline, plan, schema, documents,
                     estimate>>
      /\ pc \notin {"done", "decide"}
    BY DEF BaselineUnavailable, PlanFails, PreflightFails, ScanFails, ScanHangs, ScanTimesOut,
           remote, evidence
<1>2. \/ pc' = "done" /\ outcome' \in {"skipped", "failed", "ERROR"}
      \/ pc' = "hung" /\ UNCHANGED outcome
    BY DEF BaselineUnavailable, PlanFails, PreflightFails, ScanFails, ScanHangs, ScanTimesOut,
           End, GoTo
<1>3. PlaceInv'
    BY <1>1, <1>2, EndingKeepsPlace
<1>4. FoundedInv'
    BY <1>1, <1>2, EndingKeepsFounded
<1> QED
    BY <1>3, <1>4

\* Before the estimate, a step that only moves on.
LEMMA ProgressKeeps ==
    ASSUME EstimateInv, pc \notin {"decide", "done"},
           UNCHANGED <<trigger, policy, selected, stack, estimate, outcome>>,
           baseline' \in Content \cup {Null}, deploys' \in 0 .. MaxDeploys,
           pc' \notin {"done", "detect", "select", "matrix", "decide"},
           pc' \in {"proposed", "second", "estimate"} => schema' \in {"v2", "v0.10"},
           pc' \in {"normalize"} \cup AfterPlan =>
                plan'.before \in Content /\ plan'.changes \in ChangesOf(plan'.before, trigger'.head)
    PROVE  PlaceInv' /\ FoundedInv'
<1>1. registry' = registry /\ outcome' = "none" /\ estimate' = Null
    BY DEF registry, EstimateInv, IInv, EvidenceInv, FoundedInv
<1>2. PlaceInv'
    BY <1>1 DEF EstimateInv, PlaceInv, TouchedStacksAreEvaluated
<1>3. FoundedInv'
    BY <1>1 DEF FoundedInv, AfterPlan
<1> QED
    BY <1>2, <1>3

\* The plan is made of the state as it is then, to the head.
LEMMA ReadsKeepEstimate ==
    ASSUME EstimateInv, ReadBaseline \/ PlanProposed \/ DeployElsewhere
    PROVE  PlaceInv' /\ FoundedInv'
<1>1. /\ deployed \in Content /\ baseline \in Content \cup {Null}
      /\ deploys \in 0 .. MaxDeploys /\ MaxDeploys \in Nat
    BY ContentAssumption DEF EstimateInv, IInv, EvidenceInv, PlaceInv
<1>2. CASE ReadBaseline
    BY <1>1, <1>2, ProgressKeeps DEF ReadBaseline, GoTo, remote, AfterPlan
<1>3. CASE PlanProposed
    <2>1. PICK changes \in ChangesOf(deployed, trigger.head), errored \in BOOLEAN :
            plan' = [before |-> deployed, changes |-> changes, errored |-> errored]
        BY <1>3 DEF PlanProposed
    <2>2. plan'.before = deployed /\ plan'.changes = changes
        BY <2>1
    <2>3. /\ pc = "plan" /\ pc' = "normalize"
          /\ UNCHANGED <<trigger, policy, selected, stack, deploys, baseline, estimate, outcome>>
        BY <1>3 DEF PlanProposed, GoTo, remote
    <2> QED
        BY <1>1, <2>2, <2>3, ProgressKeeps
<1>4. CASE DeployElsewhere
    <2>1. /\ pc = "plan" /\ pc' = "plan" /\ deploys' \in 0 .. MaxDeploys
          /\ UNCHANGED <<trigger, policy, selected, stack, baseline, estimate, outcome>>
        BY <1>1, <1>4 DEF DeployElsewhere, evidence
    <2> QED
        BY <1>1, <2>1, ProgressKeeps DEF AfterPlan
<1> QED
    BY <1>2, <1>3, <1>4

\* Up to the estimate the plan stays what it is.
LEMMA AnalysisKeepsEstimate ==
    ASSUME EstimateInv, Normalize \/ Preflight \/ ScanProposed \/ ScanBaseline
    PROVE  PlaceInv' /\ FoundedInv'
<1>1. /\ deploys \in 0 .. MaxDeploys /\ baseline \in Content \cup {Null}
      /\ pc \in {"normalize", "preflight", "proposed", "second"}
      /\ UNCHANGED <<trigger, policy, selected, stack, deploys, baseline, plan, estimate>>
    BY DEF EstimateInv, PlaceInv, Normalize, Preflight, ScanProposed, ScanBaseline, remote, evidence
<1>2. plan.before \in Content /\ plan.changes \in ChangesOf(plan.before, trigger.head)
    BY <1>1 DEF EstimateInv, FoundedInv, AfterPlan
<1>3. CASE pc' = "done"
    <2>1. /\ outcome' = "ERROR"
          /\ UNCHANGED <<schema, documents>>
        BY <1>1, <1>3 DEF Normalize, Preflight, ScanProposed, ScanBaseline, End, GoTo, evidence
    <2>2. PlaceInv'
        BY <1>1, <1>3, <2>1, EndingKeepsPlace
    <2>3. FoundedInv'
        BY <1>1, <1>3, <2>1, EndingKeepsFounded
    <2> QED
        BY <2>2, <2>3
<1>4. CASE pc' # "done"
    <2>1. /\ pc' \in {"preflight", "proposed", "second", "estimate"}
          /\ UNCHANGED outcome
        BY <1>4 DEF Normalize, Preflight, ScanProposed, ScanBaseline, End, GoTo
    <2>2. pc' \in {"proposed", "second", "estimate"} => schema' \in {"v2", "v0.10"}
        BY DEF Normalize, Preflight, ScanProposed, ScanBaseline, End, GoTo, EstimateInv, FoundedInv
    <2> QED
        BY <1>1, <1>2, <2>1, <2>2, ProgressKeeps
<1> QED
    BY <1>3, <1>4

\* What makes the estimate is what it is founded on.
LEMMA EstimateIsFounded ==
    ASSUME EstimateInv, Estimate
    PROVE  PlaceInv' /\ FoundedInv'
<1> DEFINE p == documents["proposed"]
           b == documents["baseline"]
           built == BuildEstimate(Parse(p), Parse(b), PlanActions(plan.changes))
<1>1. /\ pc = "estimate"
      /\ UNCHANGED <<trigger, policy, selected, stack, deploys, baseline, plan, schema, documents>>
    BY DEF Estimate, remote
<1>2. CASE NotPriced(Parse(p), Parse(b))
    <2>1. pc' = "done" /\ outcome' = "ERROR" /\ UNCHANGED estimate
        BY <1>2 DEF Estimate, End
    <2>2. PlaceInv'
        BY <1>1, <2>1, EndingKeepsPlace
    <2>3. FoundedInv'
        BY <1>1, <2>1, EndingKeepsFounded
    <2> QED
        BY <2>2, <2>3
<1>3. CASE ~NotPriced(Parse(p), Parse(b))
    <2>1. pc' = "decide" /\ UNCHANGED outcome /\ estimate' = built
        BY <1>3 DEF Estimate, GoTo
    <2>2. PlaceInv'
        BY <1>1, <2>1, EndingKeepsPlace
    <2>3. p.total # Null /\ b.total # Null
        BY <1>3, EstimateIsPriced
    <2>4. /\ schema \in {"v2", "v0.10"}
          /\ plan.before \in Content /\ plan.changes \in ChangesOf(plan.before, trigger.head)
        BY <1>1 DEF EstimateInv, FoundedInv, AfterPlan
    <2>5. /\ baseline \in Content /\ ProposedIsScanned /\ BaselineIsScanned /\ outcome = "none"
        BY <1>1 DEF EstimateInv, IInv, EvidenceInv, AfterRead
    <2>6. trigger.head \in Content
        BY ContentAssumption DEF EstimateInv, PlaceInv
    <2>7. Founded'
        BY <1>1, <2>1, <2>3, <2>4, <2>5, <2>6 DEF Founded, ProposedIsScanned, BaselineIsScanned
    <2>8. FoundedInv'
        BY <1>1, <2>1, <2>4, <2>5, <2>7 DEF FoundedInv, AfterPlan
    <2> QED
        BY <2>2, <2>8
<1> QED
    BY <1>2, <1>3

\* The decision is what the policy says of the estimate.
LEMMA DecideKeepsEstimate ==
    ASSUME EstimateInv, Decide
    PROVE  PlaceInv' /\ FoundedInv'
<1>1. /\ pc = "decide" /\ pc' = "done"
      /\ UNCHANGED <<trigger, selected, stack, deploys, baseline, plan, schema, documents,
                     estimate>>
    BY DEF Decide, End, remote, evidence
<1>2. policy' \in Policies /\ outcome' = Evaluate(estimate, policy')
    BY DEF Decide, End
<1>3. outcome' \in {"PASS", "FAIL", "ERROR"}
    BY <1>2 DEF Evaluate
<1>4. registry' = registry
    BY <1>1 DEF registry
<1>5. PlaceInv'
    BY <1>1, <1>2, <1>3, <1>4 DEF EstimateInv, PlaceInv, Outcome, Status, TouchedStacksAreEvaluated
<1>6. Founded => Founded'
    BY <1>1 DEF Founded, ProposedIsScanned, BaselineIsScanned
<1>7. FoundedInv'
    BY <1>1, <1>2, <1>6 DEF EstimateInv, FoundedInv, AfterPlan
<1> QED
    BY <1>5, <1>7

\* A step of nobody changes none of it.
LEMMA StutterKeepsEstimate ==
    ASSUME EstimateInv, UNCHANGED vars
    PROVE  PlaceInv' /\ FoundedInv'
<1>1. /\ UNCHANGED <<trigger, pc, selected, stack, deploys, baseline, plan, schema, documents,
                     estimate, policy, outcome>>
      /\ registry' = registry /\ Changed' = Changed
    BY DEF vars, remote, evidence, registry, Changed
<1>2. PlaceInv'
    BY <1>1 DEF EstimateInv, PlaceInv, TouchedStacksAreEvaluated
<1>3. FoundedInv'
    BY <1>1 DEF EstimateInv, FoundedInv, Founded, ProposedIsScanned, BaselineIsScanned
<1> QED
    BY <1>2, <1>3

\* Every step keeps the invariant.
LEMMA StepKeepsEstimate ==
    ASSUME EstimateInv, [Next]_vars
    PROVE  EstimateInv'
<1>1. IInv'
    BY StepKeeps DEF EstimateInv
<1>2. CASE Detection
    BY <1>1, <1>2, DetectionKeepsPlace, DetectionKeepsFounded DEF EstimateInv
<1>3. CASE Reads \/ DeployElsewhere
    BY <1>1, <1>3, ReadsKeepEstimate, FailuresKeepEstimate DEF Reads, EstimateInv
<1>4. CASE Analysis
    BY <1>1, <1>4, AnalysisKeepsEstimate, EstimateIsFounded, DecideKeepsEstimate,
       FailuresKeepEstimate
    DEF Analysis, Scans, EstimateInv
<1>5. CASE UNCHANGED vars
    BY <1>1, <1>5, StutterKeepsEstimate DEF EstimateInv
<1> QED
    BY <1>2, <1>3, <1>4, <1>5 DEF Next, Job

\* The invariant the theorems below are read off.
LEMMA EstimateInvHolds == Spec => []EstimateInv
<1>1. Init => EstimateInv
    BY InitEstimate
<1>2. EstimateInv /\ [Next]_vars => EstimateInv'
    BY StepKeepsEstimate
<1> QED
    BY <1>1, <1>2, PTL DEF Spec

(* --- what holds of every evaluation ---------------------------------- *)

\* The figures of an estimate are numbers, and its rows are of resources.
LEMMA FoundedIsTyped ==
    ASSUME Founded
    PROVE  /\ estimate.previous \in Nat /\ estimate.new \in Nat
           /\ estimate.unsupported \in Nat /\ estimate.noPrice \in Nat
           /\ DOMAIN estimate.rows \subseteq Address
           /\ \A a \in DOMAIN estimate.rows : RowType(estimate.rows[a])
<1> DEFINE d == documents["proposed"]
           e == documents["baseline"]
           p == Parse(d)
           b == Parse(e)
           actions == PlanActions(plan.changes)
<1>1. /\ ScanFacts(d, schema, trigger.head, Unresolved(plan.changes, trigger.head))
      /\ ScanFacts(e, schema, baseline, {})
      /\ schema \in {"v2", "v0.10"} /\ trigger.head \in Content /\ baseline \in Content
      /\ d.total # Null /\ e.total # Null
    BY FoundedOnScans DEF Founded
<1>2. /\ estimate.new = d.total /\ estimate.previous = e.total
      /\ estimate.unsupported = p.coverage.unsupported
      /\ estimate.noPrice = p.coverage.noPrice
    BY DEF Founded, BuildEstimate, Parse
<1>3. d.total \in Nat /\ e.total \in Nat
    <2> HIDE DEF d, e
    <2> QED
        BY <1>1, ScansDoNotOverprice
<1>4. p.coverage.unsupported \in Nat /\ p.coverage.noPrice \in Nat
    BY <1>1 DEF ScanFacts
<1>5. DOMAIN p.resources \subseteq Address /\ DOMAIN b.resources \subseteq Address
    <2>1. DOMAIN p.resources \subseteq DOMAIN Bill[trigger.head]
        BY <1>1, ScansParse
    <2>2. DOMAIN b.resources \subseteq DOMAIN Bill[baseline]
        BY <1>1, ScansParse
    <2> QED
        BY <1>1, <2>1, <2>2, ContentAssumption
<1>6. ASSUME NEW a \in DOMAIN estimate.rows
      PROVE  a \in Address /\ RowType(estimate.rows[a])
    <2> DEFINE row == estimate.rows[a]
    <2>1. /\ a \in DOMAIN p.resources \cup DOMAIN b.resources
          /\ row = Row(p, b, actions, a)
          /\ row.previous \in Nat /\ row.new \in Nat /\ row.delta = row.new - row.previous
        BY FoundedRows
    <2> HIDE DEF p, b, row
    <2>2. row.confidence \in {"PRICED", "USAGE_BASED", "FREE", "NO_PRICE", "UNSUPPORTED"}
        BY <2>1, Confidences DEF Row
    <2>3. row.action \in ChangeActions \cup {"read", "no-op", "none"}
        <3>1. row.action = IF a \in DOMAIN actions THEN actions[a] ELSE "none"
            BY <2>1 DEF Row
        <3>2. a \in DOMAIN actions => actions[a] \in ChangeActions \cup {"read", "no-op"}
            BY NormalizedActions DEF PlanActions
        <3> QED
            BY <3>1, <3>2
    <2> QED
        BY <1>5, <2>1, <2>2, <2>3 DEF RowType, row
<1> QED
    BY <1>2, <1>3, <1>4, <1>6

(***************************************************************************)
(* Types: whatever is evaluated, an estimate has totals and rows of numbers *)
(* that are not negative, coverage counts that are not, and rows of         *)
(* resources that exist.                                                    *)
(***************************************************************************)
THEOREM EvaluationsAreTyped == Spec => []EvaluationTypeOK
<1>1. EstimateInv => EvaluationTypeOK
    BY FoundedIsTyped DEF EstimateInv, IInv, EvidenceInv, PlaceInv, FoundedInv, EvaluationTypeOK
<1> QED
    BY <1>1, EstimateInvHolds, PTL

(***************************************************************************)
(* A pull request evaluates exactly the stacks that own the nearest         *)
(* registered directory above an infrastructure file it leaves behind,      *)
(* whatever the registry and the files, as long as registered paths name    *)
(* directories and nothing begins with what lstrip removes.                 *)
(***************************************************************************)
THEOREM PullRequestsEvaluateOwners == Spec => []TouchedStacksAreEvaluated
<1>1. EstimateInv => TouchedStacksAreEvaluated
    BY DEF EstimateInv, PlaceInv
<1> QED
    BY <1>1, EstimateInvHolds, PTL

(***************************************************************************)
(* An increment that is lower than what the change really adds, for more    *)
(* than the rounding of the two totals, is marked as incomplete, and passes *)
(* only under a policy that warns: whatever the two scans left out, however *)
(* the totals are rounded, and in whichever schema.                         *)
(***************************************************************************)
THEOREM UnderstatementIsFlagged == Spec => []UnderstatedIsFlagged
<1>1. EstimateInv => UnderstatedIsFlagged
    <2> SUFFICES ASSUME EstimateInv, estimate # Null, Resolved,
                        CountsUnpriced(documents["proposed"]),
                        Increment(estimate) <
                            TrueTotal(trigger.head) - TrueTotal(baseline) + Rounding
                 PROVE  /\ ~Complete(estimate)
                        /\ outcome \in {"PASS", "FAIL"} =>
                            "WARN" \in {policy.onUnsupported, policy.onUnknown}
        BY DEF UnderstatedIsFlagged
    <2>1. Founded
        BY DEF EstimateInv, FoundedInv
    <2>2. ~Complete(estimate)
        BY <2>1, FoundedIsFlagged
    <2>3. estimate.unsupported \in Nat /\ estimate.noPrice \in Nat
        BY <2>1, FoundedIsTyped
    <2>4. outcome \in {"PASS", "FAIL"} =>
            policy \in Policies /\ outcome = Evaluate(estimate, policy)
        BY DEF EstimateInv, FoundedInv
    <2> QED
        BY <2>2, <2>3, <2>4, IncompleteNeedsWarn
<1> QED
    BY <1>1, EstimateInvHolds, PTL

(***************************************************************************)
(* The rows of the breakdown are off Infracost's totals by Infracost's own  *)
(* rounding and by nothing else, whatever the two scans listed: the report  *)
(* has a mismatch to show exactly where that rounding exceeds the           *)
(* tolerance, for one total or for the difference of the two.               *)
(***************************************************************************)
THEOREM BreakdownsReconcile == Spec => []BreakdownReconciles
<1>1. EstimateInv => BreakdownReconciles
    BY FoundedReconciles DEF EstimateInv, FoundedInv, BreakdownReconciles
<1> QED
    BY <1>1, EstimateInvHolds, PTL

(***************************************************************************)
(* Every resource whose cost the change really moves has a row in the       *)
(* report, with the whole of the move: whatever Terraform does to it, also  *)
(* when it is gone, at every price and in both schemas, where the coverage  *)
(* is complete and the scan of the baseline had all its prices.             *)
(***************************************************************************)
THEOREM MovedCostsAreListed == Spec => []MovedCostIsListed
<1>1. EstimateInv => MovedCostIsListed
    <2>1. CASE estimate # Null
        BY <2>1, FoundedMovesAreListed DEF EstimateInv, FoundedInv
    <2>2. CASE estimate = Null
        BY <2>2 DEF MovedCostIsListed
    <2> QED
        BY <2>1, <2>2
<1> QED
    BY <1>1, EstimateInvHolds, PTL

(***************************************************************************)
(* A resource that the report calls priced is priced whole, in every        *)
(* content, at every price and in both schemas.                             *)
(***************************************************************************)
THEOREM PricedIsFullyPriced == Spec => []PricedMeansFullyPriced
<1>1. EstimateInv => PricedMeansFullyPriced
    BY FoundedLabels DEF EstimateInv, FoundedInv, PricedMeansFullyPriced
<1> QED
    BY <1>1, EstimateInvHolds, PTL

(***************************************************************************)
(* What the change does not touch cancels out of the increment, one that    *)
(* is priced through a reference included, as long as the plan is made from *)
(* the state that was read as the baseline.                                 *)
(***************************************************************************)
THEOREM UntouchedResourcesCancel == Spec => []UntouchedCancels
<1>1. EstimateInv => UntouchedCancels
    BY FoundedCancels DEF EstimateInv, FoundedInv, UntouchedCancels, DiffersOnlyByTheChange
<1> QED
    BY <1>1, EstimateInvHolds, PTL

(* --- without other runs ---------------------------------------------- *)

\* One state is read twice.
SnapshotInv ==
    /\ pc = "plan" => baseline = deployed
    /\ pc \in {"normalize"} \cup AfterPlan => plan.before = baseline
    /\ estimate # Null => plan.before = baseline

\* Nothing comes between the two reads.
LEMMA StepKeepsSnapshot ==
    ASSUME MaxDeploys = 0, EstimateInv, SnapshotInv, [Next]_vars
    PROVE  SnapshotInv'
<1>1. estimate # Null => pc \in {"decide", "done"}
    BY DEF EstimateInv, FoundedInv
<1>2. CASE Detection
    <2>1. /\ UNCHANGED <<plan, baseline, estimate>> /\ pc \in {"detect", "select", "matrix"}
          /\ pc' \in {"select", "matrix", "baseline", "done"}
        BY <1>2 DEF Detection, DetectChanges, DetectFails, Select, Dispatch, StartJob, evidence,
                    End, GoTo
    <2> QED
        BY <1>1, <2>1 DEF SnapshotInv, AfterPlan
<1>3. CASE ReadBaseline
    <2>1. /\ pc = "baseline" /\ pc' = "plan" /\ baseline' = deployed
          /\ UNCHANGED <<deployed, estimate>>
        BY <1>3 DEF ReadBaseline, GoTo, remote
    <2> QED
        BY <1>1, <2>1 DEF SnapshotInv, AfterPlan
<1>4. CASE PlanProposed
    <2>1. /\ pc = "plan" /\ pc' = "normalize" /\ UNCHANGED baseline
          /\ \E changes, errored :
                plan' = [before |-> deployed, changes |-> changes, errored |-> errored]
        BY <1>4 DEF PlanProposed, GoTo
    <2>2. plan'.before = deployed
        BY <2>1
    <2> QED
        BY <2>1, <2>2 DEF SnapshotInv
<1>5. CASE \/ BaselineUnavailable \/ PlanFails \/ PreflightFails
           \/ ScanFails \/ ScanHangs \/ ScanTimesOut
    <2>1. UNCHANGED <<plan, baseline, estimate>> /\ pc' \in {"done", "hung"}
        BY <1>5 DEF BaselineUnavailable, PlanFails, PreflightFails, ScanFails, ScanHangs,
                    ScanTimesOut, evidence, End, GoTo
    <2> QED
        BY <2>1 DEF SnapshotInv, AfterPlan
<1>6. CASE Normalize \/ Preflight \/ ScanProposed \/ ScanBaseline \/ Estimate \/ Decide
    <2>1. /\ UNCHANGED <<plan, baseline>>
          /\ pc \in {"normalize"} \cup AfterPlan /\ pc' # "plan"
        BY <1>6 DEF Normalize, Preflight, ScanProposed, ScanBaseline, Estimate, Decide, evidence,
                    End, GoTo, AfterPlan
    <2> QED
        BY <2>1 DEF SnapshotInv
<1>7. CASE DeployElsewhere
    BY <1>7 DEF DeployElsewhere, EstimateInv, PlaceInv
<1>8. CASE UNCHANGED vars
    BY <1>8 DEF SnapshotInv, vars, remote, evidence
<1> QED
    BY <1>2, <1>3, <1>4, <1>5, <1>6, <1>7, <1>8 DEF Next, Job, Reads, Analysis, Scans

(***************************************************************************)
(* What finops-cost-gate.yml says of untouched resources holds without a    *)
(* condition on the plan as long as no other run applies during the         *)
(* evaluation: the violation MCSnapshot finds needs one that does.          *)
(***************************************************************************)
THEOREM UndisturbedEvaluationsCancel ==
    ASSUME MaxDeploys = 0
    PROVE  Spec => []DiffersOnlyByTheChange
<1>1. Init => SnapshotInv
    BY DEF Init, SnapshotInv, AfterPlan
<1>2. EstimateInv /\ SnapshotInv /\ [Next]_vars => SnapshotInv'
    BY StepKeepsSnapshot
<1>3. EstimateInv /\ SnapshotInv => DiffersOnlyByTheChange
    <2> SUFFICES ASSUME EstimateInv, SnapshotInv, estimate # Null, NEW a \in DOMAIN estimate.rows,
                        Untouched(a), SeenAlike(a)
                 PROVE  estimate.rows[a].delta = 0
        BY DEF DiffersOnlyByTheChange
    <2>1. Founded
        BY DEF EstimateInv, FoundedInv
    <2>2. plan.before = baseline
        BY DEF SnapshotInv
    <2> QED
        BY <2>1, <2>2, FoundedCancels
<1> QED
    BY <1>1, <1>2, <1>3, EstimateInvHolds, PTL DEF Spec

=============================================================================
