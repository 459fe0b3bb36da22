---------------------------- MODULE CostEstimate ----------------------------
(***************************************************************************)
(* From two Infracost documents to an estimate and to what a report says of *)
(* it: src/finops/cost/infracost/parser.py, src/finops/cost/reconcile.py,   *)
(* src/finops/report/breakdown.py, and the actions that                     *)
(* src/finops/plan/normalizer.py reads off a plan.  Pure operators.         *)
(*                                                                          *)
(* A document is [schema, currency, total, resources, summary].  resources  *)
(* maps the addresses it lists to [supported, free, cost, parts].  cost is  *)
(* the monthly cost of the whole or Null, which only v0.10 reads; a part is *)
(* a cost component, of the resource or of a subresource, however deep:     *)
(* [monthly, found, usage], its monthly cost or Null, whether its price was *)
(* found, and whether it is billed by usage.  The summary of a v2 document  *)
(* is [detected, costed, free], that of a v0.10 document [unsupported,      *)
(* noPrice].                                                                *)
(***************************************************************************)
EXTENDS PolicyEngine, SequencesExt

CONSTANT Null       \* a money field that is null

\* No number is.
ASSUME NullAssumption == Null \notin Int

(* --- parsing -------------------------------------------------------------- *)

Missing(part) == part.monthly = Null \/ ~part.found

SumOf(parts, which) == SumFunctionOnSet([i \in which |-> parts[i].monthly], which)

\* v2 adds what has a price, and a resource of which nothing has one costs Null.
ParseV2Resource(raw) ==
    LET missing == \E i \in DOMAIN raw.parts : Missing(raw.parts[i])
        total == SumOf(raw.parts, {i \in DOMAIN raw.parts : ~Missing(raw.parts[i])})
    IN  [cost |-> IF missing /\ total = 0 THEN Null ELSE total,
         supported |-> raw.supported \/ raw.parts # <<>>,
         free |-> raw.free,
         usage |-> \E i \in DOMAIN raw.parts : raw.parts[i].usage,
         missing |-> missing]

\* v0.10 believes the cost of the whole, adds what is not null when there is none,
\* and lists no unsupported resource.
ParseV010Resource(raw) ==
    [cost |-> IF raw.cost # Null THEN raw.cost
              ELSE SumOf(raw.parts, {i \in DOMAIN raw.parts : raw.parts[i].monthly # Null}),
     supported |-> TRUE,
     free |-> raw.free,
     usage |-> \E i \in DOMAIN raw.parts : raw.parts[i].usage,
     missing |-> \E i \in DOMAIN raw.parts : Missing(raw.parts[i])]

\* Mutant: a resource with a price for some of its parts counts as priced.
CoverageOfWhole(doc) ==
    IF doc.schema = "v2"
    THEN [unsupported |-> Cardinality({a \in DOMAIN doc.resources : ~doc.resources[a].supported}),
          noPrice |-> Cardinality({a \in DOMAIN doc.resources :
                                      ParseV2Resource(doc.resources[a]).cost = Null})]
    ELSE [unsupported |-> doc.summary.unsupported, noPrice |-> doc.summary.noPrice]

\* What the documents themselves say about their resources.  v2 is counted
\* resource by resource; v0.10 is believed.
Coverage(doc) ==
    LET resources == DOMAIN doc.resources
        raw(a) == doc.resources[a]
    IN  IF doc.schema = "v2"
        THEN [unsupported |->
                Max({Cardinality({a \in resources : ~raw(a).supported /\ raw(a).parts = <<>>}),
                     doc.summary.detected - doc.summary.costed - doc.summary.free, 0}),
              noPrice |-> Cardinality({a \in resources : ParseV2Resource(raw(a)).missing})]
        ELSE [unsupported |-> doc.summary.unsupported, noPrice |-> doc.summary.noPrice]

\* Mutant: a total that is null is nothing.
ParseCoerced(doc) ==
    [currency |-> doc.currency,
     total |-> IF doc.total = Null THEN 0 ELSE doc.total,
     resources |-> [a \in DOMAIN doc.resources |->
        IF doc.schema = "v2" THEN ParseV2Resource(doc.resources[a])
                             ELSE ParseV010Resource(doc.resources[a])],
     coverage |-> Coverage(doc)]

Parse(doc) ==
    [currency |-> doc.currency,
     total |-> doc.total,
     resources |-> [a \in DOMAIN doc.resources |->
        IF doc.schema = "v2" THEN ParseV2Resource(doc.resources[a])
                             ELSE ParseV010Resource(doc.resources[a])],
     coverage |-> Coverage(doc)]

\* Mutant: usage is asked about before missing prices.
ConfidenceUsageFirst(parsed) ==
    CASE ~parsed.supported -> "UNSUPPORTED"
      [] parsed.supported /\ parsed.usage -> "USAGE_BASED"
      [] parsed.supported /\ ~parsed.usage /\ parsed.missing -> "NO_PRICE"
      [] OTHER -> IF parsed.free \/ parsed.cost = 0 THEN "FREE" ELSE "PRICED"

Confidence(parsed) ==
    CASE ~parsed.supported -> "UNSUPPORTED"
      [] parsed.supported /\ parsed.missing -> "NO_PRICE"
      [] parsed.supported /\ ~parsed.missing /\ parsed.usage -> "USAGE_BASED"
      [] OTHER -> IF parsed.free \/ parsed.cost = 0 THEN "FREE" ELSE "PRICED"

(* --- the plan ---------------------------------------------------------------- *)

\* The actions of a resource in the plan, as a sequence of words.
NormalizeAction(actions) ==
    CASE Contains(actions, "delete") /\ Contains(actions, "create") -> "replace"
      [] Len(actions) = 1 /\ actions[1] \in {"create", "delete", "update", "read"} -> actions[1]
      [] OTHER -> "no-op"

\* Of the managed resources: the data sources of a plan are left out.
PlanActions(changes) == [a \in DOMAIN changes |-> NormalizeAction(changes[a])]

(* --- build_estimate -------------------------------------------------------------- *)

\* A CostEstimationError instead of an estimate.
NotPriced(proposed, baseline) ==
    \/ proposed.total = Null
    \/ baseline.total = Null
    \/ proposed.currency # baseline.currency

\* What a resource costs in one of the documents; Null and not listed are nothing.
CostIn(parsed, a) ==
    IF a \in DOMAIN parsed.resources /\ parsed.resources[a].cost # Null
    THEN parsed.resources[a].cost ELSE 0

\* Mutant: only what the proposed configuration still has.
RowAddressesProposed(proposed, baseline) ==
    {a \in DOMAIN proposed.resources : CostIn(proposed, a) # 0 \/ CostIn(baseline, a) # 0}

\* Resources without a cost on either side get no row.
RowAddresses(proposed, baseline) ==
    {a \in DOMAIN proposed.resources \cup DOMAIN baseline.resources :
        CostIn(proposed, a) # 0 \/ CostIn(baseline, a) # 0}

Row(proposed, baseline, actions, a) ==
    [previous |-> CostIn(baseline, a),
     new |-> CostIn(proposed, a),
     delta |-> CostIn(proposed, a) - CostIn(baseline, a),
     confidence |-> Confidence(IF a \in DOMAIN proposed.resources THEN proposed.resources[a]
                                                                  ELSE baseline.resources[a]),
     action |-> IF a \in DOMAIN actions THEN actions[a] ELSE "none"]

\* The totals are Infracost's own, the coverage is that of the proposed document.
BuildEstimate(proposed, baseline, actions) ==
    [previous |-> baseline.total,
     new |-> proposed.total,
     authoritative |-> TRUE,
     currency |-> proposed.currency,
     unsupported |-> proposed.coverage.unsupported,
     noPrice |-> proposed.coverage.noPrice,
     rows |-> [a \in RowAddresses(proposed, baseline) |-> Row(proposed, baseline, actions, a)]]

\* Otherwise the estimate comes with a warning.
Complete(estimate) == estimate.unsupported = 0 /\ estimate.noPrice = 0

(* --- reconciliation ------------------------------------------------------------------ *)

\* Five cents: Infracost rounds each resource by itself.
Tolerance == 5

BeyondTolerance(difference) == difference > Tolerance \/ difference < -Tolerance

SumOfRows(estimate, addresses, field) ==
    SumFunctionOnSet([a \in addresses |-> estimate.rows[a][field]], addresses)

\* The figures of the breakdown that the report calls a mismatch: incomplete
\* coverage explains any other.
ReconciliationProblems(estimate) ==
    {field \in {"new", "delta"} :
        /\ Complete(estimate)
        /\ BeyondTolerance(SumOfRows(estimate, DOMAIN estimate.rows, field)
                            - IF field = "new" THEN estimate.new ELSE Increment(estimate))}

(* --- the report ----------------------------------------------------------------------- *)

ChangeActions == {"create", "update", "delete", "replace"}

\* Mutant: only what has an action of its own.
IsPrChangeActed(row) == row.action \in ChangeActions

\* The rows of the table: what moved, and what the change acts on.
IsPrChange(row) == row.delta # 0 \/ row.action \in ChangeActions

ListedRows(estimate) == {a \in DOMAIN estimate.rows : IsPrChange(estimate.rows[a])}

\* A resource's own action when it has one, otherwise where its cost went.
ChangeLabel(row) ==
    CASE row.action \in ChangeActions -> row.action
      [] row.action \notin ChangeActions /\ row.delta > 0 -> "increased"
      [] row.action \notin ChangeActions /\ row.delta < 0 -> "decreased"
      [] OTHER -> IF row.action = "read" THEN "read" ELSE "unchanged"

CoverageLabel(row) ==
    CASE row.confidence = "PRICED" -> "PRICED"
      [] row.confidence = "USAGE_BASED" -> "USAGE-BASED"
      [] row.confidence = "FREE" -> "NO DIRECT CHARGE"
      [] row.confidence \in {"NO_PRICE", "UNSUPPORTED"} -> "UNSUPPORTED / UNESTIMATED"

=============================================================================
