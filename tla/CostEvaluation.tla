--------------------------- MODULE CostEvaluation ---------------------------
(***************************************************************************)
(* One evaluation of the cost gate, from the trigger to the decision:       *)
(* which stacks a change touches (the detect-changes job), and, for one of  *)
(* them, the two reads of the remote state, the two Infracost scans, the    *)
(* estimate and the policy (the cost-gate job and src/finops/gate.py).      *)
(* The jobs of the other stacks of a matrix are evaluations of their own.   *)
(*                                                                          *)
(* A content is what a stack consists of: Size[c] maps its addresses to     *)
(* their own arguments and Bill[c] to what they really cost, a sequence of  *)
(* [price, usage].  A resource may refer to another and cost what that one  *)
(* makes of it, as an autoscaling group costs what its launch template      *)
(* says.  Terraform, git and Infracost are external: what they answer is a  *)
(* choice among what the code has to expect of them.                        *)
(***************************************************************************)
EXTENDS StackRegistry, CostEstimate

CONSTANTS
    Triggers,       \* [event |-> "pull_request", registry, edited, moved, head] or
                    \* [event |-> "workflow_dispatch", registry, name, cloud, environment, head]
    Address,
    Content, Size, Bill,
    Refers,         \* address |-> the address it refers to, or Null
    Drifts,         \* by how many cents a total may be off the sum of the resources
    Policies,
    MaxDeploys      \* bound on what other runs apply meanwhile

ASSUME ContentAssumption ==
    /\ Content = DOMAIN Size /\ Content = DOMAIN Bill
    /\ \A c \in Content : DOMAIN Size[c] \subseteq Address /\ DOMAIN Bill[c] = DOMAIN Size[c]
    /\ IsFiniteSet(Address) /\ DOMAIN Refers = Address
    /\ \A t \in Triggers : t.head \in Content
    /\ MaxDeploys \in Nat

\* A registry is a list, and git names files by relative paths.
ASSUME TriggerAssumption ==
    \A t \in Triggers :
        /\ IsRegistry(t.registry)
        /\ t.event = "pull_request" =>
            \A f \in ChangedFiles(t.edited, t.moved) : f \in Path /\ Head(f) # "/"

\* A bill lists what is charged, and charges nothing below zero.
ASSUME BillAssumption ==
    \A c \in Content : \A a \in DOMAIN Bill[c] :
        Bill[c][a] \in Seq([price : Nat, usage : BOOLEAN])

\* Each resource is rounded by itself.
ASSUME DriftAssumption == Drifts \subseteq Int

\* In two contents nothing makes a resource's bill differ but its own arguments and
\* those of what it refers to.
ASSUME ReferenceAssumption ==
    \A c, d \in Content : \A a \in DOMAIN Size[c] \cap DOMAIN Size[d] :
        /\ Size[c][a] = Size[d][a]
        /\ Refers[a] \in DOMAIN Size[c] <=> Refers[a] \in DOMAIN Size[d]
        /\ Refers[a] \in DOMAIN Size[c] => Size[c][Refers[a]] = Size[d][Refers[a]]
        => Bill[c][a] = Bill[d][a]

\* load_config refuses any other treatment of what could not be priced.
ASSUME PolicyAssumption ==
    \A p \in Policies : {p.onUnsupported, p.onUnknown} \subseteq {"WARN", "BLOCK"}

VARIABLES
    trigger,        \* with the registry and the content of its commit
    pc,
    selected,       \* the stacks of the matrix
    stack,          \* the one that is evaluated
    deployed,       \* the content of its remote state
    deploys,        \* how often another run has applied
    baseline,       \* the content of the state as read for the baseline
    plan,           \* the proposed plan
    schema,         \* of the installed Infracost
    documents,      \* its document for either side
    estimate,
    policy,         \* the policy file
    outcome

remote == <<deployed, deploys>>
evidence == <<baseline, plan, schema, documents, estimate>>
vars == <<trigger, pc, selected, stack, remote, evidence, policy, outcome>>

Outcome == Status \cup {"none", "skipped", "failed"}
Side == {"proposed", "baseline"}

\* Ends as the decision, or as a job that was skipped or failed before one.
End(result) == pc' = "done" /\ outcome' = result

GoTo(next) == pc' = next /\ UNCHANGED outcome

(* --- the detect-changes job ------------------------------------------------- *)

registry == trigger.registry

Changed == ChangedFiles(trigger.edited, trigger.moved)

\* git diff, classified.
DetectChanges ==
    /\ pc = "detect"
    /\ trigger.event = "pull_request"
    /\ GoTo("select")
    /\ UNCHANGED <<trigger, policy, selected, stack, remote, evidence>>

\* Neither form of git diff works: a PlanError.
DetectFails ==
    /\ pc = "detect"
    /\ trigger.event = "pull_request"
    /\ End("failed")
    /\ UNCHANGED <<trigger, policy, selected, stack, remote, evidence>>

\* The registry is loaded whatever has changed.  There is no fallback: a change
\* that maps to no stack evaluates nothing.
Select ==
    /\ pc = "select"
    /\ LET stacks == SelectStacks(registry, InfrastructureFiles(Changed))
       IN  IF ~Loads(registry) THEN End("failed") /\ UNCHANGED selected
           ELSE /\ selected' = stacks
                /\ IF stacks = {} THEN End("skipped") ELSE GoTo("matrix")
    /\ UNCHANGED <<trigger, policy, stack, remote, evidence>>

\* A dispatch names one stack, and the registry has to agree with what it says.
Dispatch ==
    /\ pc = "detect"
    /\ trigger.event = "workflow_dispatch"
    /\ IF /\ Loads(registry)
          /\ trigger.name \in Names(registry)
          /\ SelectionAgrees(Entry(registry, trigger.name), trigger.cloud, trigger.environment)
       THEN selected' = {trigger.name} /\ GoTo("matrix")
       ELSE UNCHANGED selected /\ End("failed")
    /\ UNCHANGED <<trigger, policy, stack, remote, evidence>>

StartJob ==
    /\ pc = "matrix"
    /\ \E s \in selected : stack' = s
    /\ GoTo("baseline")
    /\ UNCHANGED <<trigger, policy, selected, remote, evidence>>

(* --- the two reads of the state ------------------------------------------------- *)

\* terraform show of the state, reshaped into a plan: no changes, nothing unknown.
ReadBaseline ==
    /\ pc = "baseline"
    /\ baseline' = deployed
    /\ GoTo("plan")
    /\ UNCHANGED <<trigger, policy, selected, stack, remote, plan, schema, documents, estimate>>

\* A backend that cannot be read is never an empty one.
BaselineUnavailable ==
    /\ pc = "baseline"
    /\ End("failed")
    /\ UNCHANGED <<trigger, policy, selected, stack, remote, evidence>>

\* Nothing is locked: another run may apply between the two reads.
DeployElsewhere ==
    /\ pc = "plan"
    /\ deploys < MaxDeploys
    /\ \E c \in Content : deployed' = c
    /\ deploys' = deploys + 1
    /\ UNCHANGED <<trigger, policy, pc, selected, stack, evidence, outcome>>

\* What Terraform may do to each resource.  One whose reference becomes known
\* only after the apply is updated with it.
ChangesOf(before, head) ==
    LET addresses == DOMAIN Size[before] \cup DOMAIN Size[head]
        own(a) == CASE a \notin DOMAIN Size[before] -> {<<"create">>}
                    [] a \notin DOMAIN Size[head] -> {<<"delete">>}
                    [] OTHER -> IF Size[before][a] # Size[head][a]
                                THEN {<<"update">>, <<"delete", "create">>}
                                ELSE {<<"no-op">>}
        renewed(changes, a) ==
            /\ Refers[a] \in addresses
            /\ NormalizeAction(changes[Refers[a]]) \in {"create", "replace"}
    IN  {[a \in addresses |->
            IF changes[a] = <<"no-op">> /\ renewed(changes, a) THEN <<"update">> ELSE changes[a]] :
                changes \in {f \in [addresses -> UNION {own(a) : a \in addresses}] :
                                \A a \in addresses : f[a] \in own(a)}}

PlanProposed ==
    /\ pc = "plan"
    /\ \E changes \in ChangesOf(deployed, trigger.head), errored \in BOOLEAN :
            plan' = [before |-> deployed, changes |-> changes, errored |-> errored]
    /\ GoTo("normalize")
    /\ UNCHANGED <<trigger, policy, selected, stack, remote, baseline, schema, documents, estimate>>

PlanFails ==
    /\ pc = "plan"
    /\ End("failed")
    /\ UNCHANGED <<trigger, policy, selected, stack, remote, evidence>>

(* --- finops analyze ------------------------------------------------------------------ *)

\* A plan that Terraform marked as errored is not priced.
Normalize ==
    /\ pc = "normalize"
    /\ IF plan.errored THEN End("ERROR") ELSE GoTo("preflight")
    /\ UNCHANGED <<trigger, policy, selected, stack, remote, evidence>>

\* The version decides the command, and the command the schema.
Preflight ==
    /\ pc = "preflight"
    /\ schema' \in {"v2", "v0.10"}
    /\ GoTo("proposed")
    /\ UNCHANGED <<trigger, policy, selected, stack, remote, baseline, plan, documents, estimate>>

\* No binary, no version within 30 seconds, or one that cannot be read.
PreflightFails ==
    /\ pc = "preflight"
    /\ End("ERROR")
    /\ UNCHANGED <<trigger, policy, selected, stack, remote, evidence>>

\* Mutant: as if the proposed plan had been made from an empty state.
UnresolvedHermetic(changes, head) == {a \in DOMAIN Size[head] : Refers[a] # Null}

\* A reference to what the plan is yet to create cannot be priced through.
Unresolved(changes, head) ==
    {a \in DOMAIN Size[head] :
        /\ Refers[a] \in DOMAIN changes
        /\ NormalizeAction(changes[Refers[a]]) \in {"create", "replace"}}

\* The parts Infracost would have to price.
PartsToPrice(content, unresolved) ==
    UNION {{<<a, i>> : i \in DOMAIN Bill[content][a]} : a \in DOMAIN Bill[content] \ unresolved}

FreeView == [supported |-> TRUE, free |-> TRUE, cost |-> 0, parts |-> <<>>]

UnsupportedView == [supported |-> FALSE, free |-> FALSE, cost |-> Null, parts |-> <<>>]

\* Without what an unresolved reference would bring.
UnresolvedView ==
    [supported |-> TRUE, free |-> FALSE, cost |-> 0,
     parts |-> <<[monthly |-> 0, found |-> TRUE, usage |-> FALSE]>>]

\* Each part with a price or without.
ListedView(style, bill, found) ==
    [supported |-> TRUE, free |-> FALSE,
     cost |-> IF found = {} THEN Null ELSE SumFunction([i \in found |-> bill[i].price]),
     parts |-> [i \in DOMAIN bill |->
                    [monthly |-> IF i \in found THEN bill[i].price
                                 ELSE IF style = "v2" THEN Null ELSE 0,
                     found |-> i \in found,
                     usage |-> bill[i].usage]]]

\* Infracost's view of a resource.  v2 may list one it does not support with the
\* parts it has a price for all the same, "nested blocks" (parser.py).
ViewOf(style, content, a, unresolved, unsupported, unpriced) ==
    LET bill == Bill[content][a]
        found == {i \in DOMAIN bill : <<a, i>> \notin unpriced}
    IN  CASE bill = <<>> -> FreeView
          [] bill # <<>> /\ a \in unresolved -> UnresolvedView
          [] bill # <<>> /\ a \in unsupported \ unresolved ->
                IF style = "v2" /\ found # {}
                THEN [ListedView(style, bill, found) EXCEPT !.supported = FALSE]
                ELSE UnsupportedView
          [] OTHER -> ListedView(style, bill, found)

ViewsOf(style, content, unresolved, unsupported, unpriced) ==
    [a \in DOMAIN Bill[content] |-> ViewOf(style, content, a, unresolved, unsupported, unpriced)]

Covered(view) == view.supported \/ view.parts # <<>>

Unpriced(view) == \E i \in DOMAIN view.parts : ~view.parts[i].found

SumOfViews(views) ==
    SumFunction([a \in {b \in DOMAIN views : views[b].cost # Null} |-> views[a].cost])

\* The total is rounded by itself, and so is each resource.
TotalsOf(views) ==
    LET sum == SumOfViews(views)
    IN  {sum} \cup {sum + drift : drift \in {x \in Drifts : 0 < sum /\ 0 <= sum + x}}

\* v2 lists every resource and counts what it covers.  v0.10 leaves out what it
\* does not support and counts as "no price" what has a part without one, or, as
\* releases of it do, what is free.
DocumentsOf(style, views) ==
    LET Free == {a \in DOMAIN views : views[a].free}
        Supported == {a \in DOMAIN views : views[a].supported}
        Lacking == {a \in DOMAIN views : Unpriced(views[a])}
        document(summary, resources, total) ==
            [schema |-> style, currency |-> "USD", summary |-> summary, resources |-> resources,
             total |-> total]
    IN  IF style = "v2"
        THEN {document([detected |-> Cardinality(DOMAIN views),
                        costed |-> Cardinality({a \in DOMAIN views : Covered(views[a])} \ Free),
                        free |-> Cardinality(Free)], views, total) :
                    total \in TotalsOf(views)}
        ELSE {document([unsupported |-> Cardinality(DOMAIN views \ Supported),
                        noPrice |-> Cardinality(counted)], Restrict(views, Supported), total) :
                    counted \in {Lacking, Free}, total \in TotalsOf(views)}

\* The answers to a scan.  A total that is null and another currency come with any
\* of them, and are told apart once.
AnswersTo(style, content, unresolved) ==
    LET parts == PartsToPrice(content, unresolved)
        complete == DocumentsOf(style, ViewsOf(style, content, unresolved, {}, {}))
    IN  (UNION {DocumentsOf(style, ViewsOf(style, content, unresolved, unsupported, unpriced)) :
                    unsupported \in SUBSET {p[1] : p \in parts}, unpriced \in SUBSET parts})
        \cup {[d EXCEPT !.total = Null] : d \in complete}
        \cup {[d EXCEPT !.currency = "EUR"] : d \in complete}

\* As a set: TLC computes a constant set once, instead of its members at every step.
Answers ==
    {[to |-> q, documents |-> AnswersTo(q[1], q[2], q[3])] :
        q \in {"v2", "v0.10"} \X Content \X SUBSET Address}

ScansOf(style, content, unresolved) ==
    (CHOOSE answer \in Answers : answer.to = <<style, content, unresolved>>).documents

ScanProposed ==
    /\ pc = "proposed"
    /\ \E d \in ScansOf(schema, trigger.head, Unresolved(plan.changes, trigger.head)) :
            documents' = [documents EXCEPT !["proposed"] = d]
    /\ GoTo("second")
    /\ UNCHANGED <<trigger, policy, selected, stack, remote, baseline, plan, schema, estimate>>

ScanBaseline ==
    /\ pc = "second"
    /\ \E d \in ScansOf(schema, baseline, {}) : documents' = [documents EXCEPT !["baseline"] = d]
    /\ GoTo("estimate")
    /\ UNCHANGED <<trigger, policy, selected, stack, remote, baseline, plan, schema, estimate>>

\* Exit code, no credentials, no JSON, or a schema that is neither.
ScanFails ==
    /\ pc \in {"proposed", "second"}
    /\ End("ERROR")
    /\ UNCHANGED <<trigger, policy, selected, stack, remote, evidence>>

ScanHangs ==
    /\ pc \in {"proposed", "second"}
    /\ GoTo("hung")
    /\ UNCHANGED <<trigger, policy, selected, stack, remote, evidence>>

\* Mutant: a scan that hangs is waited for.
ScanIsAwaited == FALSE

\* subprocess.run kills the scan after timeout_seconds.
ScanTimesOut ==
    /\ pc = "hung"
    /\ End("ERROR")
    /\ UNCHANGED <<trigger, policy, selected, stack, remote, evidence>>

Estimate ==
    /\ pc = "estimate"
    /\ LET proposed == Parse(documents["proposed"])
           before == Parse(documents["baseline"])
       IN  IF NotPriced(proposed, before) THEN End("ERROR") /\ UNCHANGED estimate
           ELSE /\ estimate' = BuildEstimate(proposed, before, PlanActions(plan.changes))
                /\ GoTo("decide")
    /\ UNCHANGED <<trigger, policy, selected, stack, remote, baseline, plan, schema, documents>>

\* The policy file is read when the command starts and used here alone.
Decide ==
    /\ pc = "decide"
    /\ \E p \in Policies : policy' = p /\ End(Evaluate(estimate, p))
    /\ UNCHANGED <<trigger, selected, stack, remote, evidence>>

(* --- the specification ------------------------------------------------------------------ *)

Init ==
    /\ trigger \in Triggers
    /\ pc = "detect"
    /\ selected = {}
    /\ stack = Null
    /\ deployed \in Content
    /\ deploys = 0
    /\ baseline = Null
    /\ plan = Null
    /\ schema = Null
    /\ documents = [side \in Side |-> Null]
    /\ estimate = Null
    /\ policy = Null
    /\ outcome = "none"

Detection == DetectChanges \/ DetectFails \/ Select \/ Dispatch \/ StartJob

Reads == ReadBaseline \/ BaselineUnavailable \/ PlanProposed \/ PlanFails

Scans == ScanProposed \/ ScanBaseline \/ ScanFails \/ ScanHangs \/ ScanTimesOut

Analysis == Normalize \/ Preflight \/ PreflightFails \/ Scans \/ Estimate \/ Decide

Job == Detection \/ Reads \/ Analysis

Next == Job \/ DeployElsewhere

Spec == Init /\ [][Next]_vars

\* The runner goes from step to step; what other runs do is not fair.
FairSpec == Spec /\ WF_vars(Job)

(* --- properties ----------------------------------------------------------------------------- *)

RowType(row) ==
    /\ row.previous \in Nat /\ row.new \in Nat /\ row.delta \in Int
    /\ row.confidence \in {"PRICED", "USAGE_BASED", "FREE", "NO_PRICE", "UNSUPPORTED"}
    /\ row.action \in ChangeActions \cup {"read", "no-op", "none"}

(***************************************************************************)
(* Types: an estimate has totals and a cost of every row, however little of *)
(* the two documents was priced, and its coverage counts are not negative.  *)
(***************************************************************************)
EvaluationTypeOK ==
    /\ trigger \in Triggers /\ policy \in Policies \cup {Null}
    /\ selected \subseteq Names(registry) /\ stack \in selected \cup {Null}
    /\ deployed \in Content /\ deploys \in 0 .. MaxDeploys
    /\ baseline \in Content \cup {Null}
    /\ DOMAIN documents = Side
    /\ outcome \in Outcome /\ (pc = "done" <=> outcome # "none")
    /\ estimate # Null =>
        /\ estimate.previous \in Nat /\ estimate.new \in Nat
        /\ estimate.unsupported \in Nat /\ estimate.noPrice \in Nat
        /\ DOMAIN estimate.rows \subseteq Address
        /\ \A a \in DOMAIN estimate.rows : RowType(estimate.rows[a])

(***************************************************************************)
(* A pull request evaluates the stacks that own what it touches: those of   *)
(* the nearest registered directory above each infrastructure file it       *)
(* leaves behind, and no other (select_stacks sorts all paths by length and *)
(* takes the first that is a prefix).  A path that is registered without    *)
(* its final slash, or with a leading dot, is outside of the claim, and so  *)
(* are a file whose path begins with a dot and the directory a file was     *)
(* moved out of.                                                            *)
(***************************************************************************)
TouchedStacksAreEvaluated ==
    pc = "matrix" /\ trigger.event = "pull_request" /\ PathsAreDirectories(registry, Changed) =>
        selected = UNION {NearestOwner(registry, path) :
                            path \in {f \in Changed : ~Ignored(f) /\ IsInfrastructure(f)}}

\* What a resource, or a content, really costs.
TrueCost(content, a) ==
    SumFunction([i \in DOMAIN Bill[content][a] |-> Bill[content][a][i].price])

TrueTotal(content) == SumFunction([a \in DOMAIN Bill[content] |-> TrueCost(content, a)])

\* Nothing is priced before an unresolved reference is.
Resolved == Unresolved(plan.changes, trigger.head) = {}

\* A v0.10 document that counts, as "no price", parts without one.
CountsUnpriced(d) ==
    d.schema = "v0.10" =>
        d.summary.noPrice >= Cardinality({a \in DOMAIN d.resources : Unpriced(d.resources[a])})

\* By how much Infracost's total is off what it says of the resources.
DriftOf(d) == d.total - SumOfViews(d.resources)

Rounding == DriftOf(documents["proposed"]) - DriftOf(documents["baseline"])

(***************************************************************************)
(* An increment that is lower than what the change really adds to the       *)
(* baseline, for more than the rounding of the two totals, is always        *)
(* marked: the estimate says that its coverage is incomplete, and a policy  *)
(* that blocks on it gives ERROR.  Only the coverage of the proposed        *)
(* document is kept (build_estimate): what the other document lacks can     *)
(* only make the increment higher.  Conditional on resolved references, and *)
(* on Infracost counting what has no price.                                 *)
(***************************************************************************)
UnderstatedIsFlagged ==
    /\ estimate # Null
    /\ Resolved
    /\ CountsUnpriced(documents["proposed"])
    /\ Increment(estimate) < TrueTotal(trigger.head) - TrueTotal(baseline) + Rounding
    => /\ ~Complete(estimate)
       /\ outcome \in {"PASS", "FAIL"} => "WARN" \in {policy.onUnsupported, policy.onUnknown}

(***************************************************************************)
(* What the report calls a mismatch is Infracost's own rounding, and all of *)
(* it that exceeds the tolerance: whatever the two scans priced of which    *)
(* resource, resources that only one of them knows included, the rows       *)
(* neither add a difference nor hide one.  The increment is measured with   *)
(* the tolerance of one total, although it drifts by that of two.           *)
(***************************************************************************)
BreakdownReconciles ==
    estimate # Null =>
        ReconciliationProblems(estimate) =
            {field \in {"new", "delta"} :
                /\ Complete(estimate)
                /\ BeyondTolerance(IF field = "new" THEN DriftOf(documents["proposed"])
                                                     ELSE Rounding)}

\* What a content pays for an address, and whether the scan of the baseline could
\* tell.
TruePrice(content, a) == IF a \in DOMAIN Bill[content] THEN TrueCost(content, a) ELSE 0

KnownBefore(a) ==
    a \in DOMAIN Bill[baseline] =>
        LET listed == documents["baseline"].resources
        IN  a \in DOMAIN listed /\ Covered(listed[a]) /\ ~Unpriced(listed[a])

(***************************************************************************)
(* The table of the report has a row for every resource whose cost the      *)
(* change really moves, with the whole of the move, also where Terraform    *)
(* acts on one resource and the cost lands on another, and where a resource *)
(* is gone: as long as the coverage is complete, the references are         *)
(* resolved, and the scan of the baseline had all prices of the resource.   *)
(***************************************************************************)
MovedCostIsListed ==
    estimate # Null /\ Resolved /\ CountsUnpriced(documents["proposed"]) /\ Complete(estimate) =>
        \A a \in DOMAIN Bill[trigger.head] \cup DOMAIN Bill[baseline] :
            LET moved == TruePrice(trigger.head, a) - TruePrice(baseline, a)
            IN  KnownBefore(a) /\ moved # 0 =>
                    a \in ListedRows(estimate) /\ estimate.rows[a].delta = moved

(***************************************************************************)
(* A resource that is reported under another heading than "UNSUPPORTED /    *)
(* UNESTIMATED" is reported at its whole price, as long as the proposed     *)
(* document lists it at all (coverage_breakdown).                           *)
(***************************************************************************)
PricedMeansFullyPriced ==
    estimate # Null /\ Resolved =>
        \A a \in DOMAIN estimate.rows \cap DOMAIN documents["proposed"].resources :
            CoverageLabel(estimate.rows[a]) # "UNSUPPORTED / UNESTIMATED" =>
                estimate.rows[a].new = TrueCost(trigger.head, a)

(***************************************************************************)
(* A PASS or a FAIL rests on two documents of this evaluation, one of the   *)
(* head as planned and one of the state as read, in the currency of the     *)
(* policy and both with a total, and on a plan that Terraform did not mark  *)
(* as errored: "A null total means Infracost could not price this"          *)
(* (docs/ARCHITECTURE.md), never that it costs nothing.                     *)
(***************************************************************************)
DecisionNeedsBothScans ==
    outcome \in {"PASS", "FAIL"} =>
        /\ baseline \in Content
        /\ ~plan.errored
        /\ documents["proposed"] \in ScansOf(schema, trigger.head, Unresolved(plan.changes, trigger.head))
        /\ documents["baseline"] \in ScansOf(schema, baseline, {})
        /\ \A side \in Side :
                documents[side].total # Null /\ documents[side].currency = policy.currency

\* Neither the plan nor what it refers to is acted on.
Untouched(a) ==
    \A b \in {a, Refers[a]} \cap DOMAIN plan.changes : NormalizeAction(plan.changes[b]) = "no-op"

\* The two documents found prices for the same parts.
SeenAlike(a) ==
    /\ \A side \in Side : a \in DOMAIN documents[side].resources
    /\ LET parts(side) == documents[side].resources[a].parts
       IN  /\ Len(parts("proposed")) = Len(parts("baseline"))
           /\ \A i \in DOMAIN parts("proposed") :
                parts("proposed")[i].found = parts("baseline")[i].found

\* "a resource the change does not touch prices identically on both sides and
\* cancels out of the delta" (finops-cost-gate.yml).
DiffersOnlyByTheChange ==
    estimate # Null =>
        \A a \in DOMAIN estimate.rows :
            Untouched(a) /\ SeenAlike(a) => estimate.rows[a].delta = 0

(***************************************************************************)
(* As long as nothing is applied between the read of the baseline and the   *)
(* plan, a resource the change does not touch cancels out of the increment, *)
(* one whose price comes through a reference included, because the plan is  *)
(* made from the state and not from an empty one.                           *)
(***************************************************************************)
UntouchedCancels == plan # Null /\ plan.before = baseline => DiffersOnlyByTheChange

(***************************************************************************)
(* Every evaluation ends with a decision, or as a job that was skipped or   *)
(* failed, also when a scan hangs.                                          *)
(***************************************************************************)
EvaluationSettles == <>(pc = "done")

=============================================================================
