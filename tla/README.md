# TLA+ specifications of the FinOps cost engine

Models, model-checking configurations and machine-checked proofs for the
repository: the `finops` engine (`src/finops`), the workflow that runs it as a
deployment gate (`.github/workflows/finops-cost-gate.yml`) and the other
workflows over the same Terraform state.  Every definition is translated from
the source; `PROJECT.json` ("map") gives the lines each of them stands for.

## 1. Inventory

| Part | State it keeps | Operations | Talks to |
|---|---|---|---|
| Cost gate workflow (`finops-cost-gate.yml`) | per run: the matrix of stacks, job outcomes, uploaded artifacts, the output of `authorize-deploy` | `detect-changes`, `cost-gate`, `collect-blocked-stacks`, `finops-approval`, `authorize-deploy`, `deploy` | engine CLI, artifacts, Environment reviewers, Terraform |
| Remote Terraform state | per stack: resources, serial, lock file | `show`, `plan`, `apply <saved plan>` | every run of every workflow |
| Policy engine, authorization (`policy/engine.py`, `gate.py`) | none | `evaluate`, `finops_decision_label`, `authorize_deployment`, `evaluate_approval` | called by `analyze`, `authorize-deployment`, `approve` |
| `analyze` and the cost lock (`cli.py`, `gate.py`, `lock/cost_lock.py`) | the output directory: `cost-lock.json`, `gate-result.json`, `cost-estimate.json` | `analyze`, `verify-lock` | policy, estimators, AI, files |
| Budget exceptions (`lock/exception.py`) | exception records, approval records | `create-exception`, `verify-exception`, `approve`, `approval-verify` | reviews, policy, estimate, clock |
| Destroy workflow (`terraform-test-destroy.yml`) | per stack: the place in its concurrency group, the request, the saved destroy plan, the consent | `validate-destroy`, `destroy-approval`, `destroy`, `post-destroy-verify` | registry, reviewer, remote state |
| Backend workflows (`backend.yml`, `backend-destroy.yml`, composite actions) | the backend's own state | plan, apply, destroy | remote state |
| Stack registry, change detection (`stacks.py`, `plan/detector.py`) | none | `load_stacks`, `get_stack`, `select_stacks`, `validate_selection`, `detect_changes` | the `detect-changes` job, git |
| Plan normalisation, fingerprint (`plan/`, `models.py`) | none | `normalize_plan`, `state_json_to_plan_json`, `fingerprint` | gate, lock, exceptions |
| Estimators (`cost/`) | the installed version; two documents | `preflight`, `scan_plan`, `parse_document`, `build_estimate`, `reconcile_estimate` | Infracost |
| AI explanation (`ai/`) | none | `analyze` | model providers |
| Configuration (`config.py`, `config/finops-policy.yaml`) | none | `load_config` | all commands |
| Reports (`report/`) | none | `pr_changed_resources`, `change_label`, `coverage_breakdown` | estimate |
| Terraform stacks, scripts | none | declarations, fixtures | |

**What is hard.**  Nothing serialises two runs of the gate: they read, price,
wait for a reviewer for up to thirty days, plan once more and apply over one
remote state, with the state lock and the serial of a saved plan as the only
mutual exclusion.  Within a run, a verdict reaches the deploy job through two
kinds of artifacts, a merge, and jobs that GitHub skips or runs depending on
`always()`; any job may fail at any step, and a lost runner can leave the state
locked.  The engine writes several files in sequence into a directory it never
cleans, under a policy that comes from a file and from step environments, and
its exit code 1 means both "over the threshold" and "an exception escaped".
A destroy of a stack runs beside its deploys, and days may lie between the plan
its reviewer reads and its apply.  The increment itself is the difference of two
scans of two documents, made from two reads of a state that nobody locks, by a
tool that may price any part of either, in one of two schemas.
`PROJECT.json` ("hazards") lists these at their lines with the properties that
guard them.

**What makes each part correct.**

- Gate workflow: a resource changes only for a run that passed or whose FAIL was
  approved in that run, only where the registry allows it, and is never deleted;
  an approval never rewrites a decision; a stack is not held up by another; a
  run comes to an end.
- `analyze`: exit code 0 speaks for the files on disk; a lock that verifies was
  given on a PASS for the same stack, change, threshold and metric.
- Exceptions: an exception verifies only for the evaluation it was created from,
  under its ceiling, before it expires, with a review of the current head.
- Destroy: what goes is what the reviewer was shown, one workflow at a time changes
  a stack, every destroy ends and lets the next one in.
- Registry: every changed file is evaluated under the most specific stack that
  claims it, and by no stack when none does.
- Estimators: what is not priced is marked and never passes for a saving; rows and
  totals differ by nothing but Infracost's rounding; a decision rests on two complete
  documents.
- Reports: the table lists every resource whose cost the change really moves.

## 2. Plan

The order is by what a mistake would cost; steps 1 to 6 exist.

1. `Terraform`, `PolicyEngine`, `FinOpsPipeline` (composes them), the abstract
   `GovernedDeployment` it implements, and `FinOpsPipelineProofs`.
2. `AnalyzeCommand` (uses `PolicyEngine`): the command and the lock it leaves, at
   the grain of single files.
3. `AnalyzeCommandProofs`.
4. `BudgetException` (uses `PolicyEngine`): records, ceilings, expiry, reviews and
   bindings of `lock/exception.py` over a changing plan, policy and clock, and
   `BudgetExceptionProofs`.
5. `DestroyWorkflow`, which composes the destroy workflow with `FinOpsPipeline` over
   one `Terraform`, the abstract `GovernedLifecycle` it implements, and
   `DestroyWorkflowProofs`.
6. `StackRegistry`, `CostEstimate` and `CostEvaluation` (composes them with
   `PolicyEngine`), and their proofs: `FiniteSetProofs` (sums), `StackRegistryProofs`,
   `CostEstimateProofs`, `CostEvaluationProofs`.
7. Left: which attributes the fingerprint of a plan covers.

## 3. Modules

| Module | Models | |
|---|---|---|
| `Terraform` | state, serial, lock file and saved plans of every stack | external: from the flags the workflow passes |
| `PolicyEngine` | `evaluate`, exit codes, `evaluate_approval` | operators |
| `GovernedDeployment` | what the gate promises: verdicts, approvals, infrastructure | abstract specification |
| `FinOpsPipeline` | the gate workflow, any number of runs | state machine |
| `AnalyzeCommand` | `finops analyze`, `finops verify-lock` | state machine |
| `BudgetException` | exception records from creation to use | state machine |
| `GovernedLifecycle` | what the two workflows promise together | abstract specification |
| `DestroyWorkflow` | the destroy workflow beside the gate workflow | state machine |
| `StackRegistry` | the registry, path matching, change detection | operators |
| `CostEstimate` | parsing, `build_estimate`, reconciliation, report rows | operators |
| `CostEvaluation` | one evaluation, from the trigger to the decision | state machine |
| `FinOpsPipelineProofs`, `AnalyzeCommandProofs`, `BudgetExceptionProofs`, `DestroyWorkflowProofs`, `CostEvaluationProofs` | theorems about the state machines | TLAPS |
| `StackRegistryProofs` | to which stack a file belongs, for any registry | TLAPS |
| `CostEstimateProofs` | what an estimate is built of, and what a scan may answer | TLAPS |
| `FiniteSetProofs` | sums over finite sets | TLAPS |
| `MC...` (five) | constants for TLC | |

### FinOpsPipeline

A run record holds what `detect-changes` settles: event, branch, commit, the
stacks of the matrix, the `apply` input.  Its phase is the stretch of the job
graph it is in, and `CollectBlocked` and `AuthorizeDeploy` are the jobs between
two stretches.  A matrix job has a program counter per stack:

| Variable | Program |
|---|---|
| `gatePc` | the steps of `cost-gate` |
| `baseline` | the state `terraform show` read for `baseline-plan.json` |
| `result`, `exitCode` | `status` of `gate-result.json`; the step output `exit_code` |
| `lockStep` | `steps.verify_lock.outcome` |
| `gateArtifact`, `approvalArtifact` | the two `authorization.json` |
| `approvalPc` | the steps of `finops-approval` and its Environment review |
| `authorizations` | the output of `authorize-deploy` |
| `deployPc`, `deployPlan` | the steps of `deploy`; the saved `tfplan.binary` |
| `infra`, `serial`, `tfLock` | the remote state |

Each step that touches state, an artifact or an output is an action.  The grain
is that of the races: reading the baseline, planning, pricing, planning again,
taking the lock and each resource change are separate, so another run may act
between any two of them.  Faults are actions of the stacks in `Faulty` (a job
that breaks before, during or after each part of its work, an analyze that
cannot price or that crashes, a lost upload, an apply that fails half way, a
runner lost while it holds the lock) and of the barriers under `FaultyBarriers`.
Infrastructure is a function from addresses to attributes; a commit configures
one such function per stack, and `Cost` prices it.

Abstracted: credentials, tfvars and tool installation (one way for their job to
break), the text of comments and summaries (whether posting it fails is kept),
drift made by hand in the cloud, and a review is decided per stack, which
includes deciding all waiting stacks of a run one after the other.  Only the
`aws` stack has the configuration-drift assertion; it is one more way for a
gate job to break.

### AnalyzeCommand

One output directory, a plan file and a policy that are edited between commands.
A command walks through `run_gate` and `write_artifacts`: start, decide, explain,
mint, write the result, write the estimate, exit; `Die` may strike anywhere and
truncates the file that was being written.  `verify-lock` reads only, so it is
the operator `Verifies`.  `decided` is a history variable: the decisions against
which a lock is measured.

### BudgetException

One exception file of one pull request, while everything it is bound to moves: the
head, the plan document, the price of that plan, the policy, the clock and the
reviews.  `Create` is `create-exception`, `ApproveInRun` is `approve --action
approve` as the approval job calls it (default ceiling and lifetime).  The result
and the plan are separate inputs, as on the command line, and may be of different
commits.  Anyone may `Edit` the file, with or without the integrity hash, which
is unkeyed.  `verify-exception` is told the head and the author by options
(`--head-sha`, `--pr-author`) and leaves out the check of what it is not told
(`exception.py:228`): `VerifyException` takes both as parameters.  Without the author,
an approval by the author counts although the policy asks for another reviewer;
`ReviewerSawTheChange` says what holds with the option and without.  No workflow calls
the command.
The two verifications read only and are operators over one `Binds`, as
in the code.  `created` is a history variable.  `Bodies`, `Named` and `Ceilings`
bound what an edit, `--approver` and `--max-incremental-cost` may say.

### DestroyWorkflow

It extends `FinOpsPipeline` and adds, per stack, `destroyPc`, the `request` (cloud
and whether DESTROY was typed), the saved `destroyPlan` and the `pending` request.
The concurrency group has one running and one pending member per stack, and a
later dispatch replaces the pending one, so that two destroys of one stack are
never told apart and their number is not bounded.  The dispatch form offers the
environment `dev` alone.  The saved plan refers to the serial it was made from, and
its apply takes the lock and needs that serial, as a deploy does.  `Destroyer` is
the holder of the locks of destroys, a lost runner's included.
`Deployable` and `CloudOf` are what the registry says; this workflow reads the YAML
itself, without `load_stacks`, so that two stacks with one state key would not be
refused here.  The checks of `post-destroy-verify` only read.  `README.md` (line
607) says that the concurrency group keeps a destroy from racing a deploy; the
group covers destroys only, and it is the lock and the serial that do
(`OneWriterPerStack`, `PlansAreCurrent`).

### StackRegistry, CostEstimate, CostEvaluation

A path is a sequence of pieces, a registry a sequence of entries.  An Infracost
document lists resources, each with its parts; what a stack really costs (`Bill`)
is a constant, and `ScansOf` gives every document Infracost may answer with, in
either schema: any set of resources not supported (in v2 with the parts it has
prices for, which `parser.py` counts as covered), any set of parts without a price, a
null total, another currency, and for v0.10 a summary that counts resources without a
price or, as some releases do, free ones.  Each resource and the total are rounded by
themselves (`reconcile.py:19-20`), so that a total may be off the sum of the resources
by any of `Drifts`; `DriftOf` is by how much it is, and `Rounding` what that makes of the
increment.  The rows of a document are exact: what the code compares is rows and
totals, and only their difference is visible to it.  The answers are a set of their
own (`Answers`) only so that TLC computes them once.  A resource may cost
what another one makes of it (`Refers`): Infracost prices it at nothing while that
one is yet to be created.

An evaluation follows one job of the matrix; the jobs of the other stacks are
evaluations of their own.  Stacks are selected, and so the registry is loaded, also
when no infrastructure file has changed: a registry that does not load fails the job
of any pull request.  The two reads of the state are separate actions, and
`DeployElsewhere` lets another run apply between them (`MaxDeploys` bounds it: an
apply before them is another initial state, one after them is not read).  A scan
may fail, hang, or return; a hung one is killed after the timeout.  The guard
against a missing baseline (`gate.py:93`) is not in the model: in the workflow the
step that reads it has failed by then.  What follows the decision is
`AnalyzeCommand`.

### GovernedDeployment

Three variables and three actions: `Decide`, `Approve`, `Change`.  The refinement
mapping takes `result` for the verdict and "the approval job has recorded its
approval" for `approved`; `infra` is the same variable.  The contract does not
know runs that race, artifacts, locks or plans; that the workflow implements it
says that none of these lets a resource change without a PASS or an approval of
a FAIL of that very run and stack, on a stack that may not be deployed, or by
deleting it.

### GovernedLifecycle

It extends the contract by `Show`, `Consent`, `Remove` and `Close`.  The refinement
mapping takes the saved plan of a destroy for what was shown, from its upload to
its end, and the approval of the environment for the consent.  `Remove` wants
every resource of the stack to be as it was shown or gone: a deploy between the
review and the apply takes the consent's force away.  An authorization given before
a destroy still holds after it: a deploy then creates again what was removed, as
the code does.

## 4. What the runs check

| Run | Instance | Shows |
|---|---|---|
| `MCTwoRuns` | 2 runs, 1 stack, 3 commits, all faults (1.3 million states) | `TypeOK`, `BlockStaysBlock`, `OnlyFailIsApproved`, `PricedIncreaseIsBounded`, `OneApplyPerStack`, the inductive `PipelineInv`, and `ImplementsContract` |
| `MCIsolation` | 1 run, 2 stacks (one not deployable and faulty), 3 commits: dear for neither, both, or one of them; fairness | `PassIsDeployed`, `ApprovedIsDeployed`, `ImplementsContract` |
| `MCCommands` | 2 commands, 2 stacks, 2 changes, 4 policies | `AnalyzeTypeOK`, `VerifiedLockWasPassed`, `ExitZeroMatchesFiles`, `PassVerifies` |
| `MCExceptions` | 1 record, 2 commits, 4 prices, 3 policies, 2 days, 1 review (1.6 million states) | `ExceptionTypeOK`, `ExceptionInv`, `DriftIsBounded`, `AgeIsBounded`, `ReviewerSawTheChange` |
| `MCDestroy` | any number of destroys of 1 stack and 1 run, all faults, fairness (150,000 states) | `DestroyTypeOK`, `OneWriterPerStack`, `PlansAreCurrent`, the inductive `LifecycleInv`, `ImplementsLifecycle`, `RunsSettle`, `DestroysSettle`, `GroupIsReleased` |
| `MCEstimates` | 15 triggers over 6 registries, 4 contents, every answer of Infracost in 2 schemas, 2 policies, fairness (419,000 states) | `EvaluationTypeOK`, `TouchedStacksAreEvaluated`, `UnderstatedIsFlagged`, `BreakdownReconciles`, `MovedCostIsListed`, `PricedMeansFullyPriced`, `DecisionNeedsBothScans`, `UntouchedCancels`, `EvaluationSettles` |
| `MCReplanned` | 2 runs, no faults | violated: `UnreviewedIncreaseIsBounded` |
| `MCSuperseded` | 2 runs, no faults | violated: `ApprovalEndsWithNewCommit` |
| `MCUnverifiedLock` | 1 run, faults | violated: `PassHasVerifiedLock` |
| `MCThresholdVariable` | 1 run, variable and file differ | violated: `PassIsAuthorized` |
| `MCSnapshot` | as `MCEstimates` | violated: `DiffersOnlyByTheChange` |
| `MCInfinite` | 1 command | violated: `DecisionStands` |

Every property of a passing run has a mutant in `PROJECT.json`: an operator
defined next to the original (comment "Mutant: ...") that changes it the way a
plausible bug would, and under which TLC finds the property violated.

**The six violations** are statements of the documentation that the code does
not keep; `PROJECT.json` ("findings") quotes them.

- `MCReplanned`: the deploy job plans again and does not price what it plans.  A
  stack at "large" is priced +60 for a change that passes; another run reduces
  it to "small"; the first run then deploys +120, over a threshold of 100, with
  no review.  `PricedIncreaseIsBounded` is the part that does hold: the increase
  is bounded unless another run has made the stack cheaper in between.
- `MCSuperseded`: a run that waits for its reviewer is not affected by a newer
  commit, and may deploy its own after the newer one was deployed.
- `MCUnverifiedLock`: the lock check is skipped when posting the comment failed,
  and "skipped" is not "failure".
- `MCThresholdVariable`: `FINOPS_THRESHOLD_VALUE` reaches `analyze` and not
  `verify-lock`; once it differs from the policy file, no PASS is authorized.
- `MCSnapshot`: the workflow says that baseline and proposed plan are of one state
  snapshot.  They are two reads; when another run applies in between, what that run
  did to a resource becomes part of this change's increment.  `UntouchedCancels` is
  the part that holds: with nothing applied in between, what a change does not
  touch cancels out, a resource priced through a reference included.
- `MCInfinite`: a percentage threshold with an empty baseline makes the observed
  value infinite; rounding it raises outside every handler, and no result is
  written.

Further differences were seen and are not runs.  The record of an approval
replaces the DENIED of a stack that is not deployable (`745-746`, `1014-1023`);
the registry check of the deploy job is what `MCIsolation` shows to hold.  A
FAIL leaves the lock of an earlier PASS in a reused output directory, where
`verify-lock` still accepts it for the change it was minted for
(`VerifiedLockWasPassed`).  An exception for a change whose approved increment is
not positive, which a threshold on the whole bill can FAIL, may have any ceiling
(`exception.py:124`), although the policy file speaks of a multiple of the
approved cost (`config/finops-policy.yaml:121-123`): `DriftIsBounded` speaks of
positive costs.  v0.10 takes the number of resources without a price from the
summary (`parser.py:346`), where `docs/ARCHITECTURE.md:282` names the flag of each
component: `UnderstatedIsFlagged` has this as a condition.  The increment drifts by
the rounding of two totals, and its sum of rows is compared with the tolerance of one
(`reconcile.py:97-104`), so that the report may call "a reporting defect"
(`reconcile.py:72`) what is the drift that lines 19-20 expect, once for either total:
`BreakdownReconciles` says exactly when.  And rows that cost
nothing on either side are dropped (`parser.py:433`), so that a created resource
without a price is in no table, although `breakdown.py:184-185` wants one that
prices at zero listed.

### Bounds

- Two runs: the races are between what one run reads and what one other run does
  in between; a third run adds no new kind of step.  The theorems do not depend
  on the number.
- Two addresses, one of which comes in two sizes, three commits: enough for an
  update, a creation and a deletion, for a change within, over and below the
  threshold, and for an increase that is within it from one state and over it
  from another.
- One stack in the concurrent instances, since runs interact through one stack's
  state; two stacks in `MCIsolation`, where the matrix is the point.
- Every run may be started once, by either trigger, at any time: `Run` is the
  bound.  The runs of `MCTwoRuns` are interchangeable (symmetry; no liveness is
  checked there).
- `MCDestroy` has one commit, one run and one attribute: the destroy, a destroy that
  waits, and the run are three actors on one stack, and a deploy between the review
  of a destroy and its apply, in either half, is reached.  What ends a run does not
  depend on what it deploys, and the lock it waits for is a destroy's or that of a
  lost runner.
- The contents of `MCEstimates` are an empty stack, two sizes of a template with the
  group that refers to it (the template is free, the group costs what it says), and
  one with a disk that has a part billed by size and one billed by usage.  Prices
  are cents between 1000 and 6000, the threshold is 2500, so that a missing part
  moves a change over it or under it.  A total is exact, three cents low or six high:
  within the five cents of the reconciliation and beyond them for one total, and for
  the difference of two.  The registries have a nested stack listed after its parent, a
  shared directory, and one each of the errors that `load_stacks` refuses.
- `MaxCommands` bounds the analyze commands.  Two suffice for one command to find
  what another left, and the theorems have no bound.
- One record, one review and two days in `MCExceptions`: an exception is verified by
  itself, the conditions compare it with single values, and the two days make every
  lifetime of the policies expire or be shortened.  Edits are of one shape, with a
  ceiling and a date no command gives; the theorems have any edit.
- Deadlock is checked in all runs of the workflow: a state without a step is one
  in which every run has settled (`Finished`).

### Fairness

`FairSpec` is weak fairness of `Progress`, the steps of a run that are not faults:
GitHub schedules every job whose needs have ended, runs its steps to the end, and
closes a review that is not answered after thirty days.  There is none for
commits, dispatches, or a particular outcome of a review; none for a fault; and
none for a state lock to be released: a deploy job that finds the lock taken ends
by `-lock-timeout`, which `RunsSettle` needs (its mutant waits for ever).

`DestroyFairSpec` adds the same for destroys: jobs go on, a review is answered or
expires, a free group admits the run that waits.  Nobody owes a dispatch.  A run
that waits may be replaced for ever; `GroupIsReleased` says that the group does not
stay busy with one destroy.

In `CostEvaluation`, `WF_vars(Job)`: the runner goes from one step to the next, and
`subprocess.run` kills a scan that exceeds its timeout.  What other runs apply is
not fair.  `CHECK_DEADLOCK FALSE`, as an evaluation ends.

## 5. What is proved

TLAPS checks the eight proof modules, for all values of the constants under named
assumptions: for the pipeline `TerraformAssumption` (absence is not an attribute,
"nobody" is not a run) and `PipelineAssumption` (the types of the constants); for
the command `CommandAssumption`, for the exceptions `ExceptionAssumption` and
`BodiesAssumption`, for the destroy `DestroyAssumption` (types again).  For the
evaluation:

| Assumption | Says | Because |
|---|---|---|
| `ContentAssumption` | types; the addresses are finite in number | a plan is a file |
| `TriggerAssumption` | a registry is a list of entries with text for paths; changed files have relative, non-empty paths | `load_stacks` converts to `str`; `git diff --name-only` |
| `BillAssumption` | a bill is a list of charges, none below zero | prices of a cloud provider |
| `DriftAssumption` | a drift is a whole number of cents, of any size | `money` rounds to cents |
| `ReferenceAssumption` | two contents that agree on a resource, and on what it refers to, charge the same for it | what `Refers` means |
| `PolicyAssumption` | what could not be priced is treated by `WARN` or `BLOCK` | `VALID_FAILSAFE_ACTIONS` (`config.py:36`) |
| `NullAssumption` | null is not a number | JSON |

TLC evaluates all of them on the instances.

- `TypeCorrect`, and `PipelineInvariant`: `[](TypeOK /\ PipelineInv)`.
- From it: `DecisionsAreKept`, `ApprovalsAreOfFails`, `AppliesExcludeEachOther`,
  `IncreasesAreBounded`.
- `PipelineImplementsContract`: `Spec => Contract!Spec`.
- `LifecycleTypeCorrect`, `LifecycleInvariant`, and from it `WritersExcludeEachOther`
  and `PlansStayCurrent`; `LifecycleImplementsContract`: `DestroySpec =>
  Lifecycle!LifecycleSpec`.
- `DecisionsRestOnScans`: `Spec => []DecisionNeedsBothScans`.
- `EvaluationsAreTyped`, `PullRequestsEvaluateOwners` (`TouchedStacksAreEvaluated`),
  `UnderstatementIsFlagged` (`UnderstatedIsFlagged`), `BreakdownsReconcile`
  (`BreakdownReconciles`), `MovedCostsAreListed` (`MovedCostIsListed`),
  `PricedIsFullyPriced` (`PricedMeansFullyPriced`) and `UntouchedResourcesCancel`
  (`UntouchedCancels`): with it, every invariant of `MCEstimates`.
- `UndisturbedEvaluationsCancel`: with `MaxDeploys = 0`, `Spec =>
  []DiffersOnlyByTheChange`.  This is the property `MCSnapshot` violates; the theorem
  says that another run between the two reads is the only way to.
- `OwnersAreNearest`: the stack `select_stacks` finds for a file is the one that
  registered the nearest directory above it.
- `CommandsKeepTypes`, `CommandInvariant`, and from it `LocksArePasses`, `ExitZeroIsBacked` and the
  action property `PassesVerify`.
- `ExceptionsKeepTypes`, `ExceptionInvariant`, and from it `DriftsAreBounded`, `AgesAreBounded` and
  `ReviewersSeeTheChange`.

**The argument of the pipeline.**  None of the safety properties is inductive: an
AUTHORIZED record is good because of what was true when it was written, several
jobs earlier.  `PipelineInv` says so for each phase.  `GateInv`: a gate artifact
that says PASS or AUTHORIZED goes back to a priced PASS, since only exit code 0
leads there and only a PASS leaves it.  `ApprovalInv`: an approval artifact
exists exactly if the approval was recorded, which takes a FAIL in the uploaded
result.  `AuthorizationInv`: so the merged record is one or the other, and it
exists only from the deploy phase on, when neither source can change any more;
that last part is what makes it inductive.  `DeployInv`: a saved plan whose serial is
current starts from the state as it is, so that deleting nothing when planned is
deleting nothing when applied; an apply holds the lock, so no second one moves
the state; and a resource change keeps "the rest deletes nothing".  Each action's
preservation is a step, behind frame lemmas (`GateFrame`, `DeployFrame`) that say
what a job cannot touch.  In the refinement, `ApplyChangesResource` is the only
step that maps to `Change`, and `DeployInv` with `AuthorizationInv` gives its
guard.

**The argument of the command.**  `LockInv` relates every lock to a PASS in the
history; a lock file is replaced or torn, never edited.  `DecisionInv` carries the
decision from `Decide` to `MintLock`, where the policy cannot have been edited as
a command is running, and `FilesInv` carries the lock from there to the exit.

**The argument of the exceptions.**  A verification compares the record with the
policy and the plan of the day; that the record itself speaks of a FAIL, of that
increment and within its headroom was settled when it was created, under another
policy.  `ExceptionInv` keeps the two together: the history is only added to, and
only by `CreateException`.

**The argument of the destroy.**  The cost gate's invariant is reused: a destroy
writes nothing that workflow knows but the state, and what it does there is one of
four effects (`DestroyEffect`): nothing, taking a free lock, removing a resource
under its lock, letting the lock go.  Each of them could be another deploying
run's, so `PipelineInv` survives.  What is new is `ShownInv`: a saved destroy plan
with a current serial shows the stack as it is, and one that is being applied holds
the lock.  From the two follows that an apply finds every resource as its plan
found it or as its plan makes it (`PlansAreCurrent`), which in the refinement is
the guard of `Remove`.

**The argument of the evaluation.**  What the properties say of an estimate follows
from how it was made, and `Founded` states that: two documents with a total, one that
Infracost may answer for the head as planned and one for the state as read, a plan
that Terraform made of some content, and `BuildEstimate` of the three.  Each property
is derived from `Founded` alone, with no step of the system in sight (`FoundedReconciles`,
`FoundedIsFlagged`, ...).  To get there, `CostEstimateProofs` narrows what a scan may be:
a resource is viewed as free, unsupported, unresolved or listed part by part
(`ViewFacts`); a document is a view of every resource with the sum of their costs and a
drift (`ScanFacts`); so that but for the drift no scan overprices a content
(`ScansDoNotOverprice`), and one whose coverage has no gap prices all of it, resource by
resource (`CompleteScansPriceAll`).  The rows of an estimate are off the totals by the
two drifts, which is all that `BreakdownReconciles` leaves for a mismatch; and a cost
that really moves is not zero on both sides, which keeps its row (`RowAddresses`) and
lists it, also when the resource is in one of the documents only.

That every estimate is founded is an induction on where the job stands.  `EvidenceInv`
names, place by place, what the earlier steps have established (a baseline read, a plan
without errors, one scan, both, an estimate in their currency); `PlaceInv` the types and
the selection; `FoundedInv` what the plan was made from, that an estimate is founded, and
that a PASS or a FAIL is what the policy says of that estimate.  The conjunction,
`EstimateInv`, is needed because the properties speak of documents read several steps
before the estimate was made of them, and hold on after the decision.  Without other
runs, `SnapshotInv` adds that the plan was made from the baseline.

**Sums.**  Totals are sums over sets of any size, and a fold cannot be unfolded by
induction here, since the library's induction theorems take an operator.  `FiniteSetProofs`
goes another way: a property that fails for some subset of a finite set fails for a
smallest one (`SmallestSubset`: strict inclusion is well-founded there), and
taking one element out of that gives the contradiction.  In this way a sum is shown to
exist, to be unique, to lose exactly the term of the element taken out
(`SumUnfolds`), and from there to be monotonic, additive, and indifferent to zeros.

**The argument of the registry.**  Of well-formed paths `lstrip` removes nothing
(`NothingToStrip`); the registered prefixes of a path that end in a slash are exactly
the registered directories above it (`MatchingAreAbove`), two of which never have the
same length; so the longest is one, and among those who registered it the stable sort
leaves the first (`NearestIsOne`).  `WellFormed` is the condition of
`TouchedStacksAreEvaluated`; the loose registry of `MCEstimates` shows that it is one.

**Only model-checked.**  The liveness properties (`RunsSettle`, `DestroysSettle`,
`GroupIsReleased`, `EvaluationSettles`, `PassIsDeployed`, `ApprovedIsDeployed`): TLAPS
does not reason about fairness and ENABLED here.  All invariants of the passing runs,
`PassVerifies`, and both refinements are proved.

## 6. What is not modelled

The backend workflows: they create and remove the bucket of the states with
Terraform's plan and apply, and share no state, artifact or code with the rest.
The mock and the fixture estimator, which no workflow uses.  Which attributes the
fingerprint covers, regions, clouds of resources, the sanitizer: text of a plan.
Reports beyond which rows they list and under which heading, and prompts (nothing
reads them back); AI providers beyond success, failure and exception; the Terraform
configurations themselves; the scripts that produce fixtures; re-running the failed
jobs of an ended workflow run.
GitHub, Terraform and Infracost are modelled only by how the workflow
uses them.
