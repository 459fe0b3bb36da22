--------------------------- MODULE FinOpsPipeline ---------------------------
(***************************************************************************)
(* The FinOps Cost Gate workflow (.github/workflows/finops-cost-gate.yml):  *)
(* several runs of it at once, each with a matrix of stacks, over the       *)
(* remote Terraform state they share.                                       *)
(*                                                                          *)
(* A run goes through the phases                                            *)
(*    gate      cost-gate, one job per stack: read the baseline, plan,      *)
(*              analyze, report, verify the lock, upload an authorization   *)
(*    approval  finops-approval, one job per BLOCKed stack, waiting for the *)
(*              reviewer of the finops-cost-approval Environment            *)
(*    deploy    deploy, one job per stack: check the authorization, plan    *)
(*              afresh, refuse deletions, apply                             *)
(* collect-blocked-stacks and authorize-deploy are the barriers between the *)
(* phases.  Nothing serialises runs: the workflow declares no concurrency   *)
(* group, so the only mutual exclusion is Terraform's own state lock.       *)
(***************************************************************************)
EXTENDS Terraform, PolicyEngine

CONSTANTS
    Run,             \* the runs of this workflow
    Branch,          \* the pull requests (branches) the runs come from
    Commit,          \* the commits pushed to them
    Content,         \* Content[c][s]: what commit c configures for stack s
    Touches,         \* Touches[c]: the stacks whose paths commit c changes
    Deployable,      \* the stacks the registry marks deployable
    Cost,            \* Cost[x]: the monthly price of infrastructure x
    GateThreshold,   \* the threshold of the analyze step: FINOPS_THRESHOLD_VALUE
    PolicyThreshold, \* the threshold of config/finops-policy.yaml
    Faulty,          \* the stacks whose jobs may fail for reasons of their own:
                     \* runner, network, cloud and GitHub API, Infracost
    FaultyBarriers   \* whether the jobs between the phases may fail like that

ASSUME PipelineAssumption ==
    /\ Run \subseteq Holder
    /\ Branch # {}
    /\ Commit # {}
    /\ Content \in [Commit -> [Stack -> Infra]]
    /\ Touches \in [Commit -> SUBSET Stack]
    /\ Deployable \subseteq Stack
    /\ Cost \in [Infra -> Nat]
    /\ GateThreshold \in Nat
    /\ PolicyThreshold \in Nat
    /\ Faulty \subseteq Stack
    /\ FaultyBarriers \in BOOLEAN

VARIABLES
    head,             \* the newest commit of each branch
    run,              \* [phase, event, branch, commit, stacks, apply] of each run
    gatePc,           \* where each cost-gate job stands
    baseline,         \* the state its baseline document was made from
    result,           \* the status in its gate-result.json, "NONE" without one
    exitCode,         \* the exit code analyze left, -1 when it never ran
    lockStep,         \* the outcome of its step "Verify cost lock"
    gateArtifact,     \* the authorization.json it uploaded
    approvalPc,       \* where each finops-approval job stands
    approvalArtifact, \* the authorization.json that job uploaded
    authorizations,   \* the output of authorize-deploy
    deployPc,         \* where each deploy job stands
    deployPlan        \* the plan it saved: [from, serial]

gateVars == <<gatePc, baseline, result, exitCode, lockStep, gateArtifact>>
approvalVars == <<approvalPc, approvalArtifact>>
deployVars == <<authorizations, deployPc, deployPlan>>
vars == <<head, run, gateVars, approvalVars, deployVars, tfVars>>

-----------------------------------------------------------------------------
Event == {"pull_request", "workflow_dispatch"}

RunRecord == [phase : {"idle", "gate", "approval", "deploy", "ended"}, event : Event,
              branch : Branch, commit : Commit, stacks : SUBSET Stack, apply : BOOLEAN]

NoRecord == [decision |-> "NONE", authorization |-> "NONE"]

Record == [decision : Decision, authorization : Authorization]

SavedPlan == [from : Infra, serial : Nat]

GatePc == {"off", "start", "baselined", "planned", "analyzed", "reported",
           "unreported", "verified", "done"}
ApprovalPc == {"off", "waiting", "approved", "rejected", "recorded", "refused"}
DeployPc == {"off", "start", "verified", "planned", "applying",
             "applied", "refused", "destructive", "stale", "failed"}

DeployEnded == {"applied", "refused", "destructive", "stale", "failed"}

PerJob(S) == [Run -> [Stack -> S]]

TypeOK ==
    /\ TerraformTypeOK
    /\ head \in [Branch -> Commit]
    /\ run \in [Run -> RunRecord]
    /\ gatePc \in PerJob(GatePc)
    /\ baseline \in PerJob(Infra)
    /\ result \in PerJob(Status \cup {"NONE"})
    /\ exitCode \in PerJob({-1, 0, 1, 2})
    /\ lockStep \in PerJob({"skipped", "success", "failure"})
    /\ gateArtifact \in PerJob(Record \cup {NoRecord})
    /\ approvalPc \in PerJob(ApprovalPc)
    /\ approvalArtifact \in PerJob(Record \cup {NoRecord})
    /\ authorizations \in PerJob(Record \cup {NoRecord})
    /\ deployPc \in PerJob(DeployPc)
    /\ deployPlan \in PerJob(SavedPlan)

NotStarted == [phase |-> "idle", event |-> "pull_request",
               branch |-> CHOOSE b \in Branch : TRUE,
               commit |-> CHOOSE c \in Commit : TRUE,
               stacks |-> {}, apply |-> FALSE]

\* Everything about a run is unset until it starts; what is already deployed
\* when the first run starts is nothing, or what some commit configures.
Init ==
    /\ head \in [Branch -> Commit]
    /\ run = [r \in Run |-> NotStarted]
    /\ gatePc = [r \in Run |-> [s \in Stack |-> "off"]]
    /\ baseline = [r \in Run |-> [s \in Stack |-> NothingDeployed]]
    /\ result = [r \in Run |-> [s \in Stack |-> "NONE"]]
    /\ exitCode = [r \in Run |-> [s \in Stack |-> -1]]
    /\ lockStep = [r \in Run |-> [s \in Stack |-> "skipped"]]
    /\ gateArtifact = [r \in Run |-> [s \in Stack |-> NoRecord]]
    /\ approvalPc = [r \in Run |-> [s \in Stack |-> "off"]]
    /\ approvalArtifact = [r \in Run |-> [s \in Stack |-> NoRecord]]
    /\ authorizations = [r \in Run |-> [s \in Stack |-> NoRecord]]
    /\ deployPc = [r \in Run |-> [s \in Stack |-> "off"]]
    /\ deployPlan = [r \in Run |-> [s \in Stack |-> [from |-> NothingDeployed, serial |-> 0]]]
    /\ infra \in [Stack -> Infra]
    /\ \A s \in Stack : infra[s] \in {NothingDeployed} \cup {Content[c][s] : c \in Commit}
    /\ serial = [s \in Stack |-> 0]
    /\ tfLock = [s \in Stack |-> NoRun]

-----------------------------------------------------------------------------
(* --- the run starts: detect-changes -------------------------------------- *)

Target(r, s) == Content[run[r].commit][s]

Start(r, event, b, c, stacks, apply) ==
    /\ run[r].phase = "idle"
    /\ run' = [run EXCEPT ![r] = [phase |-> "gate", event |-> event, branch |-> b,
                                  commit |-> c, stacks |-> stacks, apply |-> apply]]
    /\ gatePc' = [gatePc EXCEPT ![r] = [s \in Stack |-> IF s \in stacks THEN "start" ELSE "off"]]
    /\ UNCHANGED <<baseline, result, exitCode, lockStep, gateArtifact,
                   approvalVars, deployVars, tfVars>>

\* A commit is pushed to a pull request.  The stacks are those whose registered
\* paths it touches; a commit that touches none evaluates nothing.
Push(r, b, c) ==
    /\ c # head[b]
    /\ Touches[c] # {}
    /\ head' = [head EXCEPT ![b] = c]
    /\ Start(r, "pull_request", b, c, Touches[c], FALSE)

\* workflow_dispatch: one registered stack of the branch as it is now.
Dispatch(r, b, s, apply) ==
    /\ Start(r, "workflow_dispatch", b, head[b], {s}, apply)
    /\ UNCHANGED head

(* --- cost-gate: one job per stack ----------------------------------------- *)

GateAt(r, s, pc) == run[r].phase = "gate" /\ gatePc[r][s] = pc

GateTo(r, s, pc) == gatePc' = [gatePc EXCEPT ![r][s] = pc]

\* `terraform init` and `terraform show -json` on the real backend.
ReadBaseline(r, s) ==
    /\ GateAt(r, s, "start")
    /\ GateTo(r, s, "baselined")
    /\ baseline' = [baseline EXCEPT ![r][s] = infra[s]]
    /\ UNCHANGED <<head, run, result, exitCode, lockStep, gateArtifact,
                   approvalVars, deployVars, tfVars>>

\* `terraform plan -lock=false -refresh=false`.  It reads the state once more, but
\* what Infracost prices of a plan is the configuration it ends in.
PlanProposed(r, s) ==
    /\ GateAt(r, s, "baselined")
    /\ GateTo(r, s, "planned")
    /\ UNCHANGED <<head, run, baseline, result, exitCode, lockStep, gateArtifact,
                   approvalVars, deployVars, tfVars>>

\* A step before the gate fails (checkout, credentials, an unreadable backend,
\* the aws configuration-drift assertion): analyze is skipped, the
\* authorization step has no exit code to work with and uploads no record.
GateJobBroken(r, s) ==
    /\ s \in Faulty
    /\ run[r].phase = "gate"
    /\ gatePc[r][s] \in {"start", "baselined", "planned"}
    /\ GateTo(r, s, "done")
    /\ UNCHANGED <<head, run, baseline, result, exitCode, lockStep, gateArtifact,
                   approvalVars, deployVars, tfVars>>

Estimate(before, after) ==
    [previous |-> Cost[before], new |-> Cost[after], authoritative |-> TRUE,
     currency |-> "USD", unsupported |-> 0, noPrice |-> 0]

\* The policy of config/finops-policy.yaml, with the given threshold.
Policy(threshold) ==
    [metric |-> "incremental_monthly_cost", threshold |-> threshold, currency |-> "USD",
     equalityIsPass |-> TRUE, allowReductions |-> TRUE, allowNonAuthoritative |-> FALSE,
     onUnsupported |-> "WARN", onUnknown |-> "WARN"]

\* Mutant: the two documents handed to analyze in the wrong order.
VerdictSwapped(before, after) == Evaluate(Estimate(after, before), Policy(GateThreshold))

Verdict(before, after) == Evaluate(Estimate(before, after), Policy(GateThreshold))

AnalyzeLeaves(r, s, status, code) ==
    /\ GateAt(r, s, "planned")
    /\ GateTo(r, s, "analyzed")
    /\ result' = [result EXCEPT ![r][s] = status]
    /\ exitCode' = [exitCode EXCEPT ![r][s] = code]
    /\ UNCHANGED <<head, run, baseline, lockStep, gateArtifact,
                   approvalVars, deployVars, tfVars>>

\* `finops analyze` prices both documents and decides.
Analyze(r, s) ==
    LET status == Verdict(baseline[r][s], Target(r, s))
    IN  AnalyzeLeaves(r, s, status, ExitCode(status))

\* ... or the cost cannot be established,
AnalyzeErrs(r, s) == s \in Faulty /\ AnalyzeLeaves(r, s, "ERROR", ExitCode("ERROR"))

\* ... or an exception that is not a FinOpsError escapes: Python exits 1, the
\* code of a threshold BLOCK, and no gate-result.json has been written.
AnalyzeCrashes(r, s) == s \in Faulty /\ AnalyzeLeaves(r, s, "NONE", 1)

\* The approval request, the step summary and the comment on the pull request.
\* Writing the approval request needs the artifacts of an exit code 1.
Report(r, s) ==
    /\ GateAt(r, s, "analyzed")
    /\ \/ /\ exitCode[r][s] = 1 => result[r][s] = "FAIL"
          /\ GateTo(r, s, "reported")
       \/ /\ s \in Faulty
          /\ GateTo(r, s, "unreported")
    /\ UNCHANGED <<head, run, baseline, result, exitCode, lockStep, gateArtifact,
                   approvalVars, deployVars, tfVars>>

\* The lock analyze mints on a PASS of a deployable stack records the threshold
\* it was decided with.  verify-lock runs without the step environment that set
\* it, so it compares the lock with the policy file.
LockVerifies == GateThreshold = PolicyThreshold

\* The step has no status function in its `if`, so it runs only while every
\* step before it (analyze excepted) has succeeded.
VerifyLock(r, s) ==
    /\ run[r].phase = "gate"
    /\ gatePc[r][s] \in {"reported", "unreported"}
    /\ GateTo(r, s, "verified")
    /\ lockStep' = [lockStep EXCEPT ![r][s] =
          IF gatePc[r][s] = "reported" /\ exitCode[r][s] = 0 /\ s \in Deployable
          THEN IF LockVerifies THEN "success" ELSE "failure"
          ELSE "skipped"]
    /\ UNCHANGED <<head, run, baseline, result, exitCode, gateArtifact,
                   approvalVars, deployVars, tfVars>>

\* Mutant: whatever has not failed the lock check is authorized.
GateRecordLockOnly(r, s) ==
    [decision |-> DecisionLabel(exitCode[r][s]),
     authorization |-> IF lockStep[r][s] # "failure" THEN "AUTHORIZED" ELSE "DENIED"]

\* `finops authorize-deployment`, overruled for a stack that is not deployable.
GateRecord(r, s) ==
    LET states == EvaluateApproval(exitCode[r][s], "none", FALSE, lockStep[r][s] # "failure")
    IN  [decision |-> states.decision,
         authorization |-> IF s \in Deployable THEN states.authorization ELSE "DENIED"]

\* The record is computed and uploaded; without the upload nothing downstream
\* ever sees it.
UploadAuthorization(r, s) ==
    /\ GateAt(r, s, "verified")
    /\ GateTo(r, s, "done")
    /\ \/ gateArtifact' = [gateArtifact EXCEPT ![r][s] = GateRecord(r, s)]
       \/ s \in Faulty /\ UNCHANGED gateArtifact
    /\ UNCHANGED <<head, run, baseline, result, exitCode, lockStep,
                   approvalVars, deployVars, tfVars>>

(* --- collect-blocked-stacks and finops-approval ---------------------------- *)

Blocked(r) ==
    {s \in Stack : gateArtifact[r][s] # NoRecord /\ gateArtifact[r][s].decision = "BLOCK"}

\* Runs when every cost-gate job has ended, however it ended.  Each stack whose
\* record says BLOCK gets an approval job, an ERROR as much as a FAIL.
CollectBlocked(r) ==
    /\ run[r].phase = "gate"
    /\ \A s \in run[r].stacks : gatePc[r][s] = "done"
    /\ run' = [run EXCEPT ![r].phase = "approval"]
    /\ \/ approvalPc' = [approvalPc EXCEPT ![r] =
                            [s \in Stack |-> IF s \in Blocked(r) THEN "waiting" ELSE "off"]]
       \/ FaultyBarriers /\ UNCHANGED approvalPc
    /\ UNCHANGED <<head, gateVars, approvalArtifact, deployVars, tfVars>>

\* The reviewer of the Environment decides.  A review nobody answers is failed
\* by GitHub after thirty days, which is a rejection.
Review(r, s, choice) ==
    /\ run[r].phase = "approval"
    /\ approvalPc[r][s] = "waiting"
    /\ approvalPc' = [approvalPc EXCEPT ![r][s] = choice]
    /\ UNCHANGED <<head, run, gateVars, approvalArtifact, deployVars, tfVars>>

\* Mutant: the approval rewrites the decision.
ApprovalRecordPass == [decision |-> "PASS", authorization |-> "AUTHORIZED"]

ApprovalRecord ==
    LET states == EvaluateApproval(1, "approve", FALSE, TRUE)
    IN  [decision |-> states.decision, authorization |-> states.authorization]

\* Mutant: approvable is what the record calls a BLOCK.
ApprovableBlock(r, s) == gateArtifact[r][s].decision = "BLOCK"

\* `finops approve` refuses whatever is not a FAIL.
Approvable(r, s) == result[r][s] = "FAIL"

\* An approved job runs it, then writes its record as for an exit code 1 and
\* uploads it.
RecordApproval(r, s) ==
    /\ run[r].phase = "approval"
    /\ approvalPc[r][s] = "approved"
    /\ Approvable(r, s)
    /\ approvalPc' = [approvalPc EXCEPT ![r][s] = "recorded"]
    /\ approvalArtifact' = [approvalArtifact EXCEPT ![r][s] = ApprovalRecord]
    /\ UNCHANGED <<head, run, gateVars, deployVars, tfVars>>

ApprovalRefused(r, s) ==
    /\ run[r].phase = "approval"
    /\ approvalPc[r][s] = "approved"
    /\ ~Approvable(r, s) \/ s \in Faulty
    /\ approvalPc' = [approvalPc EXCEPT ![r][s] = "refused"]
    /\ UNCHANGED <<head, run, gateVars, approvalArtifact, deployVars, tfVars>>

(* --- authorize-deploy ------------------------------------------------------ *)

\* Mutant: the merge reads the records of the cost gate only.
MergedGateOnly(r) == gateArtifact[r]

\* An approval's record replaces the record of the cost gate.
Merged(r) ==
    [s \in Stack |-> IF approvalArtifact[r][s] # NoRecord THEN approvalArtifact[r][s]
                     ELSE gateArtifact[r][s]]

WantsDeploy(r) == run[r].event = "workflow_dispatch" => run[r].apply

\* Mutant: no always() in the `if`, so that one failed cost-gate job skips it.
DeployConditionNoAlways(r) == WantsDeploy(r) /\ \A s \in run[r].stacks : result[r][s] = "PASS"

\* The `if` of the deploy job: always() and what the trigger asked for.
DeployCondition(r) == WantsDeploy(r)

\* Runs when no approval job is left open.  The deploy matrix has every stack of
\* the run, authorized or not; it is skipped when this job fails.
AuthorizeDeploy(r) ==
    /\ run[r].phase = "approval"
    /\ \A s \in Stack : approvalPc[r][s] \notin {"waiting", "approved"}
    /\ \/ /\ authorizations' = [authorizations EXCEPT ![r] = Merged(r)]
          /\ run' = [run EXCEPT ![r].phase = IF DeployCondition(r) THEN "deploy" ELSE "ended"]
          /\ deployPc' = [deployPc EXCEPT ![r] =
                [s \in Stack |-> IF DeployCondition(r) /\ s \in run[r].stacks THEN "start" ELSE "off"]]
       \/ /\ FaultyBarriers
          /\ run' = [run EXCEPT ![r].phase = "ended"]
          /\ UNCHANGED <<authorizations, deployPc>>
    /\ UNCHANGED <<head, gateVars, approvalVars, deployPlan, tfVars>>

(* --- deploy: one job per stack --------------------------------------------- *)

DeployAt(r, s, pc) == run[r].phase = "deploy" /\ deployPc[r][s] = pc

DeployTo(r, s, pc) == deployPc' = [deployPc EXCEPT ![r][s] = pc]

Authorized(r, s) ==
    /\ authorizations[r][s] # NoRecord
    /\ authorizations[r][s].authorization = "AUTHORIZED"

\* Mutant: the deploy job leaves the registry to the authorization.
MayDeployIfAuthorized(r, s) == Authorized(r, s)

MayDeploy(r, s) == Authorized(r, s) /\ s \in Deployable

\* The authorization of this stack, then the registry: both are checked before
\* any Terraform command runs.
CheckAuthorization(r, s) ==
    /\ DeployAt(r, s, "start")
    /\ DeployTo(r, s, IF MayDeploy(r, s) THEN "verified" ELSE "refused")
    /\ UNCHANGED <<head, run, gateVars, approvalVars, authorizations, deployPlan, tfVars>>

\* A new plan, of the state as it is now, saved; then the destructive check.
DeployPlan(r, s) ==
    /\ DeployAt(r, s, "verified")
    /\ LockFree(s)
    /\ deployPlan' = [deployPlan EXCEPT ![r][s] = [from |-> infra[s], serial |-> serial[s]]]
    /\ DeployTo(r, s, IF Deletions(infra[s], Target(r, s)) = {} THEN "planned" ELSE "destructive")
    /\ UNCHANGED <<head, run, gateVars, approvalVars, authorizations, tfVars>>

ApplyStarts(r, s) ==
    /\ DeployAt(r, s, "planned")
    /\ AcquireForPlan(r, s, deployPlan[r][s].serial)
    /\ DeployTo(r, s, "applying")
    /\ UNCHANGED <<head, run, gateVars, approvalVars, authorizations, deployPlan>>

ApplyFindsStalePlan(r, s) ==
    /\ DeployAt(r, s, "planned")
    /\ StalePlan(s, deployPlan[r][s].serial)
    /\ DeployTo(r, s, "stale")
    /\ UNCHANGED <<head, run, gateVars, approvalVars, authorizations, deployPlan, tfVars>>

ApplyChangesResource(r, s) ==
    /\ DeployAt(r, s, "applying")
    /\ ApplyResource(r, s, Target(r, s))
    /\ UNCHANGED <<head, run, gateVars, approvalVars, deployVars>>

ApplyCompletes(r, s) ==
    /\ DeployAt(r, s, "applying")
    /\ Changes(infra[s], Target(r, s)) = {}
    /\ Release(s)
    /\ DeployTo(r, s, "applied")
    /\ UNCHANGED <<head, run, gateVars, approvalVars, authorizations, deployPlan>>

\* A provider error ends the apply half way; Terraform releases the lock.
ApplyFails(r, s) ==
    /\ s \in Faulty
    /\ DeployAt(r, s, "applying")
    /\ Release(s)
    /\ DeployTo(r, s, "failed")
    /\ UNCHANGED <<head, run, gateVars, approvalVars, authorizations, deployPlan>>

\* The runner is lost, or a step before the apply fails.  An apply that dies
\* with its runner leaves the lock file behind.
DeployJobBroken(r, s) ==
    /\ s \in Faulty
    /\ run[r].phase = "deploy"
    /\ deployPc[r][s] \in {"start", "verified", "planned", "applying"}
    /\ DeployTo(r, s, "failed")
    /\ UNCHANGED <<head, run, gateVars, approvalVars, authorizations, deployPlan, tfVars>>

\* The runner is lost while it plans: nothing is saved, and the lock file stays.
PlanDies(r, s) ==
    /\ s \in Faulty
    /\ DeployAt(r, s, "verified")
    /\ LeaveLock(r, s)
    /\ DeployTo(r, s, "failed")
    /\ UNCHANGED <<head, run, gateVars, approvalVars, authorizations, deployPlan>>

\* Mutant: a locked state is waited for without end.
LockNeverTimesOut(r, s) == FALSE

\* The lock file of another run outlives the five minutes of -lock-timeout.
LockTimesOut(r, s) ==
    /\ run[r].phase = "deploy"
    /\ deployPc[r][s] \in {"verified", "planned"}
    /\ ~LockFree(s)
    /\ DeployTo(r, s, "failed")
    /\ UNCHANGED <<head, run, gateVars, approvalVars, authorizations, deployPlan, tfVars>>

-----------------------------------------------------------------------------
GateStep(r, s) ==
    \/ ReadBaseline(r, s)
    \/ PlanProposed(r, s)
    \/ GateJobBroken(r, s)
    \/ Analyze(r, s)
    \/ AnalyzeErrs(r, s)
    \/ AnalyzeCrashes(r, s)
    \/ Report(r, s)
    \/ VerifyLock(r, s)
    \/ UploadAuthorization(r, s)

ApprovalStep(r, s) ==
    \/ \E choice \in {"approved", "rejected"} : Review(r, s, choice)
    \/ RecordApproval(r, s)
    \/ ApprovalRefused(r, s)

DeployStep(r, s) ==
    \/ CheckAuthorization(r, s)
    \/ DeployPlan(r, s)
    \/ ApplyStarts(r, s)
    \/ ApplyFindsStalePlan(r, s)
    \/ ApplyChangesResource(r, s)
    \/ ApplyCompletes(r, s)
    \/ ApplyFails(r, s)
    \/ DeployJobBroken(r, s)
    \/ PlanDies(r, s)
    \/ LockTimesOut(r, s)

RunStep(r) ==
    \/ CollectBlocked(r)
    \/ AuthorizeDeploy(r)
    \/ \E s \in Stack : GateStep(r, s) \/ ApprovalStep(r, s) \/ DeployStep(r, s)

Trigger(r) ==
    \E b \in Branch :
        \/ \E c \in Commit : Push(r, b, c)
        \/ \E s \in Stack, apply \in BOOLEAN : Dispatch(r, b, s, apply)

\* A run is over: nothing of it is left to do.
Settled(r) ==
    \/ run[r].phase = "ended"
    \/ run[r].phase = "deploy" /\ \A s \in run[r].stacks : deployPc[r][s] \in DeployEnded

Finished == (\A r \in Run : Settled(r)) /\ UNCHANGED vars

Next == (\E r \in Run : Trigger(r) \/ RunStep(r)) \/ Finished

Spec == Init /\ [][Next]_vars

\* What a run does unless something breaks it.
Progress(r) ==
    \/ CollectBlocked(r)
    \/ AuthorizeDeploy(r)
    \/ \E s \in Stack :
        \/ ReadBaseline(r, s) \/ PlanProposed(r, s) \/ Analyze(r, s)
        \/ Report(r, s) \/ VerifyLock(r, s) \/ UploadAuthorization(r, s)
        \/ ApprovalStep(r, s)
        \/ CheckAuthorization(r, s) \/ DeployPlan(r, s)
        \/ ApplyStarts(r, s) \/ ApplyFindsStalePlan(r, s)
        \/ ApplyChangesResource(r, s) \/ ApplyCompletes(r, s) \/ LockTimesOut(r, s)

\* GitHub starts every job whose needs have ended and runs its steps to the end,
\* and closes a review nobody answers; it owes no commit, no dispatch and no fault.
FairSpec == Spec /\ \A r \in Run : WF_vars(Progress(r))

-----------------------------------------------------------------------------
(* --- what the pipeline guarantees ------------------------------------------ *)

\* The workflow implements the governed deployment: between the pricing of a
\* stack and a change of its infrastructure lie two artifact uploads, a review, a
\* merge of records and a plan made later than the one that was priced, with
\* other runs in between, and still no resource changes except for a run that
\* passed or whose FAIL was approved, and none is ever deleted.
Contract == INSTANCE GovernedDeployment WITH
    verdict <- result,
    approved <- [r \in Run |-> [s \in Stack |-> approvalPc[r][s] = "recorded"]]

ImplementsContract == Contract!Spec

\* An approval never rewrites the decision: what reaches the deploy job for a
\* stack that exceeded the threshold still says BLOCK, approved or not.
BlockStaysBlock ==
    \A r \in Run, s \in Stack :
        authorizations[r][s] # NoRecord /\ result[r][s] = "FAIL"
            => authorizations[r][s].decision = "BLOCK"

\* Nothing but an approval that was recorded in this run opens the deploy job to
\* a stack that did not pass: not a rejection, not an ERROR the reviewer was
\* also asked about, not an analyze that died with the exit code of a BLOCK.
OnlyFailIsApproved ==
    \A r \in Run, s \in Stack :
        Authorized(r, s) /\ result[r][s] # "PASS"
            => result[r][s] = "FAIL" /\ approvalPc[r][s] = "recorded"

\* A deployment nobody reviewed adds no more than the threshold to the monthly
\* cost of the stack it finds, unless another run has made that stack cheaper
\* between the pricing of this one and its own plan.
PricedIncreaseIsBounded ==
    \A r \in Run, s \in Stack :
        /\ deployPc[r][s] = "applied"
        /\ result[r][s] = "PASS"
        /\ Cost[deployPlan[r][s].from] >= Cost[baseline[r][s]]
        => Cost[Target(r, s)] <= Cost[deployPlan[r][s].from] + GateThreshold

\* Terraform applies a stack for one run at a time, and only the holder of the
\* state lock is applying.
OneApplyPerStack ==
    \A r \in Run, s \in Stack : deployPc[r][s] = "applying" => tfLock[s] = r

\* Every run comes to an end, however its jobs fail and whatever other runs do.
RunsSettle == \A r \in Run : run[r].phase # "idle" ~> Settled(r)

Deployed(r, s) == deployPc[r][s] \in {"applied", "destructive", "stale"}

\* A stack that passed is deployed (or its plan turns out destructive or stale)
\* whatever becomes of the other stacks of its run: blocked, rejected, or broken
\* at any step.
PassIsDeployed ==
    \A r \in Run, s \in Stack \ Faulty :
        result[r][s] = "PASS" /\ s \in Deployable /\ WantsDeploy(r) ~> Deployed(r, s)

\* The same for a stack whose FAIL the reviewer approved.
ApprovedIsDeployed ==
    \A r \in Run, s \in Stack \ Faulty :
        /\ result[r][s] = "FAIL" /\ approvalPc[r][s] = "approved"
        /\ s \in Deployable /\ WantsDeploy(r)
        ~> Deployed(r, s)

-----------------------------------------------------------------------------
(* --- why it does: the inductive invariant ---------------------------------- *)

\* A gate job has nothing to say before it analyzes, and says PASS only with
\* exit code 0, which only a priced PASS leaves.
GateInv(r, s) ==
    /\ run[r].phase = "idle" => gatePc[r][s] = "off"
    /\ gatePc[r][s] \in {"off", "start", "baselined", "planned"}
          => result[r][s] = "NONE" /\ exitCode[r][s] = -1 /\ gateArtifact[r][s] = NoRecord
    /\ exitCode[r][s] = 0 => result[r][s] = "PASS"
    /\ result[r][s] = "PASS" => Cost[Target(r, s)] <= Cost[baseline[r][s]] + GateThreshold
    /\ gateArtifact[r][s].decision = "PASS" => result[r][s] = "PASS"
    /\ gateArtifact[r][s].authorization = "AUTHORIZED" => result[r][s] = "PASS"

\* The approval job of a run leaves a record exactly when it has been approved
\* and what it approved is a FAIL.
ApprovalInv(r, s) ==
    /\ run[r].phase \in {"idle", "gate"} => approvalPc[r][s] = "off"
    /\ approvalPc[r][s] # "recorded" => approvalArtifact[r][s] = NoRecord
    /\ approvalPc[r][s] = "recorded"
          => result[r][s] = "FAIL" /\ approvalArtifact[r][s] = ApprovalRecord

\* What authorize-deploy hands on is a PASS or a recorded approval of a FAIL, and
\* there is nothing to deploy before it has run.
AuthorizationInv(r, s) ==
    /\ run[r].phase \in {"idle", "gate", "approval"}
          => authorizations[r][s] = NoRecord /\ deployPc[r][s] = "off"
    /\ authorizations[r][s].decision = "PASS" => result[r][s] = "PASS"
    /\ Authorized(r, s) => \/ result[r][s] = "PASS"
                           \/ result[r][s] = "FAIL" /\ approvalPc[r][s] = "recorded"

\* A plan that is still good was made from the state as it is; the state of a
\* stack being applied belongs to one run, and deleting nothing stays deleting
\* nothing with every resource that has been changed.
DeployInv(r, s) ==
    /\ deployPc[r][s] \in {"verified", "planned", "applying"} => MayDeploy(r, s)
    /\ deployPc[r][s] = "planned"
          => /\ deployPlan[r][s].serial <= serial[s]
             /\ Deletions(deployPlan[r][s].from, Target(r, s)) = {}
             /\ deployPlan[r][s].serial = serial[s] => deployPlan[r][s].from = infra[s]
    /\ deployPc[r][s] = "applying"
          => tfLock[s] = r /\ Deletions(infra[s], Target(r, s)) = {}

\* What every reachable state satisfies, strong enough to carry itself from one
\* step to the next.
PipelineInv ==
    \A r \in Run, s \in Stack :
        GateInv(r, s) /\ ApprovalInv(r, s) /\ AuthorizationInv(r, s) /\ DeployInv(r, s)

-----------------------------------------------------------------------------
(* --- what the documentation says and the workflow does not do ------------- *)

\* The workflow "pauses for human approval when the change exceeds the threshold"
\* and deploys "using the plan already produced by this run (never re-planned,
\* never re-priced)": what is applied without a review adds at most the threshold.
UnreviewedIncreaseIsBounded ==
    \A r \in Run, s \in Stack :
        deployPc[r][s] = "applied" /\ result[r][s] = "PASS"
            => Cost[Target(r, s)] <= Cost[deployPlan[r][s].from] + GateThreshold

\* "Any new commit ... invalidates it": an approved deployment of a pull request
\* is a deployment of its newest commit.
ApprovalEndsWithNewCommit ==
    \A r \in Run, s \in Stack :
        /\ deployPc[r][s] = "applying"
        /\ run[r].event = "pull_request"
        /\ approvalPc[r][s] = "recorded"
        => run[r].commit = head[run[r].branch]

\* The lock check "runs on every PASS for a deployable stack" before anything
\* downstream may deploy it.
PassHasVerifiedLock ==
    \A r \in Run, s \in Stack :
        Authorized(r, s) /\ result[r][s] = "PASS" => lockStep[r][s] = "success"

\* FINOPS_THRESHOLD_VALUE is an optional repository variable: setting it moves
\* the threshold, and a stack that passes is authorized.
PassIsAuthorized ==
    \A r \in Run, s \in Stack :
        /\ gateArtifact[r][s] # NoRecord
        /\ result[r][s] = "PASS"
        /\ s \in Deployable
        => gateArtifact[r][s].authorization = "AUTHORIZED"

=============================================================================
