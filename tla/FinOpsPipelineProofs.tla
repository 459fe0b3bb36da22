------------------------ MODULE FinOpsPipelineProofs ------------------------
(***************************************************************************)
(* Machine-checked proofs about FinOpsPipeline, for any set of runs,        *)
(* stacks, commits and resources, any prices and thresholds, and any set of *)
(* faulty stacks.                                                           *)
(***************************************************************************)
EXTENDS FinOpsPipeline, TLAPS

USE DEF PerJob

-----------------------------------------------------------------------------
(* --- types ----------------------------------------------------------------- *)

LEMMA ConfigurationTypes ==
    ASSUME TypeOK, NEW r \in Run, NEW s \in Stack
    PROVE  /\ run[r] \in RunRecord
           /\ Target(r, s) \in Infra
           /\ infra[s] \in Infra
           /\ baseline[r][s] \in Infra
  BY PipelineAssumption DEF TypeOK, TerraformTypeOK, Target, RunRecord

\* Writing one job's entry of a matrix, or one run's row of it, or one run.
LEMMA MatrixUpdate ==
    ASSUME NEW S, NEW f \in PerJob(S), NEW r \in Run
    PROVE  /\ \A s \in Stack, v \in S : [f EXCEPT ![r][s] = v] \in PerJob(S)
           /\ \A row \in [Stack -> S] : [f EXCEPT ![r] = row] \in PerJob(S)
  OBVIOUS

LEMMA PhaseUpdate ==
    ASSUME run \in [Run -> RunRecord], NEW r \in Run,
           NEW phase \in {"idle", "gate", "approval", "deploy", "ended"}
    PROVE  [run EXCEPT ![r].phase = phase] \in [Run -> RunRecord]
  BY DEF RunRecord

\* EvaluateApproval only ever writes records.
LEMMA RecordTypes ==
    /\ ApprovalRecord \in Record
    /\ \A r \in Run, s \in Stack : GateRecord(r, s) \in Record
  BY DEF ApprovalRecord, GateRecord, EvaluateApproval, DecisionLabel, Record,
         Decision, Authorization

LEMMA VerdictType ==
    ASSUME NEW x, NEW y PROVE Verdict(x, y) \in Status
  BY DEF Verdict, Evaluate, Status

\* A PASS adds at most the threshold to what was priced before.
LEMMA PassIsPriced ==
    ASSUME NEW before \in Infra, NEW after \in Infra, Verdict(before, after) = "PASS"
    PROVE  Cost[after] <= Cost[before] + GateThreshold
<1> DEFINE policy == Policy(GateThreshold)
<1> DEFINE observed == Observed(Estimate(before, after), policy.metric)
<1>1. Cost[before] \in Nat /\ Cost[after] \in Nat /\ GateThreshold \in Nat
  BY PipelineAssumption
<1>2. observed = [num |-> Cost[after] - Cost[before], den |-> 1]
  BY DEF Observed, Policy, Estimate, Increment
<1>3. Within(observed, policy)
  BY DEF Verdict, Evaluate
<1> QED
  BY <1>1, <1>2, <1>3 DEF Within, Policy, Infinite

LEMMA InitTypeOK == Init => TypeOK
<1> SUFFICES ASSUME Init PROVE TypeOK
  OBVIOUS
<1> NotStarted \in RunRecord
  BY PipelineAssumption DEF NotStarted, RunRecord, Event
<1> NothingDeployed \in Infra
  BY DEF NothingDeployed, Infra
<1> QED
  BY DEF Init, TypeOK, TerraformTypeOK, SavedPlan, GatePc, ApprovalPc, DeployPc


\* The actions of a gate job change nothing but the variables of gate jobs.
LEMMA GateTypeOK ==
    ASSUME TypeOK, NEW r \in Run, NEW s \in Stack, GateStep(r, s)
    PROVE  TypeOK'
<1> USE DEF TypeOK, TerraformTypeOK, GateAt, GateTo, GatePc, approvalVars, deployVars, tfVars
<1>1. CASE ReadBaseline(r, s)
  BY <1>1, ConfigurationTypes DEF ReadBaseline
<1>2. CASE PlanProposed(r, s)
  BY <1>2, ConfigurationTypes DEF PlanProposed
<1>3. CASE GateJobBroken(r, s)
  BY <1>3 DEF GateJobBroken
<1>4. CASE Analyze(r, s)
  <2> DEFINE status == Verdict(baseline[r][s], Target(r, s))
  <2>1. status \in Status /\ ExitCode(status) \in {0, 1, 2}
    BY VerdictType DEF ExitCode, Status
  <2> QED
    BY <1>4, <2>1 DEF Analyze, AnalyzeLeaves
<1>5. CASE AnalyzeErrs(r, s)
  BY <1>5 DEF AnalyzeErrs, AnalyzeLeaves, ExitCode, Status
<1>6. CASE AnalyzeCrashes(r, s)
  BY <1>6 DEF AnalyzeCrashes, AnalyzeLeaves
<1>7. CASE Report(r, s)
  <2>1. GateTo(r, s, "reported") \/ GateTo(r, s, "unreported")
    BY <1>7 DEF Report
  <2>2. gatePc' \in PerJob(GatePc)
    <3>1. \A pc \in GatePc : [gatePc EXCEPT ![r][s] = pc] \in PerJob(GatePc)
      BY MatrixUpdate
    <3> QED
      BY <2>1, <3>1
  <2> QED
    BY <1>7, <2>2 DEF Report
<1>8. CASE VerifyLock(r, s)
  BY <1>8 DEF VerifyLock
<1>9. CASE UploadAuthorization(r, s)
  <2>1. gateArtifact' \in PerJob(Record \cup {NoRecord})
    <3>1. GateRecord(r, s) \in Record \cup {NoRecord}
      BY RecordTypes
    <3>2. [gateArtifact EXCEPT ![r][s] = GateRecord(r, s)] \in PerJob(Record \cup {NoRecord})
      BY <3>1, MatrixUpdate
    <3> QED
      BY <1>9, <3>2 DEF UploadAuthorization
  <2>2. gatePc' \in PerJob(GatePc)
    BY <1>9 DEF UploadAuthorization
  <2> QED
    BY <1>9, <2>1, <2>2 DEF UploadAuthorization
<1> QED
  BY <1>1, <1>2, <1>3, <1>4, <1>5, <1>6, <1>7, <1>8, <1>9 DEF GateStep

LEMMA ApprovalTypeOK ==
    ASSUME TypeOK, NEW r \in Run, NEW s \in Stack, ApprovalStep(r, s)
    PROVE  TypeOK'
<1> USE DEF TypeOK, TerraformTypeOK, ApprovalPc, gateVars, deployVars, tfVars
<1>1. ASSUME NEW choice \in {"approved", "rejected"}, Review(r, s, choice) PROVE TypeOK'
  BY <1>1 DEF Review
<1>2. CASE RecordApproval(r, s)
  BY <1>2, RecordTypes DEF RecordApproval
<1>3. CASE ApprovalRefused(r, s)
  BY <1>3 DEF ApprovalRefused
<1> QED
  BY <1>1, <1>2, <1>3 DEF ApprovalStep

LEMMA DeployTypeOK ==
    ASSUME TypeOK, NEW r \in Run, NEW s \in Stack, DeployStep(r, s)
    PROVE  TypeOK'
<1> USE DEF TypeOK, TerraformTypeOK, DeployAt, DeployTo, DeployPc,
            gateVars, approvalVars, deployVars, tfVars
<1>1. CASE CheckAuthorization(r, s)
  BY <1>1 DEF CheckAuthorization
<1>2. CASE DeployPlan(r, s)
  BY <1>2 DEF DeployPlan, SavedPlan
<1>3. CASE ApplyStarts(r, s)
  BY <1>3, PipelineAssumption DEF ApplyStarts, AcquireForPlan
<1>4. CASE ApplyFindsStalePlan(r, s)
  BY <1>4 DEF ApplyFindsStalePlan
<1>5. CASE ApplyChangesResource(r, s)
  BY <1>5, ConfigurationTypes DEF ApplyChangesResource, ApplyResource, Changes, Infra
<1>6. CASE ApplyCompletes(r, s)
  BY <1>6 DEF ApplyCompletes, Release
<1>7. CASE ApplyFails(r, s)
  BY <1>7 DEF ApplyFails, Release
<1>8. CASE DeployJobBroken(r, s)
  BY <1>8 DEF DeployJobBroken
<1>9. CASE LockTimesOut(r, s)
  BY <1>9 DEF LockTimesOut
<1>10. CASE PlanDies(r, s)
  BY <1>10, PipelineAssumption DEF PlanDies, LeaveLock
<1> QED
  BY <1>1, <1>2, <1>3, <1>4, <1>5, <1>6, <1>7, <1>8, <1>9, <1>10 DEF DeployStep

\* The barriers between the phases, and the triggers that start a run.
LEMMA BarrierTypeOK ==
    ASSUME TypeOK, NEW r \in Run, CollectBlocked(r) \/ AuthorizeDeploy(r) \/ Trigger(r)
    PROVE  TypeOK'
<1> USE DEF TypeOK, TerraformTypeOK, gateVars, approvalVars, deployVars, tfVars
<1>1. CASE CollectBlocked(r)
  <2>1. approvalPc' \in PerJob(ApprovalPc)
    <3> DEFINE row == [t \in Stack |-> IF t \in Blocked(r) THEN "waiting" ELSE "off"]
    <3>1. row \in [Stack -> ApprovalPc]
      BY DEF ApprovalPc
    <3>2. [approvalPc EXCEPT ![r] = row] \in PerJob(ApprovalPc)
      BY <3>1, MatrixUpdate
    <3> QED
      BY <1>1, <3>2 DEF CollectBlocked
  <2>2. run' \in [Run -> RunRecord]
    BY <1>1, PhaseUpdate DEF CollectBlocked
  <2> QED
    BY <1>1, <2>1, <2>2 DEF CollectBlocked
<1>2. CASE AuthorizeDeploy(r)
  <2>1. Merged(r) \in [Stack -> Record \cup {NoRecord}]
    BY DEF Merged
  <2>2. authorizations' \in PerJob(Record \cup {NoRecord})
    BY <1>2, <2>1 DEF AuthorizeDeploy
  <2>3. deployPc' \in PerJob(DeployPc)
    BY <1>2 DEF AuthorizeDeploy, DeployPc
  <2>4. run' \in [Run -> RunRecord]
    <3>1. /\ [run EXCEPT ![r].phase = "deploy"] \in [Run -> RunRecord]
          /\ [run EXCEPT ![r].phase = "ended"] \in [Run -> RunRecord]
      BY PhaseUpdate
    <3> QED
      BY <1>2, <3>1 DEF AuthorizeDeploy
  <2> QED
    BY <1>2, <2>2, <2>3, <2>4 DEF AuthorizeDeploy
<1>3. ASSUME NEW event \in Event, NEW b \in Branch, NEW c \in Commit,
             NEW stacks \in SUBSET Stack, NEW apply \in BOOLEAN,
             Start(r, event, b, c, stacks, apply), head' \in [Branch -> Commit]
      PROVE  TypeOK'
  BY <1>3 DEF Start, RunRecord, GatePc
<1>4. CASE Trigger(r)
  <2>1. ASSUME NEW b \in Branch, NEW c \in Commit, Push(r, b, c) PROVE TypeOK'
    <3>1. head' \in [Branch -> Commit] /\ Touches[c] \in SUBSET Stack
      BY <2>1, PipelineAssumption DEF Push
    <3> QED
      BY <1>3, <2>1, <3>1 DEF Push, Event
  <2>2. ASSUME NEW b \in Branch, NEW s \in Stack, NEW apply \in BOOLEAN,
               Dispatch(r, b, s, apply)
        PROVE  TypeOK'
    <3> DEFINE stacks == {s}
    <3>1. head' \in [Branch -> Commit] /\ head[b] \in Commit /\ stacks \in SUBSET Stack
      BY <2>2 DEF Dispatch
    <3>2. Start(r, "workflow_dispatch", b, head[b], stacks, apply)
      BY <2>2 DEF Dispatch
    <3> HIDE DEF stacks, TypeOK
    <3> QED
      BY <1>3, <3>1, <3>2 DEF Event
  <2> QED
    BY <1>4, <2>1, <2>2 DEF Trigger
<1> QED
  BY <1>1, <1>2, <1>4

LEMMA NextTypeOK ==
    ASSUME TypeOK, [Next]_vars PROVE TypeOK'
<1>1. CASE UNCHANGED vars
  BY <1>1 DEF vars, gateVars, approvalVars, deployVars, tfVars, TypeOK, TerraformTypeOK
<1>2. ASSUME NEW r \in Run, Trigger(r) \/ RunStep(r) PROVE TypeOK'
  BY <1>2, GateTypeOK, ApprovalTypeOK, DeployTypeOK, BarrierTypeOK DEF RunStep
<1> QED
  BY <1>1, <1>2 DEF Next, Finished

\* Every reachable state of the pipeline has the types its variables claim.
THEOREM TypeCorrect == Spec => []TypeOK
  BY InitTypeOK, NextTypeOK, PTL DEF Spec

-----------------------------------------------------------------------------
(* --- the inductive invariant ----------------------------------------------- *)

LEMMA InitPipelineInv == Init => PipelineInv
<1> SUFFICES ASSUME Init, NEW r \in Run, NEW s \in Stack
             PROVE  GateInv(r, s) /\ ApprovalInv(r, s) /\ AuthorizationInv(r, s) /\ DeployInv(r, s)
  BY DEF PipelineInv
<1>1. /\ run[r].phase = "idle"
      /\ gatePc[r][s] = "off" /\ approvalPc[r][s] = "off" /\ deployPc[r][s] = "off"
      /\ result[r][s] = "NONE" /\ exitCode[r][s] = -1
      /\ gateArtifact[r][s] = NoRecord /\ approvalArtifact[r][s] = NoRecord
      /\ authorizations[r][s] = NoRecord
  BY DEF Init, NotStarted
<1> QED
  BY <1>1 DEF GateInv, ApprovalInv, AuthorizationInv, DeployInv, NoRecord, Authorized

\* A gate job writes its own entries of the gate variables, in the gate phase.
LEMMA GateFrame ==
    ASSUME TypeOK, NEW r \in Run, NEW s \in Stack, GateStep(r, s)
    PROVE  /\ UNCHANGED <<head, run, approvalVars, deployVars, tfVars>>
           /\ run[r].phase = "gate"
           /\ \A q \in Run, t \in Stack : q # r \/ t # s =>
                 UNCHANGED <<gatePc[q][t], baseline[q][t], result[q][t], exitCode[q][t],
                             gateArtifact[q][t]>>
<1> USE DEF TypeOK, GateAt, GateTo
<1>1. CASE ReadBaseline(r, s)
  BY <1>1 DEF ReadBaseline
<1>2. CASE PlanProposed(r, s)
  BY <1>2 DEF PlanProposed
<1>3. CASE GateJobBroken(r, s)
  BY <1>3 DEF GateJobBroken
<1>4. ASSUME NEW status, NEW code, AnalyzeLeaves(r, s, status, code)
      PROVE  /\ UNCHANGED <<head, run, approvalVars, deployVars, tfVars>>
             /\ run[r].phase = "gate"
             /\ \A q \in Run, t \in Stack : q # r \/ t # s =>
                   UNCHANGED <<gatePc[q][t], baseline[q][t], result[q][t], exitCode[q][t],
                               gateArtifact[q][t]>>
  BY <1>4 DEF AnalyzeLeaves
<1>5. CASE Analyze(r, s) \/ AnalyzeErrs(r, s) \/ AnalyzeCrashes(r, s)
  BY <1>4, <1>5 DEF Analyze, AnalyzeErrs, AnalyzeCrashes
<1>6. CASE Report(r, s)
  BY <1>6 DEF Report
<1>7. CASE VerifyLock(r, s)
  BY <1>7 DEF VerifyLock
<1>8. CASE UploadAuthorization(r, s)
  BY <1>8 DEF UploadAuthorization
<1> QED
  BY <1>1, <1>2, <1>3, <1>5, <1>6, <1>7, <1>8 DEF GateStep

\* What the gate jobs establish about themselves.
LEMMA GateStepGateInv ==
    ASSUME TypeOK, PipelineInv, NEW r \in Run, NEW s \in Stack, GateStep(r, s)
    PROVE  GateInv(r, s)'
<1>1. run[r].phase = "gate" /\ UNCHANGED run
  BY GateFrame
<1>2. GateInv(r, s)
  BY DEF PipelineInv
<1>3. Target(r, s)' = Target(r, s)
  BY <1>1 DEF Target
<1> USE DEF TypeOK, GateAt, GateTo
<1>4. CASE ReadBaseline(r, s)
  BY <1>1, <1>2, <1>3, <1>4 DEF ReadBaseline, GateInv
<1>5. CASE PlanProposed(r, s)
  BY <1>1, <1>2, <1>3, <1>5 DEF PlanProposed, GateInv
<1>6. CASE GateJobBroken(r, s)
  BY <1>1, <1>2, <1>3, <1>6 DEF GateJobBroken, GateInv
<1>7. ASSUME NEW status \in Status \cup {"NONE"}, NEW code \in Int,
             AnalyzeLeaves(r, s, status, code),
             code = 0 => status = "PASS",
             status = "PASS" => Cost[Target(r, s)] <= Cost[baseline[r][s]] + GateThreshold
      PROVE  GateInv(r, s)'
  BY <1>1, <1>2, <1>3, <1>7 DEF AnalyzeLeaves, GateInv, NoRecord
<1>8. CASE Analyze(r, s)
  <2> DEFINE status == Verdict(baseline[r][s], Target(r, s))
  <2>1. status \in Status
    BY VerdictType
  <2>2. ExitCode(status) \in Int /\ (ExitCode(status) = 0 => status = "PASS")
    BY <2>1 DEF ExitCode, Status
  <2>3. status = "PASS" => Cost[Target(r, s)] <= Cost[baseline[r][s]] + GateThreshold
    BY PassIsPriced, ConfigurationTypes
  <2> QED
    BY <1>7, <1>8, <2>1, <2>2, <2>3 DEF Analyze
<1>9. CASE AnalyzeErrs(r, s)
  <2> DEFINE status == "ERROR"
  <2> DEFINE code == ExitCode(status)
  <2>1. AnalyzeLeaves(r, s, status, code)
    BY <1>9 DEF AnalyzeErrs
  <2>2. status \in Status /\ status # "PASS" /\ code \in Int /\ code # 0
    BY DEF ExitCode, Status
  <2> HIDE DEF status, code
  <2> QED
    BY <1>7, <2>1, <2>2
<1>10. CASE AnalyzeCrashes(r, s)
  <2> DEFINE status == "NONE"
  <2> DEFINE code == 1
  <2>1. AnalyzeLeaves(r, s, status, code)
    BY <1>10 DEF AnalyzeCrashes
  <2>2. status \in {"NONE"} /\ status # "PASS" /\ code \in Int /\ code # 0
    OBVIOUS
  <2> HIDE DEF status, code
  <2> QED
    BY <1>7, <2>1, <2>2
<1>11. CASE Report(r, s)
  BY <1>1, <1>2, <1>3, <1>11 DEF Report, GateInv
<1>12. CASE VerifyLock(r, s)
  BY <1>1, <1>2, <1>3, <1>12 DEF VerifyLock, GateInv
<1>13. CASE UploadAuthorization(r, s)
  <2>1. GateRecord(r, s).decision = "PASS" => exitCode[r][s] = 0
    BY DEF GateRecord, EvaluateApproval, DecisionLabel
  <2>2. GateRecord(r, s).authorization = "AUTHORIZED" => exitCode[r][s] = 0
    BY DEF GateRecord, EvaluateApproval
  <2> QED
    BY <1>1, <1>2, <1>3, <1>13, <2>1, <2>2 DEF UploadAuthorization, GateInv
<1> QED
  BY <1>4, <1>5, <1>6, <1>8, <1>9, <1>10, <1>11, <1>12, <1>13 DEF GateStep

LEMMA GateStepPipelineInv ==
    ASSUME TypeOK, PipelineInv, NEW r \in Run, NEW s \in Stack, GateStep(r, s)
    PROVE  PipelineInv'
<1> SUFFICES ASSUME NEW q \in Run, NEW t \in Stack
             PROVE  (GateInv(q, t) /\ ApprovalInv(q, t) /\ AuthorizationInv(q, t) /\ DeployInv(q, t))'
  BY DEF PipelineInv
<1>1. /\ UNCHANGED <<run, approvalVars, deployVars, tfVars>>
      /\ run[r].phase = "gate"
      /\ q # r \/ t # s => UNCHANGED <<gatePc[q][t], baseline[q][t], result[q][t],
                                       exitCode[q][t], gateArtifact[q][t]>>
  BY GateFrame
<1>2. GateInv(q, t) /\ ApprovalInv(q, t) /\ AuthorizationInv(q, t) /\ DeployInv(q, t)
  BY DEF PipelineInv
<1>3. Target(q, t)' = Target(q, t)
  BY <1>1 DEF Target
<1>4. GateInv(q, t)'
  <2>1. CASE q = r /\ t = s
    BY <2>1, GateStepGateInv
  <2>2. CASE q # r \/ t # s
    BY <1>1, <1>2, <1>3, <2>2 DEF GateInv
  <2> QED
    BY <2>1, <2>2
<1>5. ApprovalInv(q, t)'
  BY <1>1, <1>2 DEF ApprovalInv, approvalVars
<1>6. AuthorizationInv(q, t)' /\ DeployInv(q, t)'
  <2>1. UNCHANGED <<authorizations, deployPc, deployPlan, approvalPc, infra, serial, tfLock>>
    BY <1>1 DEF approvalVars, deployVars, tfVars
  <2>2. (MayDeploy(q, t) <=> MayDeploy(q, t)') /\ (Authorized(q, t) <=> Authorized(q, t)')
    BY <2>1 DEF MayDeploy, Authorized
  <2>3. AuthorizationInv(q, t)'
    BY <1>1, <1>2, <2>1, <2>2 DEF AuthorizationInv, NoRecord, Authorized
  <2>4. DeployInv(q, t)'
    BY <1>2, <1>3, <2>1, <2>2 DEF DeployInv
  <2> QED
    BY <2>3, <2>4
<1> QED
  BY <1>4, <1>5, <1>6

\* The same for the approval jobs, which leave everything but their own entries
\* alone, in the approval phase.
LEMMA ApprovalStepPipelineInv ==
    ASSUME TypeOK, PipelineInv, NEW r \in Run, NEW s \in Stack, ApprovalStep(r, s)
    PROVE  PipelineInv'
<1> SUFFICES ASSUME NEW q \in Run, NEW t \in Stack
             PROVE  (GateInv(q, t) /\ ApprovalInv(q, t) /\ AuthorizationInv(q, t) /\ DeployInv(q, t))'
  BY DEF PipelineInv
<1>1. /\ UNCHANGED <<run, gateVars, deployVars, tfVars>>
      /\ run[r].phase = "approval"
      /\ approvalPc[r][s] \in {"waiting", "approved"}
  BY DEF ApprovalStep, Review, RecordApproval, ApprovalRefused
<1>2. /\ GateInv(q, t) /\ ApprovalInv(q, t) /\ AuthorizationInv(q, t) /\ DeployInv(q, t)
      /\ AuthorizationInv(r, s) /\ ApprovalInv(r, s)
  BY DEF PipelineInv
<1>3. Target(q, t)' = Target(q, t)
  BY <1>1 DEF Target
<1>4. UNCHANGED <<gatePc, baseline, result, exitCode, gateArtifact, authorizations, deployPc,
                  deployPlan, infra, serial, tfLock>>
  BY <1>1 DEF gateVars, deployVars, tfVars
<1>5. GateInv(q, t)'
  BY <1>1, <1>2, <1>3, <1>4 DEF GateInv
<1>6. ApprovalInv(q, t)'
  <2> USE DEF TypeOK
  <2>1. ASSUME NEW choice \in {"approved", "rejected"}, Review(r, s, choice)
        PROVE  ApprovalInv(q, t)'
    BY <1>1, <1>2, <1>4, <2>1 DEF Review, ApprovalInv
  <2>2. CASE RecordApproval(r, s)
    BY <1>1, <1>2, <1>4, <2>2 DEF RecordApproval, Approvable, ApprovalInv
  <2>3. CASE ApprovalRefused(r, s)
    BY <1>1, <1>2, <1>4, <2>3 DEF ApprovalRefused, ApprovalInv
  <2> QED
    BY <2>1, <2>2, <2>3 DEF ApprovalStep
<1>7. (MayDeploy(q, t) <=> MayDeploy(q, t)') /\ (Authorized(q, t) <=> Authorized(q, t)')
  BY <1>4 DEF MayDeploy, Authorized
<1>8. AuthorizationInv(q, t)'
  <2>1. CASE Authorized(q, t)
    <3>1. run[q].phase \notin {"idle", "gate", "approval"}
      BY <1>2, <2>1 DEF AuthorizationInv, Authorized
    <3>2. approvalPc'[q] = approvalPc[q]
      BY <1>1, <3>1 DEF ApprovalStep, Review, RecordApproval, ApprovalRefused, TypeOK
    <3> QED
      BY <1>1, <1>2, <1>4, <1>7, <3>2 DEF AuthorizationInv
  <2>2. CASE ~Authorized(q, t)
    BY <1>1, <1>2, <1>4, <1>7, <2>2 DEF AuthorizationInv
  <2> QED
    BY <2>1, <2>2
<1>9. DeployInv(q, t)'
  BY <1>2, <1>3, <1>4, <1>7 DEF DeployInv
<1> QED
  BY <1>5, <1>6, <1>8, <1>9

\* A deploy job writes its own entries of the deploy variables and the state of
\* its stack, in the deploy phase; nobody else applies that stack while it does.
LEMMA DeployFrame ==
    ASSUME TypeOK, NEW r \in Run, NEW s \in Stack, DeployStep(r, s)
    PROVE  /\ UNCHANGED <<run, gateVars, approvalVars, authorizations>>
           /\ run[r].phase = "deploy"
           /\ \A q \in Run, t \in Stack : q # r \/ t # s =>
                 UNCHANGED <<deployPc[q][t], deployPlan[q][t]>>
           /\ \A t \in Stack : t # s => UNCHANGED <<infra[t], serial[t], tfLock[t]>>
<1> USE DEF TypeOK, TerraformTypeOK, DeployAt, DeployTo, deployVars, tfVars
<1>1. CASE CheckAuthorization(r, s)
  BY <1>1 DEF CheckAuthorization
<1>2. CASE DeployPlan(r, s)
  BY <1>2 DEF DeployPlan
<1>3. CASE ApplyStarts(r, s)
  BY <1>3 DEF ApplyStarts, AcquireForPlan
<1>4. CASE ApplyFindsStalePlan(r, s)
  BY <1>4 DEF ApplyFindsStalePlan
<1>5. CASE ApplyChangesResource(r, s)
  BY <1>5 DEF ApplyChangesResource, ApplyResource
<1>6. CASE ApplyCompletes(r, s)
  BY <1>6 DEF ApplyCompletes, Release
<1>7. CASE ApplyFails(r, s)
  BY <1>7 DEF ApplyFails, Release
<1>8. CASE DeployJobBroken(r, s)
  BY <1>8 DEF DeployJobBroken
<1>9. CASE LockTimesOut(r, s)
  BY <1>9 DEF LockTimesOut
<1>10. CASE PlanDies(r, s)
  BY <1>10 DEF PlanDies, LeaveLock
<1> QED
  BY <1>1, <1>2, <1>3, <1>4, <1>5, <1>6, <1>7, <1>8, <1>9, <1>10 DEF DeployStep

\* What a resource change keeps: a target that deletes nothing still deletes
\* nothing, and every plan of that stack made so far is stale.
LEMMA ApplyResourceDeletesNothing ==
    ASSUME TypeOK, NEW r \in Run, NEW s \in Stack, ApplyResource(r, s, Target(r, s)),
           Deletions(infra[s], Target(r, s)) = {}
    PROVE  /\ Deletions(infra'[s], Target(r, s)) = {}
           /\ serial'[s] = serial[s] + 1
<1>1. PICK a \in Address :
         infra' = [infra EXCEPT ![s] = [infra[s] EXCEPT ![a] = Target(r, s)[a]]]
  BY DEF ApplyResource, Changes
<1>2. infra[s] \in [Address -> Attr \cup {Absent}]
  BY ConfigurationTypes DEF Infra
<1>3. infra'[s] = [infra[s] EXCEPT ![a] = Target(r, s)[a]]
  BY <1>1 DEF TypeOK, TerraformTypeOK
<1>4. \A b \in Address : infra'[s][b] = IF b = a THEN Target(r, s)[a] ELSE infra[s][b]
  BY <1>2, <1>3
<1>5. serial'[s] = serial[s] + 1
  BY DEF ApplyResource, TypeOK, TerraformTypeOK
<1> QED
  BY <1>4, <1>5 DEF Deletions

LEMMA DeployStepDeployInv ==
    ASSUME TypeOK, PipelineInv, NEW r \in Run, NEW s \in Stack, DeployStep(r, s),
           NEW q \in Run, NEW t \in Stack
    PROVE  DeployInv(q, t)'
<1>1. /\ UNCHANGED <<run, gateVars, approvalVars, authorizations>>
      /\ q # r \/ t # s => UNCHANGED <<deployPc[q][t], deployPlan[q][t]>>
      /\ t # s => UNCHANGED <<infra[t], serial[t], tfLock[t]>>
  BY DeployFrame
<1>2. DeployInv(q, t) /\ DeployInv(r, s)
  BY DEF PipelineInv
<1>3. /\ Target(q, t)' = Target(q, t)
      /\ MayDeploy(q, t)' <=> MayDeploy(q, t)
  BY <1>1 DEF Target, MayDeploy, Authorized
<1>4. CASE t # s
  BY <1>1, <1>2, <1>3, <1>4 DEF DeployInv
<1>5. CASE t = s /\ q = r
  <2> USE <1>5 DEF TypeOK, TerraformTypeOK, DeployAt, DeployTo, DeployInv, tfVars, deployVars
  <2>1. CASE CheckAuthorization(r, s)
    BY <1>2, <1>3, <2>1 DEF CheckAuthorization
  <2>2. CASE DeployPlan(r, s)
    BY <1>2, <1>3, <2>2 DEF DeployPlan
  <2>3. CASE ApplyStarts(r, s)
    BY <1>2, <1>3, <2>3 DEF ApplyStarts, AcquireForPlan
  <2>4. CASE ApplyFindsStalePlan(r, s)
    BY <1>2, <1>3, <2>4 DEF ApplyFindsStalePlan
  <2>5. CASE ApplyChangesResource(r, s)
    BY <1>2, <1>3, <2>5, ApplyResourceDeletesNothing DEF ApplyChangesResource, ApplyResource
  <2>6. CASE ApplyCompletes(r, s)
    BY <1>2, <1>3, <2>6 DEF ApplyCompletes, Release
  <2>7. CASE ApplyFails(r, s)
    BY <1>2, <1>3, <2>7 DEF ApplyFails, Release
  <2>8. CASE DeployJobBroken(r, s)
    BY <1>2, <1>3, <2>8 DEF DeployJobBroken
  <2>9. CASE LockTimesOut(r, s)
    BY <1>2, <1>3, <2>9 DEF LockTimesOut
  <2>10. CASE PlanDies(r, s)
    BY <1>2, <1>3, <2>10 DEF PlanDies, LeaveLock
  <2> QED
    BY <2>1, <2>2, <2>3, <2>4, <2>5, <2>6, <2>7, <2>8, <2>9, <2>10 DEF DeployStep
<1>6. CASE t = s /\ q # r
  <2>1. UNCHANGED <<deployPc[q][s], deployPlan[q][s]>>
    BY <1>1, <1>6
  <2> USE <1>6 DEF DeployInv
  <2>2. CASE UNCHANGED <<infra, serial, tfLock>>
    BY <1>2, <1>3, <2>1, <2>2
  <2>3. CASE ApplyStarts(r, s)
    <3>1. deployPc[q][s] # "applying"
      BY <1>2, <2>3, TerraformAssumption, PipelineAssumption DEF ApplyStarts, AcquireForPlan, LockFree
    <3> QED
      BY <1>2, <1>3, <2>1, <2>3, <3>1 DEF ApplyStarts, AcquireForPlan
  <2>4. CASE deployPc[r][s] = "applying" /\ UNCHANGED <<infra, serial>>
    BY <1>2, <1>3, <2>1, <2>4
  <2>5. CASE ApplyChangesResource(r, s)
    <3>1. deployPc[r][s] = "applying" /\ deployPc[q][s] # "applying"
      BY <1>2, <2>5 DEF ApplyChangesResource, DeployAt
    <3>2. serial'[s] = serial[s] + 1
      BY <2>5 DEF ApplyChangesResource, ApplyResource, TypeOK, TerraformTypeOK
    <3>3. serial[s] \in Nat /\ deployPlan[q][s].serial \in Nat
      BY DEF TypeOK, TerraformTypeOK, SavedPlan
    <3> QED
      BY <1>2, <1>3, <2>1, <3>1, <3>2, <3>3
  <2>6. CASE PlanDies(r, s)
    <3>1. deployPc[q][s] # "applying"
      BY <1>2, <2>6, TerraformAssumption, PipelineAssumption DEF PlanDies, LeaveLock, LockFree
    <3> QED
      BY <1>2, <1>3, <2>1, <2>6, <3>1 DEF PlanDies, LeaveLock
  <2> QED
    BY <2>2, <2>3, <2>4, <2>5, <2>6 DEF DeployStep, CheckAuthorization, DeployPlan, ApplyFindsStalePlan,
       ApplyCompletes, ApplyFails, DeployJobBroken, LockTimesOut, Release, DeployAt, tfVars
<1> QED
  BY <1>4, <1>5, <1>6

LEMMA DeployStepPipelineInv ==
    ASSUME TypeOK, PipelineInv, NEW r \in Run, NEW s \in Stack, DeployStep(r, s)
    PROVE  PipelineInv'
<1> SUFFICES ASSUME NEW q \in Run, NEW t \in Stack
             PROVE  (GateInv(q, t) /\ ApprovalInv(q, t) /\ AuthorizationInv(q, t) /\ DeployInv(q, t))'
  BY DEF PipelineInv
<1>1. /\ UNCHANGED <<run, gateVars, approvalVars, authorizations>>
      /\ run[r].phase = "deploy"
      /\ q # r => UNCHANGED deployPc[q][t]
  BY DeployFrame
<1>2. GateInv(q, t) /\ ApprovalInv(q, t) /\ AuthorizationInv(q, t)
  BY DEF PipelineInv
<1>3. Target(q, t)' = Target(q, t) /\ (Authorized(q, t)' <=> Authorized(q, t))
  BY <1>1 DEF Target, Authorized
<1> USE DEF gateVars, approvalVars
<1>4. GateInv(q, t)'
  BY <1>1, <1>2, <1>3 DEF GateInv
<1>5. ApprovalInv(q, t)'
  BY <1>1, <1>2 DEF ApprovalInv
<1>6. AuthorizationInv(q, t)'
  BY <1>1, <1>2, <1>3 DEF AuthorizationInv
<1> QED
  BY <1>4, <1>5, <1>6, DeployStepDeployInv

\* collect-blocked-stacks opens the approval jobs of a run that has none.
LEMMA CollectBlockedPipelineInv ==
    ASSUME TypeOK, PipelineInv, NEW r \in Run, CollectBlocked(r)
    PROVE  PipelineInv'
<1> SUFFICES ASSUME NEW q \in Run, NEW t \in Stack
             PROVE  (GateInv(q, t) /\ ApprovalInv(q, t) /\ AuthorizationInv(q, t) /\ DeployInv(q, t))'
  BY DEF PipelineInv
<1>1. /\ UNCHANGED <<gateVars, approvalArtifact, deployVars, tfVars>>
      /\ run[r].phase = "gate"
      /\ run' = [run EXCEPT ![r].phase = "approval"]
  BY DEF CollectBlocked
<1>2. GateInv(q, t) /\ ApprovalInv(q, t) /\ AuthorizationInv(q, t) /\ DeployInv(q, t)
  BY DEF PipelineInv
<1>3. /\ run'[q].commit = run[q].commit
      /\ q # r => run'[q] = run[q]
      /\ run'[r].phase = "approval"
  BY <1>1 DEF TypeOK, RunRecord
<1>4. approvalPc'[q][t] = approvalPc[q][t] \/ (q = r /\ approvalPc'[q][t] \in {"waiting", "off"})
  <2> DEFINE row == [u \in Stack |-> IF u \in Blocked(r) THEN "waiting" ELSE "off"]
  <2>1. row[t] \in {"waiting", "off"}
    OBVIOUS
  <2>2. approvalPc' = [approvalPc EXCEPT ![r] = row] \/ approvalPc' = approvalPc
    BY DEF CollectBlocked
  <2> HIDE DEF row
  <2> QED
    BY <2>1, <2>2 DEF TypeOK
<1>5. Target(q, t)' = Target(q, t)
  BY <1>3 DEF Target
<1>6. /\ MayDeploy(q, t)' <=> MayDeploy(q, t)
      /\ Authorized(q, t)' <=> Authorized(q, t)
  BY <1>1 DEF MayDeploy, Authorized, deployVars
<1> USE DEF gateVars, deployVars, tfVars
<1>7. GateInv(q, t)'
  BY <1>1, <1>2, <1>3, <1>5 DEF GateInv
<1>8. ApprovalInv(q, t)'
  BY <1>1, <1>2, <1>3, <1>4 DEF ApprovalInv
<1>9. AuthorizationInv(q, t)'
  <2>1. CASE q = r
    BY <1>1, <1>2, <1>3, <1>6, <2>1 DEF AuthorizationInv, NoRecord, Authorized
  <2>2. CASE q # r
    BY <1>1, <1>2, <1>3, <1>4, <1>6, <2>2 DEF AuthorizationInv
  <2> QED
    BY <2>1, <2>2
<1>10. DeployInv(q, t)'
  BY <1>1, <1>2, <1>5, <1>6 DEF DeployInv
<1> QED
  BY <1>7, <1>8, <1>9, <1>10

\* authorize-deploy hands on the record of a recorded approval or of the gate.
LEMMA AuthorizeDeployPipelineInv ==
    ASSUME TypeOK, PipelineInv, NEW r \in Run, AuthorizeDeploy(r)
    PROVE  PipelineInv'
<1> SUFFICES ASSUME NEW q \in Run, NEW t \in Stack
             PROVE  (GateInv(q, t) /\ ApprovalInv(q, t) /\ AuthorizationInv(q, t) /\ DeployInv(q, t))'
  BY DEF PipelineInv
<1>1. /\ UNCHANGED <<gateVars, approvalVars, deployPlan, tfVars>>
      /\ run[r].phase = "approval"
  BY DEF AuthorizeDeploy
<1>2. GateInv(q, t) /\ ApprovalInv(q, t) /\ AuthorizationInv(q, t) /\ DeployInv(q, t)
  BY DEF PipelineInv
<1>3. /\ run'[q].commit = run[q].commit
      /\ q # r => run'[q] = run[q]
      /\ run'[r].phase \in {"deploy", "ended"}
  BY DEF AuthorizeDeploy, TypeOK, RunRecord
<1>4. \/ UNCHANGED <<authorizations[q][t], deployPc[q][t]>>
      \/ /\ q = r
         /\ authorizations'[q][t] = Merged(r)[t]
         /\ deployPc'[q][t] \in {"start", "off"}
  <2> DEFINE row == [u \in Stack |-> IF DeployCondition(r) /\ u \in run[r].stacks THEN "start" ELSE "off"]
  <2>1. row[t] \in {"start", "off"}
    OBVIOUS
  <2>2. \/ /\ authorizations' = [authorizations EXCEPT ![r] = Merged(r)]
           /\ deployPc' = [deployPc EXCEPT ![r] = row]
        \/ UNCHANGED <<authorizations, deployPc>>
    BY DEF AuthorizeDeploy
  <2> HIDE DEF row
  <2> QED
    BY <2>1, <2>2 DEF TypeOK
<1>5. Target(q, t)' = Target(q, t)
  BY <1>3 DEF Target
<1> USE DEF gateVars, approvalVars, tfVars
<1>6. GateInv(q, t)'
  BY <1>1, <1>2, <1>3, <1>5 DEF GateInv
<1>7. ApprovalInv(q, t)'
  BY <1>1, <1>2, <1>3 DEF ApprovalInv
<1>8. ASSUME authorizations'[q][t] = Merged(r)[t], q = r
      PROVE  /\ authorizations'[q][t].decision = "PASS" => result[q][t] = "PASS"
             /\ Authorized(q, t)' => \/ result[q][t] = "PASS"
                                     \/ result[q][t] = "FAIL" /\ approvalPc[q][t] = "recorded"
  <2>1. CASE approvalArtifact[r][t] # NoRecord
    <3>1. /\ authorizations'[q][t] = ApprovalRecord
          /\ result[q][t] = "FAIL" /\ approvalPc[q][t] = "recorded"
      BY <1>2, <1>8, <2>1 DEF Merged, ApprovalInv
    <3>2. ApprovalRecord.decision = "BLOCK"
      BY DEF ApprovalRecord, EvaluateApproval, DecisionLabel
    <3> QED
      BY <3>1, <3>2
  <2>2. CASE approvalArtifact[r][t] = NoRecord
    <3>1. authorizations'[q][t] = gateArtifact[q][t]
      BY <1>8, <2>2 DEF Merged
    <3> QED
      BY <1>2, <3>1 DEF GateInv, Authorized
  <2> QED
    BY <2>1, <2>2
<1>9. AuthorizationInv(q, t)'
  <2>1. CASE UNCHANGED <<authorizations[q][t], deployPc[q][t]>>
    BY <1>1, <1>2, <1>3, <2>1 DEF AuthorizationInv, Authorized
  <2>2. CASE q = r /\ authorizations'[q][t] = Merged(r)[t]
    BY <1>1, <1>3, <1>8, <2>2 DEF AuthorizationInv
  <2> QED
    BY <1>4, <2>1, <2>2
<1>10. DeployInv(q, t)'
  <2>1. CASE UNCHANGED <<authorizations[q][t], deployPc[q][t]>>
    BY <1>1, <1>2, <1>5, <2>1 DEF DeployInv, MayDeploy, Authorized
  <2>2. CASE deployPc'[q][t] \in {"start", "off"}
    BY <2>2 DEF DeployInv
  <2> QED
    BY <1>4, <2>1, <2>2
<1> QED
  BY <1>6, <1>7, <1>9, <1>10

\* A run that starts has done nothing yet.
LEMMA TriggerPipelineInv ==
    ASSUME TypeOK, PipelineInv, NEW r \in Run, Trigger(r)
    PROVE  PipelineInv'
<1>1. PICK event, b, c, stacks, apply : Start(r, event, b, c, stacks, apply)
  BY DEF Trigger, Push, Dispatch
<1> SUFFICES ASSUME NEW q \in Run, NEW t \in Stack
             PROVE  (GateInv(q, t) /\ ApprovalInv(q, t) /\ AuthorizationInv(q, t) /\ DeployInv(q, t))'
  BY DEF PipelineInv
<1>2. GateInv(q, t) /\ ApprovalInv(q, t) /\ AuthorizationInv(q, t) /\ DeployInv(q, t)
  BY DEF PipelineInv
<1>3. /\ UNCHANGED <<baseline, result, exitCode, gateArtifact, approvalVars, deployVars, tfVars>>
      /\ run[r].phase = "idle" /\ run'[r].phase = "gate"
      /\ q # r => run'[q] = run[q] /\ gatePc'[q] = gatePc[q]
      /\ gatePc'[r][t] \in {"start", "off"}
  BY <1>1 DEF Start, TypeOK
<1> USE DEF approvalVars, deployVars, tfVars
<1>4. CASE q = r
  <2>1. /\ result[q][t] = "NONE" /\ exitCode[q][t] = -1 /\ gateArtifact[q][t] = NoRecord
        /\ approvalPc[q][t] = "off" /\ approvalArtifact[q][t] = NoRecord
        /\ deployPc[q][t] = "off" /\ authorizations[q][t] = NoRecord
    BY <1>2, <1>3, <1>4 DEF GateInv, ApprovalInv, AuthorizationInv
  <2>2. /\ result'[q][t] = "NONE" /\ exitCode'[q][t] = -1 /\ gateArtifact'[q][t] = NoRecord
        /\ approvalPc'[q][t] = "off" /\ approvalArtifact'[q][t] = NoRecord
        /\ deployPc'[q][t] = "off" /\ authorizations'[q][t] = NoRecord
    BY <1>3, <2>1
  <2>3. GateInv(q, t)' /\ ApprovalInv(q, t)'
    BY <1>3, <1>4, <2>2 DEF GateInv, ApprovalInv, NoRecord
  <2>4. AuthorizationInv(q, t)' /\ DeployInv(q, t)'
    BY <2>2 DEF AuthorizationInv, DeployInv, NoRecord, Authorized
  <2> QED
    BY <2>3, <2>4
<1>5. CASE q # r
  <2>1. Target(q, t)' = Target(q, t)
    BY <1>3, <1>5 DEF Target
  <2>2. GateInv(q, t)' /\ ApprovalInv(q, t)'
    BY <1>2, <1>3, <1>5, <2>1 DEF GateInv, ApprovalInv
  <2>3. AuthorizationInv(q, t)' /\ DeployInv(q, t)'
    BY <1>2, <1>3, <1>5, <2>1 DEF AuthorizationInv, DeployInv, MayDeploy, Authorized
  <2> QED
    BY <2>2, <2>3
<1> QED
  BY <1>4, <1>5

LEMMA NextPipelineInv ==
    ASSUME TypeOK, PipelineInv, [Next]_vars PROVE PipelineInv'
<1>1. CASE UNCHANGED vars
  <2> SUFFICES ASSUME NEW q \in Run, NEW t \in Stack
               PROVE  (GateInv(q, t) /\ ApprovalInv(q, t) /\ AuthorizationInv(q, t) /\ DeployInv(q, t))'
    BY DEF PipelineInv
  <2>1. GateInv(q, t) /\ ApprovalInv(q, t) /\ AuthorizationInv(q, t) /\ DeployInv(q, t)
    BY DEF PipelineInv
  <2> USE <1>1 DEF vars, gateVars, approvalVars, deployVars, tfVars, Target
  <2>2. GateInv(q, t)' /\ ApprovalInv(q, t)'
    BY <2>1 DEF GateInv, ApprovalInv
  <2>3. AuthorizationInv(q, t)'
    BY <2>1 DEF AuthorizationInv, Authorized
  <2>4. DeployInv(q, t)'
    BY <2>1 DEF DeployInv, MayDeploy, Authorized
  <2> QED
    BY <2>2, <2>3, <2>4
<1>2. ASSUME NEW r \in Run, Trigger(r) \/ RunStep(r) PROVE PipelineInv'
  BY <1>2, TriggerPipelineInv, CollectBlockedPipelineInv, AuthorizeDeployPipelineInv,
     GateStepPipelineInv, ApprovalStepPipelineInv, DeployStepPipelineInv DEF RunStep
<1> QED
  BY <1>1, <1>2 DEF Next, Finished

\* The invariant on which everything below rests holds in every reachable state.
THEOREM PipelineInvariant == Spec => [](TypeOK /\ PipelineInv)
<1>1. Init => TypeOK /\ PipelineInv
  BY InitTypeOK, InitPipelineInv
<1>2. TypeOK /\ PipelineInv /\ [Next]_vars => (TypeOK /\ PipelineInv)'
  BY NextTypeOK, NextPipelineInv
<1> QED
  BY <1>1, <1>2, PTL DEF Spec

-----------------------------------------------------------------------------
(* --- safety ------------------------------------------------------------------ *)

\* A record that reaches the deploy job for a stack that exceeded the threshold
\* says BLOCK, approved or not.
THEOREM DecisionsAreKept == Spec => []BlockStaysBlock
<1>1. TypeOK /\ PipelineInv => BlockStaysBlock
  BY DEF TypeOK, PipelineInv, AuthorizationInv, BlockStaysBlock, Record, Decision
<1> QED
  BY <1>1, PipelineInvariant, PTL

\* Only a FAIL whose approval was recorded is deployed without a PASS, for any
\* number of runs, stacks and reviews, and any faults of the jobs.
THEOREM ApprovalsAreOfFails == Spec => []OnlyFailIsApproved
<1>1. PipelineInv => OnlyFailIsApproved
  BY DEF PipelineInv, AuthorizationInv, OnlyFailIsApproved
<1> QED
  BY <1>1, PipelineInvariant, PTL

\* Two runs never apply one stack at once.
THEOREM AppliesExcludeEachOther == Spec => []OneApplyPerStack
<1>1. PipelineInv => OneApplyPerStack
  BY DEF PipelineInv, DeployInv, OneApplyPerStack
<1> QED
  BY <1>1, PipelineInvariant, PTL

\* A deployment nobody reviewed adds at most the threshold to a stack that has not
\* been made cheaper since it was priced, at any prices.
THEOREM IncreasesAreBounded == Spec => []PricedIncreaseIsBounded
<1>1. TypeOK /\ PipelineInv => PricedIncreaseIsBounded
  <2> SUFFICES ASSUME TypeOK, PipelineInv, NEW r \in Run, NEW s \in Stack,
                      result[r][s] = "PASS",
                      Cost[deployPlan[r][s].from] >= Cost[baseline[r][s]]
               PROVE  Cost[Target(r, s)] <= Cost[deployPlan[r][s].from] + GateThreshold
    BY DEF PricedIncreaseIsBounded
  <2>1. Cost[Target(r, s)] <= Cost[baseline[r][s]] + GateThreshold
    BY DEF PipelineInv, GateInv
  <2>2. deployPlan[r][s].from \in Infra
    BY DEF TypeOK, SavedPlan
  <2>3. /\ Cost[Target(r, s)] \in Nat
        /\ Cost[baseline[r][s]] \in Nat
        /\ Cost[deployPlan[r][s].from] \in Nat
        /\ GateThreshold \in Nat
    BY <2>2, ConfigurationTypes, PipelineAssumption
  <2> QED
    BY <2>1, <2>3
<1> QED
  BY <1>1, PipelineInvariant, PTL

-----------------------------------------------------------------------------
(* --- the workflow implements the governed deployment ------------------------ *)

LEMMA ContractInit == Init => Contract!Init
<1> SUFFICES ASSUME Init PROVE Contract!Init
  OBVIOUS
<1>1. \A r \in Run, s \in Stack : (approvalPc[r][s] = "recorded") = FALSE
  BY DEF Init
<1>2. [r \in Run |-> [s \in Stack |-> approvalPc[r][s] = "recorded"]]
         = [r \in Run |-> [s \in Stack |-> FALSE]]
  BY <1>1, Zenon
<1> QED
  BY <1>2 DEF Init, Contract!Init, Infra

\* A gate job's only visible step is its verdict, and it reaches one at most.
LEMMA GateImplements ==
    ASSUME TypeOK, PipelineInv, NEW r \in Run, NEW s \in Stack, GateStep(r, s)
    PROVE  [Contract!Next]_(Contract!governedVars)
<1>1. UNCHANGED <<infra, approvalPc>>
  BY GateFrame DEF approvalVars, tfVars
<1>2. ASSUME NEW status \in Status \cup {"NONE"}, NEW code, AnalyzeLeaves(r, s, status, code)
      PROVE  [Contract!Next]_(Contract!governedVars)
  <2>1. result[r][s] = "NONE"
    BY <1>2 DEF PipelineInv, GateInv, AnalyzeLeaves, GateAt
  <2>2. result' = [result EXCEPT ![r][s] = status]
    BY <1>2 DEF AnalyzeLeaves
  <2>3. CASE status \in Status
    <3>1. Contract!Decide(r, s, status)
      BY <1>1, <2>1, <2>2 DEF Contract!Decide
    <3> QED
      BY <2>3, <3>1 DEF Contract!Next, Status
  <2>4. CASE status = "NONE"
    <3>1. UNCHANGED result
      BY <2>1, <2>2, <2>4 DEF TypeOK
    <3> QED
      BY <1>1, <3>1 DEF Contract!governedVars
  <2> QED
    BY <2>3, <2>4
<1>3. CASE Analyze(r, s)
  BY <1>2, <1>3, VerdictType DEF Analyze
<1>4. CASE AnalyzeErrs(r, s)
  BY <1>2, <1>4 DEF AnalyzeErrs, Status
<1>5. CASE AnalyzeCrashes(r, s)
  BY <1>2, <1>5 DEF AnalyzeCrashes
<1>6. CASE UNCHANGED result
  BY <1>1, <1>6 DEF Contract!governedVars
<1> QED
  BY <1>3, <1>4, <1>5, <1>6 DEF GateStep, ReadBaseline, PlanProposed, GateJobBroken, Report,
     VerifyLock, UploadAuthorization

\* An approval becomes visible when it is recorded, which takes a FAIL.
LEMMA ApprovalImplements ==
    ASSUME TypeOK, PipelineInv, NEW r \in Run, NEW s \in Stack, ApprovalStep(r, s)
    PROVE  [Contract!Next]_(Contract!governedVars)
<1>1. UNCHANGED <<infra, result>>
  BY DEF ApprovalStep, Review, RecordApproval, ApprovalRefused, gateVars, tfVars
<1> DEFINE approved == [q \in Run |-> [t \in Stack |-> approvalPc[q][t] = "recorded"]]
<1>2. CASE RecordApproval(r, s)
  <2>1. result[r][s] = "FAIL"
    BY <1>2 DEF RecordApproval, Approvable
  <2>2. approved' = [approved EXCEPT ![r][s] = TRUE]
    BY <1>2 DEF RecordApproval, TypeOK
  <2>3. Contract!Approve(r, s)
    BY <1>1, <2>1, <2>2 DEF Contract!Approve
  <2> QED
    BY <2>3 DEF Contract!Next
<1>3. CASE ApprovalRefused(r, s) \/ \E choice \in {"approved", "rejected"} : Review(r, s, choice)
  <2>1. PICK pc \in {"approved", "rejected", "refused"} :
           approvalPc' = [approvalPc EXCEPT ![r][s] = pc]
    BY <1>3 DEF Review, ApprovalRefused
  <2>2. approvalPc[r][s] # "recorded"
    BY <1>3 DEF Review, ApprovalRefused
  <2>3. \A q \in Run, t \in Stack :
           (approvalPc'[q][t] = "recorded") = (approvalPc[q][t] = "recorded")
    BY <2>1, <2>2 DEF TypeOK
  <2>4. approved' = approved
    BY <2>3, Zenon
  <2> QED
    BY <1>1, <2>4 DEF Contract!governedVars
<1> QED
  BY <1>2, <1>3 DEF ApprovalStep

\* A resource changes only under an authorization, and is not deleted by it.
LEMMA DeployImplements ==
    ASSUME TypeOK, PipelineInv, NEW r \in Run, NEW s \in Stack, DeployStep(r, s)
    PROVE  [Contract!Next]_(Contract!governedVars)
<1>1. UNCHANGED <<result, approvalPc>>
  BY DeployFrame DEF gateVars, approvalVars
<1>2. CASE ApplyChangesResource(r, s)
  <2>1. MayDeploy(r, s) /\ Deletions(infra[s], Target(r, s)) = {}
    BY <1>2 DEF PipelineInv, DeployInv, ApplyChangesResource, DeployAt
  <2>2. PICK a \in Changes(infra[s], Target(r, s)) :
           infra' = [infra EXCEPT ![s] = [infra[s] EXCEPT ![a] = Target(r, s)[a]]]
    BY <1>2 DEF ApplyChangesResource, ApplyResource
  <2>3. a \in Address /\ Target(r, s)[a] \in Attr
    BY <2>1, ConfigurationTypes DEF Changes, Deletions, Infra
  <2>4. Contract!Governed(r, s)
    BY <2>1 DEF PipelineInv, AuthorizationInv, MayDeploy, Contract!Governed
  <2>5. Contract!Change(r, s, a, Target(r, s)[a])
    BY <1>1, <2>2, <2>4 DEF Contract!Change
  <2> QED
    BY <2>3, <2>5 DEF Contract!Next
<1>3. CASE UNCHANGED infra
  BY <1>1, <1>3 DEF Contract!governedVars
<1> QED
  BY <1>2, <1>3 DEF DeployStep, CheckAuthorization, DeployPlan, ApplyStarts, AcquireForPlan,
     ApplyFindsStalePlan, ApplyCompletes, ApplyFails, DeployJobBroken, PlanDies, LeaveLock,
     LockTimesOut, Release, tfVars

\* Barriers and triggers are invisible.
LEMMA BarrierImplements ==
    ASSUME TypeOK, PipelineInv, NEW r \in Run,
           CollectBlocked(r) \/ AuthorizeDeploy(r) \/ Trigger(r)
    PROVE  UNCHANGED Contract!governedVars
<1> DEFINE approved == [q \in Run |-> [t \in Stack |-> approvalPc[q][t] = "recorded"]]
<1>1. UNCHANGED <<infra, result>>
  BY DEF CollectBlocked, AuthorizeDeploy, Trigger, Push, Dispatch, Start, gateVars, tfVars
<1>2. CASE CollectBlocked(r)
  <2> DEFINE row == [u \in Stack |-> IF u \in Blocked(r) THEN "waiting" ELSE "off"]
  <2>1. approvalPc' = [approvalPc EXCEPT ![r] = row] \/ approvalPc' = approvalPc
    BY <1>2 DEF CollectBlocked
  <2>2. \A t \in Stack : approvalPc[r][t] # "recorded" /\ row[t] # "recorded"
    BY <1>2 DEF CollectBlocked, PipelineInv, ApprovalInv
  <2>3. \A q \in Run, t \in Stack :
           (approvalPc'[q][t] = "recorded") = (approvalPc[q][t] = "recorded")
    BY <2>1, <2>2 DEF TypeOK
  <2>4. approved' = approved
    BY <2>3, Zenon
  <2> QED
    BY <1>1, <2>4 DEF Contract!governedVars
<1>3. CASE UNCHANGED approvalPc
  BY <1>1, <1>3 DEF Contract!governedVars
<1> QED
  BY <1>2, <1>3 DEF AuthorizeDeploy, Trigger, Push, Dispatch, Start, approvalVars

\* Every behaviour of the workflow is one the contract allows: with any number of
\* concurrent runs, any faults and any reviews, a stack changes only by creating
\* or updating a resource for a run that passed or was approved.
THEOREM PipelineImplementsContract == Spec => ImplementsContract
<1>1. Init => Contract!Init
  BY ContractInit
<1>2. TypeOK /\ PipelineInv /\ [Next]_vars => [Contract!Next]_(Contract!governedVars)
  <2> SUFFICES ASSUME TypeOK, PipelineInv, [Next]_vars
               PROVE  [Contract!Next]_(Contract!governedVars)
    OBVIOUS
  <2>1. CASE UNCHANGED vars
    BY <2>1 DEF vars, gateVars, approvalVars, tfVars, Contract!governedVars
  <2>2. ASSUME NEW r \in Run, Trigger(r) \/ RunStep(r)
        PROVE  [Contract!Next]_(Contract!governedVars)
    BY <2>2, BarrierImplements, GateImplements, ApprovalImplements, DeployImplements DEF RunStep
  <2> QED
    BY <2>1, <2>2 DEF Next, Finished
<1> QED
  BY <1>1, <1>2, PipelineInvariant, PTL DEF Spec, ImplementsContract, Contract!Spec

=============================================================================
