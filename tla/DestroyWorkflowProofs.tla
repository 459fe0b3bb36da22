------------------------ MODULE DestroyWorkflowProofs ------------------------
(***************************************************************************)
(* Machine-checked proofs about the two workflows over one Terraform state, *)
(* for any stacks, any set of deploying runs and any number of destroys.    *)
(* They rest on the proofs about the cost gate workflow alone: a destroy    *)
(* never writes what that workflow knows, and what it does to the state of  *)
(* a stack is what another deploying run could do.                          *)
(***************************************************************************)
EXTENDS DestroyWorkflow, FinOpsPipelineProofs

USE DEF PerJob

-----------------------------------------------------------------------------
(* --- types ----------------------------------------------------------------- *)

LEMMA DestroyInitTypeOK == DestroyInit => DestroyTypeOK
<1> SUFFICES ASSUME DestroyInit PROVE DestroyTypeOK
  OBVIOUS
<1>1. TypeOK
  BY InitTypeOK DEF DestroyInit
<1>2. NoDestroyPlan \in SavedPlan
  BY DEF NoDestroyPlan, NothingDeployed, SavedPlan, Infra
<1> QED
  BY <1>1, <1>2 DEF DestroyInit, DestroyTypeOK, DestroyPc

\* What a destroy does to the state its stack shares with the deploys: nothing, or
\* it takes the lock, or it removes a resource, or it lets the lock go.
LEMMA DestroyEffect ==
    ASSUME NEW s \in Stack, DestroyStep(s)
    PROVE  /\ UNCHANGED <<head, run, gateVars, approvalVars, deployVars>>
           /\ \/ UNCHANGED tfVars
              \/ LeaveLock(Destroyer, s)
              \/ DestroyAt(s, "destroying") /\ ApplyResource(Destroyer, s, NothingDeployed)
              \/ DestroyAt(s, "destroying") /\ Release(s)
<1>1. CASE UNCHANGED vars
  BY <1>1 DEF vars
<1>2. CASE DestroyPlanDies(s)
  BY <1>2 DEF DestroyPlanDies
<1>3. CASE DestroyStarts(s)
  BY <1>3 DEF DestroyStarts, AcquireForPlan, LeaveLock
<1>4. CASE DestroyResource(s)
  BY <1>4 DEF DestroyResource
<1>5. CASE DestroyCompletes(s) \/ DestroyFails(s)
  BY <1>5 DEF DestroyCompletes, DestroyFails
<1> QED
  BY <1>1, <1>2, <1>3, <1>4, <1>5 DEF DestroyStep, DestroyProgress, DispatchDestroy, QueueDestroy,
     Admit, AcceptRequest, RefuseRequest, PlanDestroy, NothingToDestroy, ApproveDestroy,
     RejectDestroy, DestroyFindsStalePlan, VerifyGone, DestroyLockTimesOut, DestroyJobBroken

\* ... and what it does to the variables of its own workflow.
LEMMA DestroyMoves ==
    ASSUME DestroyTypeOK, NEW s \in Stack, DestroyStep(s)
    PROVE  /\ destroyPc' \in [Stack -> DestroyPc]
           /\ request' \in [Stack -> Request \cup {Nothing}]
           /\ destroyPlan' \in [Stack -> SavedPlan]
           /\ pending' \in [Stack -> Request \cup {Nothing}]
           /\ \A t \in Stack : t # s => UNCHANGED <<destroyPc[t], destroyPlan[t]>>
<1> DEFINE Goal == /\ destroyPc' \in [Stack -> DestroyPc]
                   /\ request' \in [Stack -> Request \cup {Nothing}]
                   /\ destroyPlan' \in [Stack -> SavedPlan]
                   /\ pending' \in [Stack -> Request \cup {Nothing}]
                   /\ \A t \in Stack : t # s => UNCHANGED <<destroyPc[t], destroyPlan[t]>>
<1>1. /\ destroyPc \in [Stack -> DestroyPc]
      /\ request \in [Stack -> Request \cup {Nothing}]
      /\ destroyPlan \in [Stack -> SavedPlan]
      /\ pending \in [Stack -> Request \cup {Nothing}]
      /\ infra[s] \in Infra /\ serial[s] \in Nat
  BY DEF DestroyTypeOK, TypeOK, TerraformTypeOK
<1>2. NoDestroyPlan \in SavedPlan
  BY DEF NoDestroyPlan, NothingDeployed, SavedPlan, Infra
<1>3. CASE UNCHANGED destroyVars
  BY <1>1, <1>3 DEF destroyVars
<1>4. ASSUME NEW pc \in DestroyPc, DestroyTo(s, pc) PROVE Goal
  BY <1>1, <1>4 DEF DestroyTo
<1>5. CASE DestroyOver(s)
  BY <1>1, <1>2, <1>5 DEF DestroyOver, DestroyPc
<1>6. ASSUME NEW q \in Request, DispatchDestroy(s, q) \/ QueueDestroy(s, q) PROVE Goal
  BY <1>1, <1>6 DEF DispatchDestroy, QueueDestroy, DestroyBegins, DestroyPc
<1>7. CASE Admit(s)
  BY <1>1, <1>7 DEF Admit, DestroyBegins, DestroyPc
<1>8. CASE PlanDestroy(s)
  <2>1. PlanOf(s) \in SavedPlan
    BY <1>1 DEF PlanOf, SavedPlan
  <2> QED
    BY <1>1, <1>8, <2>1 DEF PlanDestroy, DestroyPc
<1>9. CASE AcceptRequest(s) \/ ApproveDestroy(s) \/ DestroyStarts(s) \/ DestroyCompletes(s)
  <2>1. PICK pc \in DestroyPc : DestroyTo(s, pc)
    BY <1>9 DEF AcceptRequest, ApproveDestroy, DestroyStarts, DestroyCompletes, DestroyPc
  <2> QED
    BY <1>4, <2>1
<1>10. CASE DestroyResource(s)
  BY <1>3, <1>10 DEF DestroyResource
<1>11. \/ DestroyOver(s)
       \/ \E q \in Request : DispatchDestroy(s, q) \/ QueueDestroy(s, q)
       \/ Admit(s) \/ PlanDestroy(s) \/ DestroyResource(s)
       \/ AcceptRequest(s) \/ ApproveDestroy(s) \/ DestroyStarts(s) \/ DestroyCompletes(s)
  BY DEF DestroyStep, DestroyProgress, RefuseRequest, NothingToDestroy, RejectDestroy,
     DestroyFindsStalePlan, VerifyGone, DestroyLockTimesOut, DestroyPlanDies, DestroyFails,
     DestroyJobBroken
<1> QED
  BY <1>5, <1>6, <1>7, <1>8, <1>9, <1>10, <1>11

LEMMA DestroyStepTypeOK ==
    ASSUME DestroyTypeOK, NEW s \in Stack, DestroyStep(s)
    PROVE  DestroyTypeOK'
<1>1. TerraformTypeOK'
  <2>1. TerraformTypeOK /\ Destroyer \in Holder
    BY DestroyAssumption DEF DestroyTypeOK, TypeOK
  <2> USE <2>1 DEF TerraformTypeOK
  <2>2. CASE UNCHANGED tfVars
    BY <2>2 DEF tfVars
  <2>3. CASE LeaveLock(Destroyer, s)
    BY <2>3 DEF LeaveLock
  <2>4. CASE ApplyResource(Destroyer, s, NothingDeployed)
    BY <2>4 DEF ApplyResource, Changes, NothingDeployed, Infra
  <2>5. CASE Release(s)
    BY <2>5 DEF Release
  <2> QED
    BY <2>2, <2>3, <2>4, <2>5, DestroyEffect
<1>2. TypeOK'
  BY <1>1, DestroyEffect DEF DestroyTypeOK, TypeOK, gateVars, approvalVars, deployVars
<1> QED
  BY <1>2, DestroyMoves DEF DestroyTypeOK

LEMMA PipelineStepTypeOK ==
    ASSUME DestroyTypeOK, NEW r \in Run, PipelineStep(r)
    PROVE  DestroyTypeOK'
<1>1. TypeOK'
  BY NextTypeOK DEF DestroyTypeOK, PipelineStep, Next
<1> QED
  BY <1>1 DEF DestroyTypeOK, PipelineStep, destroyVars

LEMMA DestroyNextTypeOK ==
    ASSUME DestroyTypeOK, [DestroyNext]_allVars PROVE DestroyTypeOK'
<1>1. CASE UNCHANGED allVars
  BY <1>1 DEF allVars, destroyVars, vars, gateVars, approvalVars, deployVars, tfVars,
     DestroyTypeOK, TypeOK, TerraformTypeOK
<1> QED
  BY <1>1, PipelineStepTypeOK, DestroyStepTypeOK DEF DestroyNext

\* Every reachable state of the two workflows has the types its variables claim.
THEOREM LifecycleTypeCorrect == DestroySpec => []DestroyTypeOK
  BY DestroyInitTypeOK, DestroyNextTypeOK, PTL DEF DestroySpec

-----------------------------------------------------------------------------
(* --- the inductive invariant ----------------------------------------------- *)

LEMMA InitLifecycleInv == DestroyInit => LifecycleInv
<1> SUFFICES ASSUME DestroyInit PROVE LifecycleInv
  OBVIOUS
<1>1. PipelineInv
  BY InitPipelineInv DEF DestroyInit
<1>2. \A s \in Stack : ShownInv(s) /\ ~DestroyAt(s, "destroying")
  BY DEF DestroyInit, DestroyAt, ShownInv
<1>3. \A r \in Run, s \in Stack : deployPc[r][s] = "off"
  BY DEF DestroyInit, Init
<1> QED
  BY <1>1, <1>2, <1>3 DEF LifecycleInv, PlansAreCurrent

\* One resource operation leaves every other stack as it is, this one's resources as
\* they were or as the target has them, and every plan of it behind.
LEMMA ApplyResourceEffect ==
    ASSUME TerraformTypeOK, NEW w, NEW s \in Stack, NEW target \in Infra,
           ApplyResource(w, s, target)
    PROVE  /\ tfLock[s] = w /\ tfLock' = tfLock
           /\ \A t \in Stack : t # s => UNCHANGED <<infra[t], serial[t]>>
           /\ serial'[s] = serial[s] + 1
           /\ \A a \in Address : infra'[s][a] \in {infra[s][a], target[a]}
<1>1. PICK a \in Address : infra' = [infra EXCEPT ![s] = [infra[s] EXCEPT ![a] = target[a]]]
  BY DEF ApplyResource, Changes
<1>2. infra[s] \in [Address -> Attr \cup {Absent}]
  BY DEF TerraformTypeOK, Infra
<1>3. infra'[s] = [infra[s] EXCEPT ![a] = target[a]]
  BY <1>1 DEF TerraformTypeOK
<1>4. \A b \in Address : infra'[s][b] \in {infra[s][b], target[b]}
  BY <1>2, <1>3
<1>5. \A t \in Stack : t # s => UNCHANGED <<infra[t], serial[t]>>
  BY <1>1 DEF ApplyResource, TerraformTypeOK
<1> QED
  BY <1>4, <1>5 DEF ApplyResource, TerraformTypeOK

\* What a deploy job does to the state of its stack.
LEMMA DeployEffect ==
    ASSUME NEW r \in Run, NEW s \in Stack, DeployStep(r, s)
    PROVE  \/ UNCHANGED tfVars
           \/ ApplyStarts(r, s)
           \/ PlanDies(r, s)
           \/ deployPc[r][s] = "applying" /\ ApplyResource(r, s, Target(r, s)) /\ UNCHANGED deployVars
           \/ deployPc[r][s] = "applying" /\ Release(s)
  BY DEF DeployStep, CheckAuthorization, DeployPlan, ApplyFindsStalePlan, ApplyChangesResource,
     ApplyCompletes, ApplyFails, DeployJobBroken, LockTimesOut, DeployAt

\* The holder of a lock, by what it does.
LEMMA HolderOfLock ==
    ASSUME DestroyTypeOK, LifecycleInv, NEW s \in Stack
    PROVE  /\ DestroyAt(s, "destroying") => tfLock[s] = Destroyer
           /\ \A r \in Run : deployPc[r][s] = "applying" => tfLock[s] = r
           /\ Destroyer \notin Run /\ Destroyer # NoRun
           /\ \A r \in Run : r # NoRun
  BY TerraformAssumption, PipelineAssumption, DestroyAssumption
     DEF LifecycleInv, ShownInv, PipelineInv, DeployInv

\* A step of a destroy keeps what the cost gate relies on.
LEMMA DestroyStepPipelineInv ==
    ASSUME DestroyTypeOK, LifecycleInv, NEW s \in Stack, DestroyStep(s)
    PROVE  PipelineInv'
<1> SUFFICES ASSUME NEW q \in Run, NEW t \in Stack
             PROVE  (GateInv(q, t) /\ ApprovalInv(q, t) /\ AuthorizationInv(q, t) /\ DeployInv(q, t))'
  BY DEF PipelineInv
<1>1. UNCHANGED <<head, run, gateVars, approvalVars, deployVars>>
  BY DestroyEffect
<1>2. GateInv(q, t) /\ ApprovalInv(q, t) /\ AuthorizationInv(q, t) /\ DeployInv(q, t)
  BY DEF LifecycleInv, PipelineInv
<1>3. /\ Target(q, t)' = Target(q, t)
      /\ Authorized(q, t)' <=> Authorized(q, t)
      /\ MayDeploy(q, t)' <=> MayDeploy(q, t)
  BY <1>1 DEF Target, MayDeploy, Authorized, deployVars
<1> USE DEF gateVars, approvalVars, deployVars
<1>4. GateInv(q, t)' /\ ApprovalInv(q, t)' /\ AuthorizationInv(q, t)'
  <2>1. GateInv(q, t)'
    BY <1>1, <1>2, <1>3 DEF GateInv
  <2>2. ApprovalInv(q, t)'
    BY <1>1, <1>2 DEF ApprovalInv
  <2>3. AuthorizationInv(q, t)'
    BY <1>1, <1>2, <1>3 DEF AuthorizationInv
  <2> QED
    BY <2>1, <2>2, <2>3
<1>5. DeployInv(q, t)'
  <2>1. CASE UNCHANGED <<infra[t], serial[t], tfLock[t]>>
    BY <1>1, <1>2, <1>3, <2>1 DEF DeployInv
  <2>2. TerraformTypeOK /\ NothingDeployed \in Infra
    BY DEF DestroyTypeOK, TypeOK, NothingDeployed, Infra
  <2>3. CASE t # s
    <3>1. UNCHANGED <<infra[t], serial[t], tfLock[t]>>
      <4>1. CASE UNCHANGED tfVars
        BY <4>1 DEF tfVars
      <4>2. CASE LeaveLock(Destroyer, s) \/ Release(s)
        BY <2>2, <2>3, <4>2 DEF LeaveLock, Release, TerraformTypeOK
      <4>3. CASE ApplyResource(Destroyer, s, NothingDeployed)
        BY <2>2, <2>3, <4>3, ApplyResourceEffect
      <4> QED
        BY <4>1, <4>2, <4>3, DestroyEffect
    <3> QED
      BY <2>1, <3>1
  <2>4. ASSUME t = s, deployPc[q][s] # "applying", serial'[s] \in Nat, serial[s] \in Nat,
               (UNCHANGED infra[s] /\ UNCHANGED serial[s]) \/ serial'[s] = serial[s] + 1
        PROVE  DeployInv(q, t)'
    <3>1. deployPlan[q][s].serial \in Nat
      BY DEF DestroyTypeOK, TypeOK, SavedPlan
    <3> QED
      BY <1>1, <1>2, <1>3, <2>4, <3>1 DEF DeployInv
  <2>5. CASE t = s /\ UNCHANGED tfVars
    BY <2>1, <2>5 DEF tfVars
  <2>6. CASE t = s /\ LeaveLock(Destroyer, s)
    <3>1. deployPc[q][s] # "applying" /\ UNCHANGED <<infra, serial>>
      BY <2>6, HolderOfLock DEF LeaveLock, LockFree
    <3> QED
      BY <2>2, <2>4, <2>6, <3>1 DEF TerraformTypeOK
  <2>7. CASE /\ t = s /\ DestroyAt(s, "destroying")
             /\ ApplyResource(Destroyer, s, NothingDeployed) \/ Release(s)
    <3>1. deployPc[q][s] # "applying"
      BY <2>7, HolderOfLock
    <3>2. (UNCHANGED infra[s] /\ UNCHANGED serial[s]) \/ serial'[s] = serial[s] + 1
      BY <2>2, <2>7, ApplyResourceEffect DEF Release
    <3>3. serial[s] \in Nat /\ serial'[s] \in Nat
      BY <2>2, <3>2 DEF TerraformTypeOK
    <3> QED
      BY <2>4, <2>7, <3>1, <3>2, <3>3
  <2> QED
    BY <2>3, <2>5, <2>6, <2>7, DestroyEffect
<1> QED
  BY <1>4, <1>5

\* A destroy that has been shown is of the state as it is; one that removes has the
\* stack to itself.
LEMMA DestroyStepShownInv ==
    ASSUME DestroyTypeOK, LifecycleInv, NEW s \in Stack, DestroyStep(s)
    PROVE  ShownInv(s)'
<1>1. TerraformTypeOK /\ destroyPlan \in [Stack -> SavedPlan] /\ destroyPc \in [Stack -> DestroyPc]
  BY DEF DestroyTypeOK, TypeOK
<1>2. ShownInv(s)
  BY DEF LifecycleInv
<1>3. CASE DestroyOver(s)
  BY <1>1, <1>3 DEF DestroyOver, ShownInv, DestroyAt
<1>4. CASE PlanDestroy(s)
  <2>1. destroyPc'[s] = "review" /\ destroyPlan'[s] = PlanOf(s) /\ UNCHANGED <<infra, serial>>
    BY <1>1, <1>4 DEF PlanDestroy, vars, tfVars
  <2> QED
    BY <1>1, <2>1 DEF ShownInv, PlanOf, TerraformTypeOK, DestroyAt
<1>5. CASE ApproveDestroy(s)
  <2>1. destroyPc[s] = "review" /\ destroyPc'[s] = "approved"
        /\ UNCHANGED <<destroyPlan, infra, serial, tfLock>>
    BY <1>1, <1>5 DEF ApproveDestroy, DestroyAt, DestroyTo, vars, tfVars
  <2> QED
    BY <1>2, <2>1 DEF ShownInv, DestroyAt
<1>6. CASE DestroyStarts(s)
  <2>1. destroyPc'[s] = "destroying" /\ tfLock'[s] = Destroyer
    BY <1>1, <1>6 DEF DestroyStarts, DestroyTo, AcquireForPlan, TerraformTypeOK
  <2> QED
    BY <2>1 DEF ShownInv, DestroyAt
<1>7. CASE DestroyResource(s)
  <2>1. destroyPc'[s] = "destroying" /\ tfLock'[s] = Destroyer
    BY <1>7 DEF DestroyResource, DestroyAt, destroyVars, ApplyResource
  <2> QED
    BY <2>1 DEF ShownInv, DestroyAt
<1>8. ASSUME destroyPc'[s] \in {"validating", "planning", "verifying", "idle"} PROVE ShownInv(s)'
  BY <1>8 DEF ShownInv, DestroyAt
<1>9. CASE \E q \in Request : DispatchDestroy(s, q) \/ Admit(s)
  BY <1>1, <1>8, <1>9 DEF DispatchDestroy, Admit, DestroyBegins
<1>10. CASE AcceptRequest(s) \/ DestroyCompletes(s)
  BY <1>1, <1>8, <1>10 DEF AcceptRequest, DestroyCompletes, DestroyTo
<1>11. CASE \E q \in Request : QueueDestroy(s, q)
  <2>1. UNCHANGED <<destroyPc, destroyPlan, infra, serial, tfLock>>
    BY <1>11 DEF QueueDestroy, vars, tfVars
  <2> QED
    BY <1>2, <2>1 DEF ShownInv, DestroyAt
<1>12. CASE Admit(s)
  BY <1>1, <1>8, <1>12 DEF Admit, DestroyBegins
<1> QED
  BY <1>3, <1>4, <1>5, <1>6, <1>7, <1>9, <1>10, <1>11, <1>12 DEF DestroyStep, DestroyProgress,
     RefuseRequest, NothingToDestroy, RejectDestroy, DestroyFindsStalePlan, VerifyGone,
     DestroyLockTimesOut, DestroyPlanDies, DestroyFails, DestroyJobBroken

\* While it removes, nothing but what it removes has gone.
LEMMA DestroyStepCurrent ==
    ASSUME DestroyTypeOK, LifecycleInv, NEW s \in Stack, DestroyStep(s), DestroyAt(s, "destroying")'
    PROVE  Current(s, destroyPlan[s], NothingDeployed)'
<1>1. TerraformTypeOK /\ destroyPlan \in [Stack -> SavedPlan] /\ destroyPc \in [Stack -> DestroyPc]
      /\ NothingDeployed \in Infra
  BY DEF DestroyTypeOK, TypeOK, NothingDeployed, Infra
<1>2. DestroyAt(s, "destroying") => Current(s, destroyPlan[s], NothingDeployed)
  BY DEF LifecycleInv, PlansAreCurrent
<1>3. CASE DestroyStarts(s)
  <2>1. destroyPlan[s].from = infra[s] /\ UNCHANGED <<infra, destroyPlan>>
    BY <1>3 DEF DestroyStarts, AcquireForPlan, ApprovedPlan, DestroyTo, DestroyAt, LifecycleInv, ShownInv
  <2> QED
    BY <2>1 DEF Current
<1>4. CASE DestroyResource(s)
  <2>1. /\ Current(s, destroyPlan[s], NothingDeployed)
        /\ \A a \in Address : infra'[s][a] \in {infra[s][a], NothingDeployed[a]}
        /\ UNCHANGED destroyPlan
    BY <1>1, <1>2, <1>4, ApplyResourceEffect DEF DestroyResource, destroyVars
  <2> QED
    BY <2>1 DEF Current
<1>5. CASE \E q \in Request : QueueDestroy(s, q)
  <2>1. UNCHANGED <<destroyPc, destroyPlan, infra>>
    BY <1>5 DEF QueueDestroy, vars, tfVars
  <2> QED
    BY <1>2, <2>1 DEF Current, DestroyAt
<1>6. ~DestroyOver(s) /\ ~Admit(s) /\ ~PlanDestroy(s) /\ ~AcceptRequest(s) /\ ~ApproveDestroy(s)
      /\ ~DestroyCompletes(s) /\ ~(\E q \in Request : DispatchDestroy(s, q))
  BY <1>1 DEF DestroyOver, Admit, DestroyBegins, PlanDestroy, AcceptRequest, ApproveDestroy,
     DestroyCompletes, DispatchDestroy, DestroyTo, DestroyAt
<1> QED
  BY <1>3, <1>4, <1>5, <1>6 DEF DestroyStep, DestroyProgress, RefuseRequest, NothingToDestroy,
     RejectDestroy, DestroyFindsStalePlan, VerifyGone, DestroyLockTimesOut, DestroyPlanDies,
     DestroyFails, DestroyJobBroken

LEMMA DestroyStepLifecycleInv ==
    ASSUME DestroyTypeOK, LifecycleInv, NEW s \in Stack, DestroyStep(s)
    PROVE  LifecycleInv'
<1>1. TerraformTypeOK /\ NothingDeployed \in Infra
  BY DEF DestroyTypeOK, TypeOK, NothingDeployed, Infra
<1>2. /\ UNCHANGED <<run, deployPc, deployPlan>>
      /\ \A t \in Stack : t # s => UNCHANGED <<destroyPc[t], destroyPlan[t], infra[t], serial[t], tfLock[t]>>
  <2>1. UNCHANGED <<run, deployPc, deployPlan>>
    BY DestroyEffect DEF deployVars
  <2>2. \A t \in Stack : t # s => UNCHANGED <<infra[t], serial[t], tfLock[t]>>
    <3>1. CASE UNCHANGED tfVars
      BY <3>1 DEF tfVars
    <3>2. CASE LeaveLock(Destroyer, s) \/ Release(s)
      BY <1>1, <3>2 DEF LeaveLock, Release, TerraformTypeOK
    <3>3. CASE ApplyResource(Destroyer, s, NothingDeployed)
      BY <1>1, <3>3, ApplyResourceEffect
    <3> QED
      BY <3>1, <3>2, <3>3, DestroyEffect
  <2> QED
    BY <2>1, <2>2, DestroyMoves
<1>3. ASSUME NEW t \in Stack PROVE ShownInv(t)'
  <2>1. CASE t = s
    BY <2>1, DestroyStepShownInv
  <2>2. CASE t # s
    BY <1>2, <2>2 DEF ShownInv, DestroyAt, LifecycleInv
  <2> QED
    BY <2>1, <2>2
<1>4. ASSUME NEW t \in Stack, DestroyAt(t, "destroying")'
      PROVE  Current(t, destroyPlan[t], NothingDeployed)'
  <2>1. CASE t = s
    BY <1>4, <2>1, DestroyStepCurrent
  <2>2. CASE t # s
    BY <1>2, <1>4, <2>2 DEF Current, DestroyAt, LifecycleInv, PlansAreCurrent
  <2> QED
    BY <2>1, <2>2
<1>5. ASSUME NEW r \in Run, NEW t \in Stack, deployPc'[r][t] = "applying"
      PROVE  Current(t, deployPlan[r][t], Target(r, t))'
  <2>1. Current(t, deployPlan[r][t], Target(r, t)) /\ Target(r, t)' = Target(r, t)
    BY <1>2, <1>5 DEF LifecycleInv, PlansAreCurrent, Target
  <2>2. UNCHANGED infra[t]
    <3>1. CASE t # s
      BY <1>2, <3>1
    <3>2. CASE t = s
      <4>1. deployPc[r][s] = "applying"
        BY <1>2, <1>5, <3>2
      <4>2. ~DestroyAt(s, "destroying")
        BY <4>1, HolderOfLock
      <4> QED
        BY <3>2, <4>2, DestroyEffect DEF tfVars, LeaveLock
    <3> QED
      BY <3>1, <3>2
  <2> QED
    BY <1>2, <2>1, <2>2 DEF Current
<1> QED
  BY <1>3, <1>4, <1>5, DestroyStepPipelineInv DEF LifecycleInv, PlansAreCurrent

\* A step of the cost gate keeps what a destroy relies on: a job that applies has the
\* lock, so that no destroy is removing anything, and what it writes moves the serial.
LEMMA DeployStepLifecycleInv ==
    ASSUME DestroyTypeOK, LifecycleInv, NEW r \in Run, NEW s \in Stack, DeployStep(r, s),
           UNCHANGED destroyVars
    PROVE  PlansAreCurrent' /\ \A t \in Stack : ShownInv(t)'
<1>1. TypeOK /\ TerraformTypeOK /\ Target(r, s) \in Infra
  BY ConfigurationTypes DEF DestroyTypeOK, TypeOK
<1>2. /\ UNCHANGED run
      /\ \A q \in Run, t \in Stack : q # r \/ t # s => UNCHANGED <<deployPc[q][t], deployPlan[q][t]>>
      /\ \A t \in Stack : t # s => UNCHANGED <<infra[t], serial[t], tfLock[t]>>
  BY <1>1, DeployFrame
<1>3. UNCHANGED <<destroyPc, destroyPlan>>
  BY DEF destroyVars
<1>4. /\ \A t \in Stack : ShownInv(t)
      /\ \A t \in Stack : DestroyAt(t, "destroying") => Current(t, destroyPlan[t], NothingDeployed)
      /\ \A q \in Run, t \in Stack :
            deployPc[q][t] = "applying" => Current(t, deployPlan[q][t], Target(q, t))
  BY DEF LifecycleInv, PlansAreCurrent
<1>5. destroyPlan[s].serial \in Nat /\ serial[s] \in Nat
  BY DEF DestroyTypeOK, TypeOK, TerraformTypeOK, SavedPlan
<1>6. ~DestroyAt(s, "destroying") \/ UNCHANGED <<infra[s], serial[s], tfLock[s]>>
  <2>1. CASE UNCHANGED tfVars
    BY <2>1 DEF tfVars
  <2>2. CASE ApplyStarts(r, s) \/ PlanDies(r, s)
    BY <2>2, HolderOfLock DEF ApplyStarts, PlanDies, AcquireForPlan, LeaveLock, LockFree
  <2>3. CASE deployPc[r][s] = "applying"
    BY <2>3, HolderOfLock
  <2> QED
    BY <2>1, <2>2, <2>3, DeployEffect
<1>7. (UNCHANGED infra[s] /\ UNCHANGED serial[s]) \/ serial'[s] = serial[s] + 1
  BY <1>1, DeployEffect, ApplyResourceEffect DEF tfVars, ApplyStarts, PlanDies, AcquireForPlan,
     LeaveLock, Release
<1>8. ASSUME NEW t \in Stack PROVE ShownInv(t)'
  <2>1. CASE t # s
    BY <1>2, <1>3, <1>4, <2>1 DEF ShownInv, DestroyAt
  <2>2. CASE t = s /\ DestroyAt(s, "destroying")
    BY <1>3, <1>4, <1>6, <2>2 DEF ShownInv, DestroyAt
  <2>3. CASE t = s /\ ~DestroyAt(s, "destroying")
    BY <1>3, <1>4, <1>5, <1>7, <2>3 DEF ShownInv, DestroyAt
  <2> QED
    BY <2>1, <2>2, <2>3
<1>9. ASSUME NEW t \in Stack, DestroyAt(t, "destroying")'
      PROVE  Current(t, destroyPlan[t], NothingDeployed)'
  <2>1. DestroyAt(t, "destroying") /\ UNCHANGED infra[t]
    BY <1>2, <1>3, <1>6, <1>9 DEF DestroyAt
  <2> QED
    BY <1>3, <1>4, <2>1 DEF Current
<1>10. ASSUME NEW q \in Run, NEW t \in Stack, deployPc'[q][t] = "applying"
       PROVE  Current(t, deployPlan[q][t], Target(q, t))'
  <2>1. Target(q, t)' = Target(q, t)
    BY <1>2 DEF Target
  <2>2. CASE t # s
    BY <1>2, <1>4, <1>10, <2>1, <2>2 DEF Current
  <2>3. CASE t = s /\ q # r
    <3>1. deployPc[q][s] = "applying" /\ UNCHANGED deployPlan[q][s]
      BY <1>2, <1>10, <2>3
    <3>2. tfLock[s] = q /\ q # NoRun /\ deployPc[r][s] # "applying"
      BY <2>3, <3>1, HolderOfLock
    <3>3. UNCHANGED infra[s]
      BY <3>2, DeployEffect DEF tfVars, ApplyStarts, PlanDies, AcquireForPlan, LeaveLock
    <3> QED
      BY <1>4, <2>1, <2>3, <3>1, <3>3 DEF Current
  <2>4. CASE t = s /\ q = r /\ ApplyStarts(r, s)
    <3>1. deployPlan[r][s].from = infra[s] /\ UNCHANGED <<infra, deployPlan>>
      BY <2>4 DEF ApplyStarts, AcquireForPlan, DeployAt, LifecycleInv, PipelineInv, DeployInv
    <3> QED
      BY <2>1, <2>4, <3>1 DEF Current
  <2>5. CASE t = s /\ q = r /\ ApplyChangesResource(r, s)
    <3>1. /\ Current(s, deployPlan[r][s], Target(r, s)) /\ UNCHANGED deployPlan
          /\ \A a \in Address : infra'[s][a] \in {infra[s][a], Target(r, s)[a]}
      BY <1>1, <1>4, <2>5, ApplyResourceEffect DEF ApplyChangesResource, DeployAt, deployVars
    <3> QED
      BY <2>1, <2>5, <3>1 DEF Current
  <2>6. ASSUME t = s, q = r PROVE ApplyStarts(r, s) \/ ApplyChangesResource(r, s)
    <3>1. deployPc \in PerJob(DeployPc)
      BY <1>1 DEF TypeOK
    <3>2. ASSUME NEW pc, DeployTo(r, s, pc) PROVE pc = "applying"
      BY <1>10, <2>6, <3>1, <3>2 DEF DeployTo
    <3>3. /\ ~CheckAuthorization(r, s) /\ ~DeployPlan(r, s) /\ ~ApplyFindsStalePlan(r, s)
          /\ ~ApplyCompletes(r, s)
      BY <3>2 DEF CheckAuthorization, DeployPlan, ApplyFindsStalePlan, ApplyCompletes
    <3>4. ~ApplyFails(r, s) /\ ~DeployJobBroken(r, s) /\ ~PlanDies(r, s) /\ ~LockTimesOut(r, s)
      BY <3>2 DEF ApplyFails, DeployJobBroken, PlanDies, LockTimesOut
    <3> QED
      BY <3>3, <3>4 DEF DeployStep
  <2> QED
    BY <2>2, <2>3, <2>4, <2>5, <2>6
<1> QED
  BY <1>8, <1>9, <1>10 DEF PlansAreCurrent

\* Every other step of the cost gate leaves the state alone, and starts no apply.
LEMMA QuietStepLifecycleInv ==
    ASSUME DestroyTypeOK, LifecycleInv, UNCHANGED <<tfVars, destroyVars>>,
           \A q \in Run, t \in Stack : deployPc'[q][t] = "applying" =>
               /\ deployPc[q][t] = "applying"
               /\ UNCHANGED <<deployPlan[q][t], Target(q, t)>>
    PROVE  PlansAreCurrent' /\ \A t \in Stack : ShownInv(t)'
<1>1. UNCHANGED <<infra, serial, tfLock, destroyPc, destroyPlan>>
  BY DEF tfVars, destroyVars
<1>2. \A t \in Stack : ShownInv(t)'
  BY <1>1 DEF LifecycleInv, ShownInv, DestroyAt
<1>3. PlansAreCurrent'
  BY <1>1 DEF LifecycleInv, PlansAreCurrent, Current, DestroyAt
<1> QED
  BY <1>2, <1>3

LEMMA PipelineStepLifecycleInv ==
    ASSUME DestroyTypeOK, LifecycleInv, NEW r \in Run, PipelineStep(r)
    PROVE  LifecycleInv'
<1>1. TypeOK /\ PipelineInv /\ UNCHANGED destroyVars
  BY DEF DestroyTypeOK, LifecycleInv, PipelineStep
<1>2. PipelineInv'
  BY <1>1, NextPipelineInv DEF PipelineStep, Next
<1> DEFINE Goal == PlansAreCurrent' /\ \A t \in Stack : ShownInv(t)'
<1>3. ASSUME NEW s \in Stack, DeployStep(r, s) PROVE Goal
  BY <1>1, <1>3, DeployStepLifecycleInv
<1>4. ASSUME NEW s \in Stack, GateStep(r, s) PROVE Goal
  <2>1. UNCHANGED <<run, deployPc, deployPlan, tfVars>>
    BY <1>1, <1>4, GateFrame DEF deployVars
  <2> QED
    BY <1>1, <2>1, QuietStepLifecycleInv DEF Target
<1>5. ASSUME NEW s \in Stack, ApprovalStep(r, s) PROVE Goal
  <2>1. UNCHANGED <<run, deployPc, deployPlan, tfVars>>
    BY <1>5 DEF ApprovalStep, Review, RecordApproval, ApprovalRefused, deployVars
  <2> QED
    BY <1>1, <2>1, QuietStepLifecycleInv DEF Target
<1>6. ASSUME CollectBlocked(r) PROVE Goal
  <2>1. UNCHANGED <<deployPc, deployPlan, tfVars>>
    BY <1>6 DEF CollectBlocked, deployVars
  <2>2. \A q \in Run : run'[q].commit = run[q].commit
    BY <1>1, <1>6 DEF CollectBlocked, TypeOK, RunRecord
  <2>3. \A q \in Run, t \in Stack : UNCHANGED Target(q, t)
    BY <2>2 DEF Target
  <2> QED
    BY <1>1, <2>1, <2>3, QuietStepLifecycleInv
<1>7. ASSUME AuthorizeDeploy(r) PROVE Goal
  <2>1. UNCHANGED <<deployPlan, tfVars>>
    BY <1>7 DEF AuthorizeDeploy
  <2>3. \A q \in Run : run'[q].commit = run[q].commit
    <3>1. \E phase \in {"deploy", "ended"} : run' = [run EXCEPT ![r].phase = phase]
      BY <1>7 DEF AuthorizeDeploy
    <3> QED
      BY <1>1, <3>1 DEF TypeOK, RunRecord
  <2>4. \A q \in Run, t \in Stack : UNCHANGED Target(q, t)
    BY <2>3 DEF Target
  <2>2. \A q \in Run, t \in Stack : deployPc'[q][t] = "applying" => deployPc[q][t] = "applying"
    <3> DEFINE row == [u \in Stack |-> IF DeployCondition(r) /\ u \in run[r].stacks THEN "start" ELSE "off"]
    <3>1. \A t \in Stack : row[t] # "applying"
      OBVIOUS
    <3>2. deployPc' = [deployPc EXCEPT ![r] = row] \/ UNCHANGED deployPc
      BY <1>7 DEF AuthorizeDeploy
    <3> HIDE DEF row
    <3> QED
      BY <1>1, <3>1, <3>2 DEF TypeOK
  <2> QED
    BY <1>1, <2>1, <2>2, <2>4, QuietStepLifecycleInv
<1>8. ASSUME Trigger(r) PROVE Goal
  <2>1. PICK event, b, c, stacks, apply : Start(r, event, b, c, stacks, apply)
    BY <1>8 DEF Trigger, Push, Dispatch
  <2>2. /\ UNCHANGED <<deployPc, deployPlan, tfVars>>
        /\ run[r].phase = "idle"
        /\ \A q \in Run : q # r => UNCHANGED run[q]
    BY <1>1, <2>1 DEF Start, deployVars, TypeOK
  <2>3. \A t \in Stack : deployPc[r][t] = "off"
    BY <1>1, <2>2 DEF PipelineInv, AuthorizationInv
  <2>4. \A q \in Run, t \in Stack :
           deployPc'[q][t] = "applying" => deployPc[q][t] = "applying" /\ UNCHANGED Target(q, t)
    BY <2>2, <2>3 DEF Target
  <2> QED
    BY <1>1, <2>2, <2>4, QuietStepLifecycleInv
<1> QED
  BY <1>2, <1>3, <1>4, <1>5, <1>6, <1>7, <1>8 DEF PipelineStep, RunStep, LifecycleInv

LEMMA NextLifecycleInv ==
    ASSUME DestroyTypeOK, LifecycleInv, [DestroyNext]_allVars PROVE LifecycleInv'
<1>1. CASE UNCHANGED allVars
  <2>1. UNCHANGED vars /\ UNCHANGED <<tfVars, destroyVars>>
    BY <1>1 DEF allVars, vars
  <2>2. PipelineInv'
    BY <2>1, NextPipelineInv DEF DestroyTypeOK, LifecycleInv
  <2>3. UNCHANGED <<run, deployPc, deployPlan>>
    BY <2>1 DEF vars, deployVars
  <2> QED
    BY <2>1, <2>2, <2>3, QuietStepLifecycleInv DEF LifecycleInv, Target
<1> QED
  BY <1>1, PipelineStepLifecycleInv, DestroyStepLifecycleInv DEF DestroyNext

\* The invariant on which everything below rests holds in every reachable state of
\* the two workflows.
THEOREM LifecycleInvariant == DestroySpec => [](DestroyTypeOK /\ LifecycleInv)
<1>1. DestroyInit => DestroyTypeOK /\ LifecycleInv
  BY DestroyInitTypeOK, InitLifecycleInv
<1>2. DestroyTypeOK /\ LifecycleInv /\ [DestroyNext]_allVars => (DestroyTypeOK /\ LifecycleInv)'
  BY DestroyNextTypeOK, NextLifecycleInv
<1> QED
  BY <1>1, <1>2, PTL DEF DestroySpec

-----------------------------------------------------------------------------
(* --- safety ------------------------------------------------------------------ *)

\* A stack is never changed by two runs of either workflow at once.
THEOREM WritersExcludeEachOther == DestroySpec => []OneWriterPerStack
<1>1. DestroyTypeOK /\ LifecycleInv => OneWriterPerStack
  BY HolderOfLock DEF OneWriterPerStack, Writers
<1> QED
  BY <1>1, LifecycleInvariant, PTL

\* What an apply finds is what its plan was made from, whichever workflow made it.
THEOREM PlansStayCurrent == DestroySpec => []PlansAreCurrent
  BY LifecycleInvariant, PTL DEF LifecycleInv

-----------------------------------------------------------------------------
(* --- the lifecycle contract ---------------------------------------------------- *)

\* A destroy changes what it has shown, and the consent it has, for its stack alone.
LEMMA ShownMoves ==
    ASSUME NEW s \in Stack,
           \A t \in Stack : t # s => UNCHANGED <<destroyPc[t], destroyPlan[t]>>
    PROVE  /\ [t \in Stack |-> Shown(t)]' = [[t \in Stack |-> Shown(t)] EXCEPT ![s] = Shown(s)']
           /\ [t \in Stack |-> destroyPc[t] \in {"approved", "destroying"}]'
                 = [[t \in Stack |-> destroyPc[t] \in {"approved", "destroying"}]
                       EXCEPT ![s] = destroyPc'[s] \in {"approved", "destroying"}]
<1> DEFINE consented(t) == destroyPc[t] \in {"approved", "destroying"}
<1>1. \A t \in Stack : t # s => Shown(t)' = Shown(t)
  BY DEF Shown
<1>2. [t \in Stack |-> Shown(t)]' = [[t \in Stack |-> Shown(t)] EXCEPT ![s] = Shown(s)']
  BY <1>1
<1>3. \A t \in Stack : t # s => consented(t)' = consented(t)
  OBVIOUS
<1>4. [t \in Stack |-> consented(t)]' = [[t \in Stack |-> consented(t)] EXCEPT ![s] = consented(s)']
  <2> HIDE DEF consented
  <2> QED
    BY <1>3, Zenon
<1> QED
  BY <1>2, <1>4

\* What the cost gate may do, it may do next to the destroys.
LEMMA ContractIsLifecycle ==
    ASSUME UNCHANGED destroyVars, [Contract!Next]_(Contract!governedVars)
    PROVE  [Lifecycle!LifecycleNext]_(Lifecycle!lifecycleVars)
<1>1. UNCHANGED Lifecycle!destroyedVars
  BY DEF Lifecycle!destroyedVars, Shown, destroyVars
<1>2. Contract!Next => Lifecycle!Next
  BY DEF Contract!Next, Contract!Decide, Contract!Approve, Contract!Change, Contract!Governed,
     Lifecycle!Next, Lifecycle!Decide, Lifecycle!Approve, Lifecycle!Change, Lifecycle!Governed
<1>3. UNCHANGED Contract!governedVars => UNCHANGED Lifecycle!lifecycleVars
  BY <1>1 DEF Contract!governedVars, Lifecycle!lifecycleVars, Lifecycle!governedVars
<1> QED
  BY <1>1, <1>2, <1>3 DEF Lifecycle!LifecycleNext

\* The steps of a destroy that can be seen: it shows the stack, gets its consent,
\* removes a resource, or is over.
LEMMA DestroyImplements ==
    ASSUME DestroyTypeOK, LifecycleInv, NEW s \in Stack, DestroyStep(s)
    PROVE  [Lifecycle!LifecycleNext]_(Lifecycle!lifecycleVars)
<1> DEFINE shown == [t \in Stack |-> Shown(t)]
           consent == [t \in Stack |-> destroyPc[t] \in {"approved", "destroying"}]
<1>1. /\ destroyPc \in [Stack -> DestroyPc]
      /\ infra \in [Stack -> Infra]
      /\ destroyPlan \in [Stack -> SavedPlan]
  BY DEF DestroyTypeOK, TypeOK, TerraformTypeOK
<1>2. UNCHANGED <<result, approvalPc>>
  BY DestroyEffect DEF gateVars, approvalVars
<1>3. /\ shown' = [shown EXCEPT ![s] = Shown(s)']
      /\ consent' = [consent EXCEPT ![s] = destroyPc'[s] \in {"approved", "destroying"}]
  BY ShownMoves, DestroyMoves
<1>4. CASE PlanDestroy(s)
  <2>1. /\ UNCHANGED infra
        /\ Shown(s) = Nothing
        /\ Shown(s)' = infra[s]
        /\ destroyPc[s] \notin {"approved", "destroying"}
        /\ destroyPc'[s] \notin {"approved", "destroying"}
    BY <1>1, <1>4 DEF PlanDestroy, DestroyAt, Shown, PlanOf, vars, tfVars
  <2>2. \E a \in Address : infra[s][a] # Absent
    BY <1>4 DEF PlanDestroy, Changes, NothingDeployed
  <2>3. UNCHANGED consent
    <3>1. \A t \in Stack : (destroyPc'[t] \in {"approved", "destroying"})
                              = (destroyPc[t] \in {"approved", "destroying"})
      BY <1>1, <1>4, <2>1 DEF PlanDestroy
    <3> QED
      BY <3>1, Zenon
  <2>4. Lifecycle!Show(s)
    BY <1>2, <1>3, <2>1, <2>2, <2>3 DEF Lifecycle!Show, Lifecycle!governedVars
  <2> QED
    BY <2>4 DEF Lifecycle!LifecycleNext
<1>5. CASE ApproveDestroy(s)
  <2>1. /\ UNCHANGED infra
        /\ Shown(s)' = Shown(s)
        /\ Shown(s) # Nothing
        /\ destroyPc'[s] = "approved"
    BY <1>1, <1>5, DestroyAssumption DEF ApproveDestroy, DestroyAt, DestroyTo, Shown, SavedPlan, vars, tfVars
  <2>2. UNCHANGED shown
    BY <1>3, <2>1
  <2>3. consent' = [consent EXCEPT ![s] = TRUE]
    BY <1>3, <2>1
  <2>4. Lifecycle!Consent(s)
    BY <1>2, <2>1, <2>2, <2>3 DEF Lifecycle!Consent, Lifecycle!governedVars
  <2> QED
    BY <2>4 DEF Lifecycle!LifecycleNext
<1>6. CASE DestroyResource(s)
  <2>1. /\ Current(s, destroyPlan[s], NothingDeployed)
        /\ Shown(s) = destroyPlan[s].from
        /\ destroyPc[s] \in {"approved", "destroying"}
        /\ UNCHANGED <<destroyPc, destroyPlan>>
    BY <1>6 DEF DestroyResource, DestroyAt, LifecycleInv, PlansAreCurrent, Shown, destroyVars
  <2>2. PICK a \in Address :
           infra' = [infra EXCEPT ![s] = [infra[s] EXCEPT ![a] = Absent]]
    BY <1>6 DEF DestroyResource, ApplyResource, Changes, NothingDeployed
  <2>3. UNCHANGED <<shown, consent>>
    BY <2>1 DEF Shown
  <2>4. \A b \in Address : infra[s][b] \in {shown[s][b], Absent}
    BY <2>1 DEF Current, NothingDeployed
  <2>5. Lifecycle!Remove(s, a)
    BY <1>2, <2>1, <2>2, <2>3, <2>4 DEF Lifecycle!Remove, Lifecycle!destroyedVars
  <2> QED
    BY <2>5 DEF Lifecycle!LifecycleNext
<1>7. ASSUME UNCHANGED infra,
             destroyPc'[s] \in {"idle", "validating", "planning", "verifying"}
      PROVE  Lifecycle!Close(s)
  <2>1. Shown(s)' = Nothing
    BY <1>7 DEF Shown
  <2>2. shown' = [shown EXCEPT ![s] = Nothing]
    BY <1>3, <2>1
  <2>3. consent' = [consent EXCEPT ![s] = FALSE]
    <3>1. (destroyPc'[s] \in {"approved", "destroying"}) = FALSE
      BY <1>7
    <3> HIDE DEF consent
    <3> QED
      BY <1>3, <3>1, Zenon
  <2> QED
    BY <1>2, <1>7, <2>2, <2>3 DEF Lifecycle!Close, Lifecycle!governedVars
<1>8. CASE DestroyStarts(s) \/ \E q \in Request : QueueDestroy(s, q)
  <2>1. /\ UNCHANGED <<infra, destroyPlan>>
        /\ \/ UNCHANGED destroyPc
           \/ destroyPc[s] = "approved" /\ destroyPc'[s] = "destroying"
    BY <1>1, <1>8 DEF DestroyStarts, QueueDestroy, AcquireForPlan, DestroyAt, DestroyTo, vars, tfVars
  <2>2. UNCHANGED <<shown, consent>>
    <3>1. Shown(s)' = Shown(s) /\ (destroyPc'[s] \in {"approved", "destroying"})
                                      = (destroyPc[s] \in {"approved", "destroying"})
      BY <2>1 DEF Shown
    <3>2. UNCHANGED shown
      BY <1>3, <3>1
    <3>3. UNCHANGED consent
      <4>1. consent' = [consent EXCEPT ![s] = destroyPc[s] \in {"approved", "destroying"}]
        BY <1>3, <3>1
      <4> QED
        BY <4>1
    <3> QED
      BY <3>2, <3>3
  <2> QED
    BY <1>2, <2>1, <2>2 DEF Lifecycle!lifecycleVars, Lifecycle!governedVars, Lifecycle!destroyedVars
<1>9. CASE ~(\/ PlanDestroy(s) \/ ApproveDestroy(s) \/ DestroyResource(s) \/ DestroyStarts(s)
             \/ \E q \in Request : QueueDestroy(s, q))
  <2>1. /\ UNCHANGED infra
        /\ destroyPc'[s] \in {"idle", "validating", "planning", "verifying"}
    BY <1>1, <1>9 DEF DestroyStep, DestroyProgress, DispatchDestroy, Admit, AcceptRequest,
       RefuseRequest, NothingToDestroy, RejectDestroy, DestroyFindsStalePlan, DestroyCompletes,
       VerifyGone, DestroyLockTimesOut, DestroyPlanDies, DestroyFails, DestroyJobBroken,
       DestroyBegins, DestroyTo, DestroyOver, LeaveLock, Release, vars, tfVars
  <2> QED
    BY <1>7, <2>1 DEF Lifecycle!LifecycleNext
<1> QED
  BY <1>4, <1>5, <1>6, <1>8, <1>9

\* Every behaviour of the two workflows is one their contract allows: a resource
\* comes as the cost gate lets it and goes only under a consent to what was shown.
THEOREM LifecycleImplementsContract == DestroySpec => ImplementsLifecycle
<1>1. DestroyInit => Lifecycle!LifecycleInit
  <2> SUFFICES ASSUME DestroyInit PROVE Lifecycle!LifecycleInit
    OBVIOUS
  <2>1. Lifecycle!Init
    BY ContractInit DEF DestroyInit, Contract!Init, Lifecycle!Init
  <2>2. [s \in Stack |-> Shown(s)] = [s \in Stack |-> Nothing]
    BY DEF DestroyInit, Shown
  <2>3. [s \in Stack |-> destroyPc[s] \in {"approved", "destroying"}] = [s \in Stack |-> FALSE]
    <3>1. \A s \in Stack : destroyPc[s] = "idle"
      BY DEF DestroyInit
    <3>2. ASSUME NEW s \in Stack PROVE (destroyPc[s] \in {"approved", "destroying"}) = FALSE
      BY <3>1
    <3> QED
      BY <3>2, Zenon
  <2> QED
    BY <2>1, <2>2, <2>3 DEF Lifecycle!LifecycleInit
<1>2. DestroyTypeOK /\ LifecycleInv /\ [DestroyNext]_allVars
         => [Lifecycle!LifecycleNext]_(Lifecycle!lifecycleVars)
  <2> SUFFICES ASSUME DestroyTypeOK, LifecycleInv, [DestroyNext]_allVars
               PROVE  [Lifecycle!LifecycleNext]_(Lifecycle!lifecycleVars)
    OBVIOUS
  <2>1. CASE UNCHANGED allVars
    BY <2>1 DEF allVars, vars, gateVars, approvalVars, tfVars, destroyVars, Shown,
       Lifecycle!lifecycleVars, Lifecycle!governedVars, Lifecycle!destroyedVars
  <2>2. ASSUME NEW r \in Run, PipelineStep(r)
        PROVE  [Lifecycle!LifecycleNext]_(Lifecycle!lifecycleVars)
    <3>1. TypeOK /\ PipelineInv
      BY DEF DestroyTypeOK, LifecycleInv
    <3>2. [Contract!Next]_(Contract!governedVars)
      BY <2>2, <3>1, BarrierImplements, GateImplements, ApprovalImplements, DeployImplements
      DEF PipelineStep, RunStep
    <3> QED
      BY <2>2, <3>2, ContractIsLifecycle DEF PipelineStep
  <2> QED
    BY <2>1, <2>2, DestroyImplements DEF DestroyNext
<1> QED
  BY <1>1, <1>2, LifecycleInvariant, PTL DEF DestroySpec, ImplementsLifecycle, Lifecycle!LifecycleSpec

=============================================================================
