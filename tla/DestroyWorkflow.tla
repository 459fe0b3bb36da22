--------------------------- MODULE DestroyWorkflow ---------------------------
(***************************************************************************)
(* The destroy workflow (.github/workflows/terraform-test-destroy.yml)      *)
(* together with the cost gate workflow, over the Terraform state they      *)
(* share.                                                                   *)
(*                                                                          *)
(* A destroy is dispatched for one stack and goes through its jobs:         *)
(*    validate-destroy     check the request against the registry, plan     *)
(*                         the destroy, upload the saved plan               *)
(*    destroy-approval     wait for the reviewer of that plan               *)
(*    destroy              apply the saved plan, never a new one            *)
(*    post-destroy-verify  look whether the resources are gone              *)
(* Its concurrency group lets one destroy of a stack run and one wait; it   *)
(* covers destroys only.  What keeps a destroy and a deploy of one stack    *)
(* apart is the state lock and the serial of the saved plans.               *)
(*                                                                          *)
(* A place in the group is all that tells two destroys of one stack apart,  *)
(* so that a destroy is named by its stack, and there is no bound on how    *)
(* many there are one after the other.                                      *)
(***************************************************************************)
EXTENDS FinOpsPipeline

CONSTANTS
    Destroyer,      \* whoever runs a destroy, as the holder of a state lock
    Cloud,          \* the clouds of its dropdown
    CloudOf,        \* CloudOf[s]: the cloud stack s is registered for
    Nothing         \* no request, nothing shown

\* The inputs of a dispatch, but for the stack.
Request == [cloud : Cloud, confirmed : BOOLEAN]

ASSUME DestroyAssumption ==
    /\ Destroyer \in Holder \ Run
    /\ CloudOf \in [Stack -> Cloud]
    /\ Nothing \notin Request
    /\ Nothing \notin Infra

VARIABLES
    destroyPc,      \* where the running destroy of each stack stands
    request,        \* the inputs it was dispatched with
    destroyPlan,    \* the saved plan it uploaded: [from, serial]
    pending         \* the inputs of the destroy that waits for it to end

destroyVars == <<destroyPc, request, destroyPlan, pending>>
allVars == <<vars, destroyVars>>

-----------------------------------------------------------------------------
DestroyPc == {"idle", "validating", "planning", "review", "approved",
              "destroying", "verifying"}

DestroyTypeOK ==
    /\ TypeOK
    /\ destroyPc \in [Stack -> DestroyPc]
    /\ request \in [Stack -> Request \cup {Nothing}]
    /\ destroyPlan \in [Stack -> SavedPlan]
    /\ pending \in [Stack -> Request \cup {Nothing}]

NoDestroyPlan == [from |-> NothingDeployed, serial |-> 0]

DestroyInit ==
    /\ Init
    /\ destroyPc = [s \in Stack |-> "idle"]
    /\ request = [s \in Stack |-> Nothing]
    /\ destroyPlan = [s \in Stack |-> NoDestroyPlan]
    /\ pending = [s \in Stack |-> Nothing]

DestroyAt(s, pc) == destroyPc[s] = pc

DestroyTo(s, pc) ==
    /\ destroyPc' = [destroyPc EXCEPT ![s] = pc]
    /\ UNCHANGED <<request, destroyPlan, pending>>

\* Success or not, nobody asks an ended run anything any more.
DestroyOver(s) ==
    /\ destroyPc' = [destroyPc EXCEPT ![s] = "idle"]
    /\ request' = [request EXCEPT ![s] = Nothing]
    /\ destroyPlan' = [destroyPlan EXCEPT ![s] = NoDestroyPlan]
    /\ UNCHANGED pending

(* --- the concurrency group ------------------------------------------------ *)

DestroyBegins(s, q) ==
    /\ destroyPc' = [destroyPc EXCEPT ![s] = "validating"]
    /\ request' = [request EXCEPT ![s] = q]
    /\ UNCHANGED destroyPlan

GroupFree(s) == DestroyAt(s, "idle") /\ pending[s] = Nothing

\* workflow_dispatch, into a free group,
DispatchDestroy(s, q) ==
    /\ GroupFree(s)
    /\ DestroyBegins(s, q)
    /\ UNCHANGED <<pending, vars>>

\* ... or into a busy one (a run that waits for its review keeps it busy), where it
\* takes the place of the run that waited before it, which is cancelled.
QueueDestroy(s, q) ==
    /\ ~GroupFree(s)
    /\ pending' = [pending EXCEPT ![s] = q]
    /\ UNCHANGED <<destroyPc, request, destroyPlan, vars>>

\* Mutant: lets nobody in while the state is locked.
AdmitUnlocked(s) ==
    /\ DestroyAt(s, "idle")
    /\ pending[s] # Nothing
    /\ LockFree(s)
    /\ DestroyBegins(s, pending[s])
    /\ pending' = [pending EXCEPT ![s] = Nothing]
    /\ UNCHANGED vars

\* The group became free.
Admit(s) ==
    /\ DestroyAt(s, "idle")
    /\ pending[s] # Nothing
    /\ DestroyBegins(s, pending[s])
    /\ pending' = [pending EXCEPT ![s] = Nothing]
    /\ UNCHANGED vars

(* --- validate-destroy ------------------------------------------------------- *)

\* DESTROY was typed, the registry lets the stack be deployed and has it in the
\* cloud that was selected.  (Its environment and the shape of its state key are
\* facts of the registry alone: a stack refused for them is not in Deployable.)
Accepted(s) ==
    /\ request[s].confirmed
    /\ s \in Deployable
    /\ request[s].cloud = CloudOf[s]

AcceptRequest(s) ==
    /\ DestroyAt(s, "validating")
    /\ Accepted(s)
    /\ DestroyTo(s, "planning")
    /\ UNCHANGED vars

RefuseRequest(s) ==
    /\ DestroyAt(s, "validating")
    /\ ~Accepted(s)
    /\ DestroyOver(s)
    /\ UNCHANGED vars

\* Mutant: the saved plan carries the serial before the one it was made from.
PlanOfOff(s) == [from |-> infra[s], serial |-> serial[s] - 1]

PlanOf(s) == [from |-> infra[s], serial |-> serial[s]]

\* `terraform plan -destroy`, its fingerprint, the upload.
PlanDestroy(s) ==
    /\ DestroyAt(s, "planning")
    /\ LockFree(s)
    /\ Changes(infra[s], NothingDeployed) # {}
    /\ destroyPc' = [destroyPc EXCEPT ![s] = "review"]
    /\ destroyPlan' = [destroyPlan EXCEPT ![s] = PlanOf(s)]
    /\ UNCHANGED <<request, pending, vars>>

\* A plan that would destroy nothing is refused.
NothingToDestroy(s) ==
    /\ DestroyAt(s, "planning")
    /\ LockFree(s)
    /\ Changes(infra[s], NothingDeployed) = {}
    /\ DestroyOver(s)
    /\ UNCHANGED vars

\* The runner is lost while it plans, and the lock file stays.
DestroyPlanDies(s) ==
    /\ DestroyAt(s, "planning")
    /\ s \in Faulty
    /\ LeaveLock(Destroyer, s)
    /\ DestroyOver(s)
    /\ UNCHANGED <<head, run, gateVars, approvalVars, deployVars>>

(* --- destroy-approval ------------------------------------------------------- *)

ApproveDestroy(s) ==
    /\ DestroyAt(s, "review")
    /\ DestroyTo(s, "approved")
    /\ UNCHANGED vars

\* By the reviewer, or by GitHub after thirty days.
RejectDestroy(s) ==
    /\ DestroyAt(s, "review")
    /\ DestroyOver(s)
    /\ UNCHANGED vars

(* --- destroy ------------------------------------------------------------------ *)

\* Mutant: planned once more, as the deploy job does.
ApprovedPlanFresh(s) == PlanOf(s)

\* The plan downloaded by the id of this run, whose fingerprint, stack,
\* environment and state key are compared with those of validate-destroy.
ApprovedPlan(s) == destroyPlan[s]

DestroyStarts(s) ==
    /\ DestroyAt(s, "approved")
    /\ AcquireForPlan(Destroyer, s, ApprovedPlan(s).serial)
    /\ DestroyTo(s, "destroying")
    /\ UNCHANGED <<head, run, gateVars, approvalVars, deployVars>>

DestroyFindsStalePlan(s) ==
    /\ DestroyAt(s, "approved")
    /\ StalePlan(s, ApprovedPlan(s).serial)
    /\ DestroyOver(s)
    /\ UNCHANGED vars

DestroyResource(s) ==
    /\ DestroyAt(s, "destroying")
    /\ ApplyResource(Destroyer, s, NothingDeployed)
    /\ UNCHANGED <<destroyVars, head, run, gateVars, approvalVars, deployVars>>

DestroyCompletes(s) ==
    /\ DestroyAt(s, "destroying")
    /\ Changes(infra[s], NothingDeployed) = {}
    /\ Release(s)
    /\ DestroyTo(s, "verifying")
    /\ UNCHANGED <<head, run, gateVars, approvalVars, deployVars>>

\* A provider error; what is gone stays gone and no later job runs.
DestroyFails(s) ==
    /\ DestroyAt(s, "destroying")
    /\ s \in Faulty
    /\ Release(s)
    /\ DestroyOver(s)
    /\ UNCHANGED <<head, run, gateVars, approvalVars, deployVars>>

\* The checks only read; they fail if a deploy has been quicker than they are.
VerifyGone(s) ==
    /\ DestroyAt(s, "verifying")
    /\ DestroyOver(s)
    /\ UNCHANGED vars

(* --- at any time ---------------------------------------------------------------- *)

\* A step fails or the runner is lost; an apply that dies leaves its lock file.
DestroyJobBroken(s) ==
    /\ destroyPc[s] \notin {"idle", "review"}
    /\ s \in Faulty
    /\ DestroyOver(s)
    /\ UNCHANGED vars

\* Mutant: a locked state is waited for without end.
DestroyLockNeverTimesOut(s) == FALSE

\* The five minutes of -lock-timeout are over.
DestroyLockTimesOut(s) ==
    /\ destroyPc[s] \in {"planning", "approved"}
    /\ ~LockFree(s)
    /\ DestroyOver(s)
    /\ UNCHANGED vars

-----------------------------------------------------------------------------
\* What a destroy does unless something breaks it.
DestroyProgress(s) ==
    \/ Admit(s)
    \/ AcceptRequest(s)
    \/ RefuseRequest(s)
    \/ PlanDestroy(s)
    \/ NothingToDestroy(s)
    \/ ApproveDestroy(s)
    \/ RejectDestroy(s)
    \/ DestroyStarts(s)
    \/ DestroyFindsStalePlan(s)
    \/ DestroyResource(s)
    \/ DestroyCompletes(s)
    \/ VerifyGone(s)
    \/ DestroyLockTimesOut(s)

DestroyStep(s) ==
    \/ \E q \in Request : DispatchDestroy(s, q) \/ QueueDestroy(s, q)
    \/ DestroyProgress(s)
    \/ DestroyPlanDies(s)
    \/ DestroyFails(s)
    \/ DestroyJobBroken(s)

PipelineStep(r) == (Trigger(r) \/ RunStep(r)) /\ UNCHANGED destroyVars

DestroyNext ==
    \/ \E r \in Run : PipelineStep(r)
    \/ \E s \in Stack : DestroyStep(s)

DestroySpec == DestroyInit /\ [][DestroyNext]_allVars

\* As for the cost gate: jobs that can go on do, reviews are answered or expire,
\* a free group admits who waits for it; nobody owes a dispatch or a fault.
DestroyFairSpec ==
    /\ DestroySpec
    /\ \A r \in Run : WF_allVars(Progress(r) /\ UNCHANGED destroyVars)
    /\ \A s \in Stack : WF_allVars(DestroyProgress(s))

-----------------------------------------------------------------------------
(* --- what the two workflows guarantee together --------------------------------- *)

Shown(s) ==
    IF destroyPc[s] \in {"review", "approved", "destroying"} THEN destroyPlan[s].from ELSE Nothing

Lifecycle == INSTANCE GovernedLifecycle WITH
    verdict <- result,
    approved <- [r \in Run |-> [s \in Stack |-> approvalPc[r][s] = "recorded"]],
    shown <- [s \in Stack |-> Shown(s)],
    consent <- [s \in Stack |-> destroyPc[s] \in {"approved", "destroying"}]

\* Days may lie between the plan a reviewer of a destroy reads and its apply, with
\* deploys of the same stack in between, which the concurrency group does not
\* stop: still a resource goes only if it is the one that was shown, and resources
\* come only as the cost gate lets them.
ImplementsLifecycle == Lifecycle!LifecycleSpec

\* The runs that are changing a stack.
Writers(s) ==
    {r \in Run : deployPc[r][s] = "applying"}
        \cup (IF DestroyAt(s, "destroying") THEN {Destroyer} ELSE {})

\* A deploy and a destroy never change one stack at once, nor do two deploys, even
\* when a runner that was lost has left its lock behind.
OneWriterPerStack ==
    \A s \in Stack : \A w, x \in Writers(s) : w = x

\* A stack being changed by an apply of this plan, which turns it into the target.
Current(s, plan, target) == \A a \in Address : infra[s][a] \in {plan.from[a], target[a]}

\* Whoever changes a stack finds each resource as it was when the plan was made,
\* or as the plan makes it: nothing else has touched the stack since.
PlansAreCurrent ==
    \A s \in Stack :
        /\ \A r \in Run :
              deployPc[r][s] = "applying" => Current(s, deployPlan[r][s], Target(r, s))
        /\ DestroyAt(s, "destroying") => Current(s, destroyPlan[s], NothingDeployed)

\* Every destroy comes to an end, rejected, broken or through, ...
DestroysSettle == \A s \in Stack : ~DestroyAt(s, "idle") ~> DestroyAt(s, "idle")

\* ... and whoever waits for it is let in, if it is not replaced: no destroy and no
\* abandoned lock keeps the group busy for ever.
GroupIsReleased == \A s \in Stack : pending[s] # Nothing ~> pending[s] = Nothing

-----------------------------------------------------------------------------
(* --- why they do ------------------------------------------------------------------ *)

\* What has been shown is still there unless the serial has moved on, and is then
\* removed by one destroy alone, which holds the lock.
ShownInv(s) ==
    /\ destroyPc[s] \in {"review", "approved"}
          => /\ destroyPlan[s].serial <= serial[s]
             /\ destroyPlan[s].serial = serial[s] => destroyPlan[s].from = infra[s]
    /\ DestroyAt(s, "destroying") => tfLock[s] = Destroyer

\* What every reachable state of the two workflows satisfies.
LifecycleInv ==
    /\ PipelineInv
    /\ PlansAreCurrent
    /\ \A s \in Stack : ShownInv(s)

=============================================================================
