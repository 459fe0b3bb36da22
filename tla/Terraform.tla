----------------------------- MODULE Terraform -----------------------------
(***************************************************************************)
(* The remote Terraform state of every registered stack, as the workflows   *)
(* use it: one state object per state key, an S3 lock file per object       *)
(* (use_lockfile=true), a serial number that every write advances, and      *)
(* saved plans that refer to the serial they were computed from.            *)
(*                                                                          *)
(* Terraform itself is not part of the repository.  Its commands are        *)
(* modelled from the flags the workflows pass to them: `show` and           *)
(* `plan -lock=false` read without the lock, `plan -lock-timeout=5m` takes  *)
(* it for the duration of the plan, `apply <saved plan>` holds it while it  *)
(* changes one resource after another and refuses a plan whose serial is    *)
(* no longer the current one.                                               *)
(***************************************************************************)
EXTENDS Integers

CONSTANTS
    Stack,      \* the stacks of config/finops-stacks.yml, one state key each
    Address,    \* the resource addresses a stack can declare
    Attr,       \* what a resource can be configured as (its size, its tier)
    Absent,     \* the resource is not in the state (or in the configuration)
    Holder,     \* the runs, of any workflow, that can hold a state lock
    NoRun       \* nobody holds it

ASSUME TerraformAssumption ==
    /\ Absent \notin Attr
    /\ NoRun \notin Holder

VARIABLES
    infra,      \* the resources recorded in each stack's remote state
    serial,     \* the serial of that state
    tfLock      \* the run holding its lock file

tfVars == <<infra, serial, tfLock>>

\* A configuration (what the .tf files declare) and a state (what exists) have
\* the same shape.
Infra == [Address -> Attr \cup {Absent}]

NothingDeployed == [a \in Address |-> Absent]

TerraformTypeOK ==
    /\ infra \in [Stack -> Infra]
    /\ serial \in [Stack -> Nat]
    /\ tfLock \in [Stack -> Holder \cup {NoRun}]

\* The resources the plan from state x to configuration y would delete.  A
\* replace counts as a delete of one address and a create of another.
Deletions(x, y) == {a \in Address : x[a] # Absent /\ y[a] = Absent}

\* The resource changes still to be made to turn state x into configuration y.
Changes(x, y) == {a \in Address : x[a] # y[a]}

(* --- commands ---------------------------------------------------------- *)

\* Mutant: the lock is not waited for (-lock=false).
LockIgnored(s) == TRUE

LockFree(s) == tfLock[s] = NoRun

\* Mutant: `terraform apply` without the saved plan, which plans once more.
AcquireForApply(r, s, planSerial) ==
    /\ LockFree(s)
    /\ tfLock' = [tfLock EXCEPT ![s] = r]
    /\ UNCHANGED <<infra, serial>>

\* `terraform apply <saved plan>` starts: it needs the lock and a plan whose
\* serial is still the serial of the state.
AcquireForPlan(r, s, planSerial) ==
    /\ LockFree(s)
    /\ serial[s] = planSerial
    /\ tfLock' = [tfLock EXCEPT ![s] = r]
    /\ UNCHANGED <<infra, serial>>

StalePlan(s, planSerial) ==
    /\ LockFree(s)
    /\ serial[s] # planSerial

\* Mutant: a change that leaves the serial as it was.
ApplyResourceUncounted(r, s, target) ==
    /\ tfLock[s] = r
    /\ \E a \in Changes(infra[s], target) :
          infra' = [infra EXCEPT ![s] = [infra[s] EXCEPT ![a] = target[a]]]
    /\ UNCHANGED <<serial, tfLock>>

\* One resource operation of the apply, persisted in the remote state.
ApplyResource(r, s, target) ==
    /\ tfLock[s] = r
    /\ \E a \in Changes(infra[s], target) :
          infra' = [infra EXCEPT ![s] = [infra[s] EXCEPT ![a] = target[a]]]
    /\ serial' = [serial EXCEPT ![s] = serial[s] + 1]
    /\ UNCHANGED tfLock

\* A command that dies while it holds the lock leaves the lock file behind.
LeaveLock(r, s) ==
    /\ LockFree(s)
    /\ tfLock' = [tfLock EXCEPT ![s] = r]
    /\ UNCHANGED <<infra, serial>>

Release(s) ==
    /\ tfLock' = [tfLock EXCEPT ![s] = NoRun]
    /\ UNCHANGED <<infra, serial>>

============================================================================
