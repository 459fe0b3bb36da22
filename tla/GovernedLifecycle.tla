-------------------------- MODULE GovernedLifecycle --------------------------
(***************************************************************************)
(* The governed deployment together with its opposite: what the two         *)
(* workflows over one Terraform state promise, without the workflows.       *)
(* Resources are created and updated as GovernedDeployment says.  They are  *)
(* removed only by a destroy that showed somebody the whole stack, got a    *)
(* consent to remove that, and finds every resource as it was shown or      *)
(* already gone: a consent never covers a resource that was deployed, or    *)
(* deployed differently, after the reviewer looked.                         *)
(*                                                                          *)
(*   shown      the resources of a stack as its destroy showed them         *)
(*   consent    whether the reviewer consented to removing them             *)
(***************************************************************************)
EXTENDS GovernedDeployment

CONSTANT Nothing

VARIABLES shown, consent

destroyedVars == <<shown, consent>>

lifecycleVars == <<governedVars, destroyedVars>>

LifecycleInit ==
    /\ Init
    /\ shown = [s \in Stack |-> Nothing]
    /\ consent = [s \in Stack |-> FALSE]

Show(s) ==
    /\ shown[s] = Nothing
    /\ \E a \in Address : infra[s][a] # Absent
    /\ shown' = [shown EXCEPT ![s] = infra[s]]
    /\ UNCHANGED <<consent, governedVars>>

Consent(s) ==
    /\ shown[s] # Nothing
    /\ consent' = [consent EXCEPT ![s] = TRUE]
    /\ UNCHANGED <<shown, governedVars>>

Remove(s, a) ==
    /\ consent[s]
    /\ \A b \in Address : infra[s][b] \in {shown[s][b], Absent}
    /\ infra' = [infra EXCEPT ![s] = [infra[s] EXCEPT ![a] = Absent]]
    /\ UNCHANGED <<verdict, approved, destroyedVars>>

\* The destroy is over, or was called off.
Close(s) ==
    /\ shown' = [shown EXCEPT ![s] = Nothing]
    /\ consent' = [consent EXCEPT ![s] = FALSE]
    /\ UNCHANGED governedVars

LifecycleNext ==
    \/ Next /\ UNCHANGED destroyedVars
    \/ \E s \in Stack :
        \/ Show(s)
        \/ Consent(s)
        \/ \E a \in Address : Remove(s, a)
        \/ Close(s)

LifecycleSpec == LifecycleInit /\ [][LifecycleNext]_lifecycleVars

=============================================================================
