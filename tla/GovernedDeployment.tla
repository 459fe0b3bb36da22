------------------------- MODULE GovernedDeployment -------------------------
(***************************************************************************)
(* What the cost gate promises, without the workflow that keeps the         *)
(* promise.  Runs reach verdicts on stacks, a reviewer may approve a run's  *)
(* FAIL, and the infrastructure of a stack changes only one resource at a   *)
(* time, never by a deletion, on behalf of a run that passed or was         *)
(* approved, and only if the registry lets the stack be deployed.           *)
(*                                                                          *)
(*   verdict    the status of each run for each stack; an ERROR is a        *)
(*              verdict too, one nobody can approve                         *)
(*   approved   whether a reviewer's approval has been recorded             *)
(*   infra      the resources deployed for each stack                       *)
(***************************************************************************)
CONSTANTS Run, Stack, Deployable, Address, Attr, Absent

VARIABLES verdict, approved, infra

governedVars == <<verdict, approved, infra>>

Init ==
    /\ verdict = [r \in Run |-> [s \in Stack |-> "NONE"]]
    /\ approved = [r \in Run |-> [s \in Stack |-> FALSE]]
    /\ infra \in [Stack -> [Address -> Attr \cup {Absent}]]

Decide(r, s, status) ==
    /\ verdict[r][s] = "NONE"
    /\ verdict' = [verdict EXCEPT ![r][s] = status]
    /\ UNCHANGED <<approved, infra>>

Approve(r, s) ==
    /\ verdict[r][s] = "FAIL"
    /\ approved' = [approved EXCEPT ![r][s] = TRUE]
    /\ UNCHANGED <<verdict, infra>>

Governed(r, s) ==
    /\ s \in Deployable
    /\ \/ verdict[r][s] = "PASS"
       \/ verdict[r][s] = "FAIL" /\ approved[r][s]

Change(r, s, a, attr) ==
    /\ Governed(r, s)
    /\ infra' = [infra EXCEPT ![s] = [infra[s] EXCEPT ![a] = attr]]
    /\ UNCHANGED <<verdict, approved>>

Next ==
    \E r \in Run, s \in Stack :
        \/ \E status \in {"PASS", "FAIL", "ERROR"} : Decide(r, s, status)
        \/ Approve(r, s)
        \/ \E a \in Address, attr \in Attr : Change(r, s, a, attr)

Spec == Init /\ [][Next]_governedVars

=============================================================================
