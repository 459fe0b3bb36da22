---------------------------- MODULE PolicyEngine ----------------------------
(***************************************************************************)
(* The deterministic decision functions of the engine: the policy of        *)
(* src/finops/policy/engine.py and the authorization functions of           *)
(* src/finops/gate.py.  Pure operators, shared by the modules that model    *)
(* the commands and the workflow that call them.                            *)
(*                                                                          *)
(* Money is a whole number of cents, the unit to which the engine rounds    *)
(* every figure it stores.  A threshold is a whole number of hundredths of  *)
(* the metric's unit (cents, or hundredths of a percent).                   *)
(***************************************************************************)
EXTENDS Integers

Status == {"PASS", "FAIL", "ERROR"}

Metric == {"incremental_monthly_cost", "incremental_annual_cost",
           "total_monthly_cost", "incremental_percentage"}

(***************************************************************************)
(* A cost estimate: [previous, new, authoritative, currency, unsupported,   *)
(* noPrice].  The increment is the difference the estimator reports.        *)
(***************************************************************************)
Increment(e) == e.new - e.previous

(***************************************************************************)
(* The value the threshold is compared with, as a fraction.  A percentage   *)
(* of a zero baseline is zero when nothing was added and infinite (a zero   *)
(* denominator) when something was.                                         *)
(***************************************************************************)
Observed(e, metric) ==
    CASE metric = "incremental_monthly_cost" -> [num |-> Increment(e), den |-> 1]
      [] metric = "incremental_annual_cost" -> [num |-> 12 * Increment(e), den |-> 1]
      [] metric = "total_monthly_cost" -> [num |-> e.new, den |-> 1]
      [] metric = "incremental_percentage" ->
            IF e.previous = 0
            THEN IF Increment(e) <= 0 THEN [num |-> 0, den |-> 1] ELSE [num |-> 1, den |-> 0]
            ELSE [num |-> 10000 * Increment(e), den |-> e.previous]

Infinite(o) == o.den = 0

(***************************************************************************)
(* A policy: [metric, threshold, currency, equalityIsPass,                  *)
(* allowReductions, allowNonAuthoritative, onUnsupported, onUnknown].       *)
(***************************************************************************)
CannotBeTrusted(e, p) ==
    \/ ~e.authoritative /\ ~p.allowNonAuthoritative
    \/ e.currency # p.currency
    \/ e.unsupported > 0 /\ p.onUnsupported = "BLOCK"
    \/ e.noPrice > 0 /\ p.onUnknown = "BLOCK"

Within(o, p) ==
    \/ p.allowReductions /\ o.num < 0
    \/ ~Infinite(o) /\ o.num < p.threshold * o.den
    \/ ~Infinite(o) /\ p.equalityIsPass /\ o.num = p.threshold * o.den

\* Mutant: a warning is a status of its own.
EvaluateWarns(e, p) ==
    IF CannotBeTrusted(e, p) THEN "ERROR"
    ELSE IF e.unsupported > 0 THEN "WARN"
    ELSE IF Within(Observed(e, p.metric), p) THEN "PASS" ELSE "FAIL"

Evaluate(e, p) ==
    IF CannotBeTrusted(e, p) THEN "ERROR"
    ELSE IF Within(Observed(e, p.metric), p) THEN "PASS" ELSE "FAIL"

ExitCode(status) ==
    CASE status = "PASS" -> 0
      [] status = "FAIL" -> 1
      [] status = "ERROR" -> 2

(* --- authorization ------------------------------------------------------ *)

Decision == {"PASS", "BLOCK"}
Authorization == {"AUTHORIZED", "DENIED"}

\* Mutant: the label is the status.
DecisionLabelStatus(exitCode) == IF exitCode = 0 THEN "PASS" ELSE "FAIL"

DecisionLabel(exitCode) == IF exitCode = 0 THEN "PASS" ELSE "BLOCK"

(***************************************************************************)
(* action is the human's choice, "none" when there is none yet; problems    *)
(* says whether re-verifying an approval's bindings found any.              *)
(***************************************************************************)
EvaluateApproval(exitCode, action, problems, lockVerified) ==
    [decision |-> DecisionLabel(exitCode),
     approval |->
        IF exitCode = 0 THEN "NOT_REQUIRED"
        ELSE IF action = "reject" THEN "REJECTED"
        ELSE IF action = "approve" /\ exitCode = 1 /\ ~problems THEN "APPROVED"
        ELSE "PENDING",
     authorization |->
        IF \/ exitCode = 0 /\ lockVerified
           \/ exitCode = 1 /\ action = "approve" /\ ~problems
        THEN "AUTHORIZED" ELSE "DENIED"]

============================================================================
