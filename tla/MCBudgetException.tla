------------------------- MODULE MCBudgetException -------------------------
(***************************************************************************)
(* A small instance of BudgetException: two commits with the same cost-     *)
(* relevant change and different variables (a provider region).             *)
(***************************************************************************)
EXTENDS BudgetException

CONSTANTS local, abroad, author, peer

MCCommit == {local, abroad}

MCFingerprint == [c \in Commit |-> "resources"]

MCVariables == [c \in Commit |-> IF c = local THEN "region" ELSE "otherRegion"]

Priced(previous, new, unsupported) ==
    [previous |-> previous, new |-> new, authoritative |-> TRUE, currency |-> "USD",
     unsupported |-> unsupported, noPrice |-> 0]

\* The change costs 10 a month, or 12 or 16 once the prices have moved; abroad it
\* is a reduction of a bill that stays over the threshold, with
\* one resource unsupported.
MCEstimates ==
    [c \in Commit |-> IF c = local THEN {Priced(0, 10, 0), Priced(0, 12, 0), Priced(0, 16, 0)}
                      ELSE {Priced(40, 30, 1)}]

Base ==
    [metric |-> "total_monthly_cost", threshold |-> 8, currency |-> "USD",
     equalityIsPass |-> TRUE, allowReductions |-> TRUE, allowNonAuthoritative |-> FALSE,
     onUnsupported |-> "WARN", onUnknown |-> "WARN",
     enabled |-> TRUE, approvers |-> {author, peer}, maxTtl |-> 2, ratio |-> 150,
     nonAuthor |-> TRUE, needsReview |-> TRUE]

\* The policy in use, one with a shorter lifetime and less headroom, one with a higher threshold.
MCPolicies ==
    {Base, [Base EXCEPT !.maxTtl = 1, !.ratio = 120], [Base EXCEPT !.threshold = 12]}

\* A record of local, for either head, that names the author or peer, with a ceiling
\* and a date of approval that no command would give.
MCBodies ==
    {[head |-> h, fingerprint |-> "resources", variables |-> MCVariables[local],
      approved |-> 10, ceiling |-> 20, metric |-> Base.metric, threshold |-> Base.threshold,
      approver |-> IF h = local THEN author ELSE peer, approvedAt |-> 1, expiresAt |-> 3] : h \in Commit}

============================================================================
