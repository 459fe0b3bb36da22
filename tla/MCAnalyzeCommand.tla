-------------------------- MODULE MCAnalyzeCommand --------------------------
(***************************************************************************)
(* Small instances of AnalyzeCommand for TLC: one or two stacks, two        *)
(* changes, and the estimates and policies in which they differ.            *)
(***************************************************************************)
EXTENDS AnalyzeCommand

CONSTANTS web, api

MCChange == {"resize", "grow"}

\* The two changes differ in what the fingerprint covers.
MCFingerprint == [c \in Change |-> c]

Priced(previous, new) ==
    [previous |-> previous, new |-> new, authoritative |-> TRUE, currency |-> "USD",
     unsupported |-> 0, noPrice |-> 0]

\* Within the threshold, over it, from nothing; from a test double; with a
\* resource nobody can price.
MCEstimates ==
    [c \in Change |->
        IF c = "resize"
        THEN {Priced(50, 100), Priced(50, 400), [Priced(50, 60) EXCEPT !.authoritative = FALSE]}
        ELSE {Priced(0, 80), [Priced(50, 60) EXCEPT !.unsupported = 1]}]

\* config/finops-policy.yaml with a threshold of 100.
Yaml ==
    [metric |-> "incremental_monthly_cost", threshold |-> 100, currency |-> "USD",
     equalityIsPass |-> TRUE, allowReductions |-> TRUE, allowNonAuthoritative |-> FALSE,
     onUnsupported |-> "WARN", onUnknown |-> "WARN", aiBlocks |-> FALSE, bindToPlan |-> TRUE]

MCPolicies ==
    {Yaml, [Yaml EXCEPT !.allowNonAuthoritative = TRUE],
     [Yaml EXCEPT !.threshold = 500, !.aiBlocks = TRUE],
     [Yaml EXCEPT !.metric = "incremental_percentage", !.bindToPlan = FALSE]}

PlainPolicies == {Yaml, [Yaml EXCEPT !.metric = "incremental_percentage"]}

=============================================================================
