-------------------------- MODULE MCFinOpsPipeline --------------------------
(***************************************************************************)
(* Small instances of FinOpsPipeline for TLC.  A stack has two resources,   *)
(* the first of which comes in two sizes; a size costs 60 (dollars a        *)
(* month) more than the one below it, and the threshold is 100.             *)
(***************************************************************************)
EXTENDS FinOpsPipeline, Functions, TLC

CONSTANTS web, api

MCAddress == {"instance", "volume"}

\* small -> large and large -> both pass; small -> both and an empty stack to
\* large or both exceed the threshold; both -> large deletes a resource.
Shape(instance, volume) == [a \in MCAddress |-> IF a = "instance" THEN instance ELSE volume]

MCCommit == {"small", "large", "both"}

OneStackContent ==
    [c \in Commit |-> [s \in Stack |->
        CASE c = "small" -> Shape(1, 0)
          [] c = "large" -> Shape(2, 0)
          [] c = "both" -> Shape(2, 1)]]

OneStackTouches == [c \in Commit |-> Stack]

\* Two stacks: one commit is cheap for both, one is dear for both, and one is
\* dear for api and cheap for web.
TwoStackCommit == {"cheap", "dear", "dearApi"}

TwoStackContent ==
    [c \in Commit |-> [s \in Stack |->
        IF c = "dear" \/ (c = "dearApi" /\ s = api) THEN Shape(2, 1) ELSE Shape(1, 0)]]

TwoStackTouches == [c \in Commit |-> Stack]

\* Runs are interchangeable.
RunSymmetry == Permutations(Run)

MCCost == [x \in [Address -> Attr \cup {Absent}] |->
              FoldFunction(LAMBDA n, total : 60 * n + total, 0, x)]

=============================================================================
