-------------------------- MODULE MCDestroyWorkflow --------------------------
(***************************************************************************)
(* A small instance of DestroyWorkflow for TLC: destroys of one stack with  *)
(* a run of the cost gate in between.  A stack has two resources.           *)
(***************************************************************************)
EXTENDS DestroyWorkflow, Functions

MCAddress == {"instance", "volume"}

Shape(instance, volume) == [a \in MCAddress |-> IF a = "instance" THEN instance ELSE volume]

\* Dearer than the threshold on an empty stack, cheaper than it once a destroy or a
\* deploy has stopped half way.
MCContent == [c \in Commit |-> [s \in Stack |-> Shape(1, 1)]]

MCTouches == [c \in Commit |-> Stack]

MCCloudOf == [s \in Stack |-> "AWS"]

MCCost == [x \in [Address -> Attr \cup {Absent}] |->
              FoldFunction(LAMBDA n, total : 60 * n + total, 0, x)]

=============================================================================
