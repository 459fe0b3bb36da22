--------------------------- MODULE BudgetException ---------------------------
(***************************************************************************)
(* Budget exceptions (src/finops/lock/exception.py): the record with which  *)
(* the FAIL of one change is accepted, and what must still be true when it  *)
(* is used.  create-exception and approve write it; verify-exception and    *)
(* approval-verify read it, later, against a plan and an estimate computed  *)
(* afresh, under a policy, a pull request and a clock that have moved.      *)
(*                                                                          *)
(* The two verifications write nothing that is read back (the approval      *)
(* document is kept for audit), so they are the operator Verifies.  A       *)
(* record lies in the repository, where anyone may edit it.  The stack, the *)
(* Terraform root, the pull request number, the currency and the schema of  *)
(* a record are compared with an argument in the same way as its head and   *)
(* are left out.                                                            *)
(***************************************************************************)
EXTENDS PolicyEngine, Sequences, FiniteSets

CONSTANTS
    Commit,         \* the commits of the pull request
    Login,          \* GitHub users
    Author,         \* the author of the pull request
    Digest,         \* what plan fingerprints and variable hashes can be
    Fingerprint,    \* Fingerprint[c]: the cost-relevant change of commit c
    Variables,      \* Variables[c]: its resolved_variables_hash
    Estimates,      \* Estimates[c]: what commit c may be priced at, now or later
    Policies,       \* policies of PolicyEngine with the fields of ExceptionConfig
    Bodies,         \* what a record edited by hand may say
    Named,          \* the users a command is given as --approver
    Ceilings,       \* what --max-incremental-cost may be given as
    MaxTime,        \* bound on the clock, in days
    MaxReviews,     \* bound on the reviews of the pull request
    MaxRecords      \* bound on the records created

ASSUME ExceptionAssumption ==
    /\ Author \in Login
    /\ Fingerprint \in [Commit -> Digest]
    /\ Variables \in [Commit -> Digest]
    /\ Named \subseteq Login
    /\ Ceilings \subseteq Int
    /\ MaxTime \in Nat /\ MaxReviews \in Nat /\ MaxRecords \in Nat
    /\ \A c \in Commit : \A e \in Estimates[c] :
          e.authoritative \in BOOLEAN /\ e.new \in Int /\ e.previous \in Int
    /\ \A p \in Policies :
          /\ p.metric \in Metric /\ p.threshold \in Nat
          /\ p.enabled \in BOOLEAN /\ p.approvers \subseteq Login
          /\ p.maxTtl \in Nat /\ p.ratio \in Nat    \* the ratio in percent
          /\ p.nonAuthor \in BOOLEAN /\ p.needsReview \in BOOLEAN

VARIABLES
    head,      \* the newest commit of the pull request
    policy,    \* the policy in force
    now,       \* the clock
    reviews,   \* the reviews GitHub has, oldest first
    planFile,  \* the commit whose plan document is at hand
    result,    \* gate-result.json and cost-estimate.json, as a set of at most one
    record,    \* the exception file, likewise: [body, integrity]
    created    \* every record as created, with the evaluation it accepts, the plan
               \* it was bound to and the ratio that bounded its ceiling (no program
               \* variable: the history that a record is measured against)

vars == <<head, policy, now, reviews, planFile, result, record, created>>

-----------------------------------------------------------------------------
AnyEstimate == UNION {Estimates[c] : c \in Commit}

Evaluation == [status : Status, estimate : AnyEstimate, metric : Metric, threshold : Nat]

Review == [login : Login, commit : Commit, state : {"APPROVED", "DISMISSED"}]

Body == [head : Commit, fingerprint : Digest, variables : Digest, approved : Int, ceiling : Int,
         metric : Metric, threshold : Nat, approver : Login, approvedAt : Nat, expiresAt : Nat]

ASSUME BodiesAssumption == Bodies \subseteq Body

ExceptionTypeOK ==
    /\ head \in Commit
    /\ policy \in Policies
    /\ now \in Nat
    /\ reviews \in Seq(Review)
    /\ planFile \in Commit
    /\ result \in SUBSET Evaluation
    /\ record \in SUBSET [body : Body, integrity : Body]
    /\ created \in SUBSET [body : Body, evaluation : Evaluation, plan : Commit, ratio : Nat]

Init ==
    /\ head \in Commit
    /\ policy \in Policies
    /\ now = 0
    /\ reviews = <<>>
    /\ planFile = head
    /\ result = {} /\ record = {} /\ created = {}

-----------------------------------------------------------------------------
(* --- what moves while a record is kept ------------------------------------ *)

Push(c) ==
    /\ c # head
    /\ head' = c
    /\ UNCHANGED <<policy, now, reviews, planFile, result, record, created>>

EditPolicy(p) ==
    /\ policy' = p
    /\ UNCHANGED <<head, now, reviews, planFile, result, record, created>>

DayPasses ==
    /\ now < MaxTime
    /\ now' = now + 1
    /\ UNCHANGED <<head, policy, reviews, planFile, result, record, created>>

\* Anyone may approve, the author included; a review is of the head it saw.
Approve(login) ==
    /\ Len(reviews) < MaxReviews
    /\ reviews' = Append(reviews, [login |-> login, commit |-> head, state |-> "APPROVED"])
    /\ UNCHANGED <<head, policy, now, planFile, result, record, created>>

Dismiss(i) ==
    /\ i \in DOMAIN reviews
    /\ reviews' = [reviews EXCEPT ![i].state = "DISMISSED"]
    /\ UNCHANGED <<head, policy, now, planFile, result, record, created>>

\* `terraform plan` of the head, saved as JSON.
Plan ==
    /\ planFile' = head
    /\ UNCHANGED <<head, policy, now, reviews, result, record, created>>

\* `finops analyze` of that plan.
Analyze(e) ==
    /\ e \in Estimates[planFile]
    /\ result' = {[status |-> Evaluate(e, policy), estimate |-> e,
                   metric |-> policy.metric, threshold |-> policy.threshold]}
    /\ UNCHANGED <<head, policy, now, reviews, planFile, record, created>>

\* Someone edits the file in the repository, with or without the integrity hash,
\* which has no key: anyone can compute it.
Edit(b, rehash) ==
    \E r \in record :
        /\ record' = {[body |-> b, integrity |-> IF rehash THEN b ELSE r.integrity]}
        /\ UNCHANGED <<head, policy, now, reviews, planFile, result, created>>

(* --- create_exception ------------------------------------------------------ *)

\* Mutant: a ceiling is bounded from below only.
HeadroomUnchecked(ceiling, approved) == TRUE

\* The headroom is a multiple of what was approved, and an approved cost that is
\* not positive has no bound.
Headroom(ceiling, approved) == approved > 0 => 100 * ceiling <= policy.ratio * approved

\* The FAIL and its estimate come from the result file, the change from the plan
\* file, the policy of the ceiling and the lifetime from the configuration now.
CreateException(approver, ceiling, ttl) ==
    \E e \in result :
        LET approved == Increment(e.estimate)
            body == [head |-> head,
                     fingerprint |-> Fingerprint[planFile], variables |-> Variables[planFile],
                     approved |-> approved, ceiling |-> ceiling,
                     metric |-> e.metric, threshold |-> e.threshold,
                     approver |-> approver, approvedAt |-> now, expiresAt |-> now + ttl]
        IN  /\ e.status = "FAIL"
            /\ e.estimate.authoritative
            /\ ceiling >= approved
            /\ Headroom(ceiling, approved)
            /\ ttl \in 1 .. policy.maxTtl
            /\ Cardinality(created) < MaxRecords
            /\ record' = {[body |-> body, integrity |-> body]}
            /\ created' = created \cup {[body |-> body, evaluation |-> e, plan |-> planFile, ratio |-> policy.ratio]}
            /\ UNCHANGED <<head, policy, now, reviews, planFile, result>>

\* `finops create-exception`, with a ceiling and a lifetime of one's choice.
Create(approver, ceiling, ttl) == CreateException(approver, ceiling, ttl)

\* `finops approve --action approve`, as the approval job calls it: the ceiling is
\* the approved cost and the lifetime the longest permitted.
ApproveInRun(approver) ==
    \E e \in result : CreateException(approver, Increment(e.estimate), policy.maxTtl)

(* --- _binding_problems: none ------------------------------------------------ *)

\* Mutant: the headroom, which the ceiling has already, is granted once more.
WithinHeadroomOfCeiling(b, e) == 100 * Increment(e) <= policy.ratio * b.ceiling

WithinCeiling(b, e) == Increment(e) <= b.ceiling

\* Mutant: the lifetime was checked when the record was created.
FreshUntilExpiry(b) == now < b.expiresAt

Fresh(b) == now < b.expiresAt /\ b.expiresAt - b.approvedAt <= policy.maxTtl

\* The head is compared when --head-sha is given.
Binds(r, headGiven) ==
    /\ r.integrity = r.body
    /\ r.body.fingerprint = Fingerprint[planFile]
    /\ r.body.variables = Variables[planFile]
    /\ \E e \in result : e.estimate.authoritative /\ WithinCeiling(r.body, e.estimate)
    /\ r.body.threshold = policy.threshold
    /\ r.body.metric = policy.metric
    /\ Fresh(r.body)
    /\ headGiven => r.body.head = head

(* --- _authorising_review ---------------------------------------------------- *)

\* Mutant: a review of any commit of the pull request will do.
UsableForAnyCommit(v, b, authorGiven) ==
    /\ v.state = "APPROVED"
    /\ policy.nonAuthor /\ authorGiven => v.login # Author
    /\ v.login \in policy.approvers

\* The author of the pull request is known when --pr-author is given.
Usable(v, b, authorGiven) ==
    /\ v.state = "APPROVED"
    /\ policy.nonAuthor /\ authorGiven => v.login # Author
    /\ v.login \in policy.approvers
    /\ v.commit = b.head

\* The oldest usable review is the one that counts, and the record must name its
\* author.
Reviewed(b, authorGiven) ==
    \E i \in DOMAIN reviews :
        /\ Usable(reviews[i], b, authorGiven)
        /\ \A j \in DOMAIN reviews : j < i => ~Usable(reviews[j], b, authorGiven)
        /\ reviews[i].login = b.approver

(* --- the two verifications -------------------------------------------------- *)

\* approval-verify in a pull_request or workflow_dispatch run: the human decision
\* was the Environment's review.
VerifyEnvironmentApproval(r, headGiven) == policy.enabled /\ Binds(r, headGiven)

\* verify-exception: the same bindings, and a review on GitHub.
VerifyException(r, headGiven, authorGiven) ==
    /\ policy.enabled
    /\ Binds(r, headGiven)
    /\ policy.needsReview => Reviewed(r.body, authorGiven)

-----------------------------------------------------------------------------
Next ==
    \/ \E c \in Commit : Push(c)
    \/ \E p \in Policies : EditPolicy(p)
    \/ DayPasses
    \/ \E login \in Login : Approve(login)
    \/ \E i \in 1 .. MaxReviews : Dismiss(i)
    \/ Plan
    \/ \E e \in AnyEstimate : Analyze(e)
    \/ \E b \in Bodies, rehash \in BOOLEAN : Edit(b, rehash)
    \/ \E approver \in Named, x \in Ceilings, ttl \in 1 .. policy.maxTtl : Create(approver, x, ttl)
    \/ \E approver \in Named : ApproveInRun(approver)

Spec == Init /\ [][Next]_vars

-----------------------------------------------------------------------------
(* --- what an exception guarantees ------------------------------------------ *)

\* The file is what some command wrote, and not the work of an editor.
Genuine(r) == \E c \in created : c.body = r.body

\* A record accepts one overspend and what it may drift to: whatever the change
\* is priced at by the time the record is used, and however the policy has been
\* edited in between, its cost stays within the headroom of a cost that was a
\* FAIL under the very metric and threshold in force now.
DriftIsBounded ==
    \A r \in record, headGiven \in BOOLEAN :
        VerifyEnvironmentApproval(r, headGiven) /\ Genuine(r)
        => \E c \in created :
              LET approved == Increment(c.evaluation.estimate) IN
              /\ c.body = r.body
              /\ c.evaluation.status = "FAIL"
              /\ c.evaluation.metric = policy.metric
              /\ c.evaluation.threshold = policy.threshold
              /\ approved > 0
                    => \A e \in result : 100 * Increment(e.estimate) <= c.ratio * approved

\* Tightening max_ttl_days shortens the life of the records already given: none
\* is ever older than the policy in force when it is used permits.
AgeIsBounded ==
    \A r \in record, headGiven \in BOOLEAN :
        VerifyEnvironmentApproval(r, headGiven) /\ Genuine(r)
            => now - r.body.approvedAt < policy.maxTtl

\* "Repo content can never authorise itself": when a record passes, someone on the
\* allowlist has approved a commit with that very change and those variables, and
\* the approval stands; it is not the author where the command was told who that
\* is.  It takes the plan of the head at either end: when the record is used with
\* --head-sha, whoever wrote it and whatever it says; or, without, when the record
\* was created.
ReviewerSawTheChange ==
    \A r \in record, headGiven \in BOOLEAN, authorGiven \in BOOLEAN :
        /\ VerifyException(r, headGiven, authorGiven)
        /\ policy.needsReview
        /\ \/ headGiven /\ planFile = head
           \/ \E c \in created : c.body = r.body /\ c.plan = c.body.head
        => \E i \in DOMAIN reviews :
              /\ reviews[i].state = "APPROVED"
              /\ reviews[i].login \in policy.approvers
              /\ policy.nonAuthor /\ authorGiven => reviews[i].login # Author
              /\ Fingerprint[reviews[i].commit] = Fingerprint[planFile]
              /\ Variables[reviews[i].commit] = Variables[planFile]

-----------------------------------------------------------------------------
(* --- why it does: the inductive invariant ---------------------------------- *)

\* There is one result file, and what was true of a record when it was created
\* stays true of the record.
ExceptionInv ==
    /\ \A e, f \in result : e = f
    /\ \A c \in created :
          /\ c.evaluation.status = "FAIL"
          /\ c.body.fingerprint = Fingerprint[c.plan]
          /\ c.body.variables = Variables[c.plan]
          /\ c.body.metric = c.evaluation.metric
          /\ c.body.threshold = c.evaluation.threshold
          /\ c.body.approved = Increment(c.evaluation.estimate)
          /\ c.body.approved > 0 => 100 * c.body.ceiling <= c.ratio * c.body.approved

=============================================================================
