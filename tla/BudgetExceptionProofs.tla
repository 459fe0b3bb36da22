------------------------ MODULE BudgetExceptionProofs ------------------------
(***************************************************************************)
(* What TLAPS proves of BudgetException, for any pull request, any policies,*)
(* any prices and any edits of the record.                                  *)
(***************************************************************************)
EXTENDS BudgetException, TLAPS

\* What a command writes into a record and what it is measured against.
LEMMA EstimatesArePriced ==
    ASSUME NEW e \in AnyEstimate PROVE Increment(e) \in Int /\ e.authoritative \in BOOLEAN
BY ExceptionAssumption DEF AnyEstimate, Increment

LEMMA EvaluateIsStatus ==
    ASSUME NEW e, NEW p PROVE Evaluate(e, p) \in Status
BY DEF Evaluate, Status

\* Creating a record keeps the types.
LEMMA CreateExceptionTyped ==
    ASSUME ExceptionTypeOK, NEW approver \in Named, NEW ceiling \in Int, NEW ttl \in Int,
           CreateException(approver, ceiling, ttl)
    PROVE  ExceptionTypeOK'
<1>1. PICK e \in result :
        LET approved == Increment(e.estimate)
            body == [head |-> head,
                     fingerprint |-> Fingerprint[planFile], variables |-> Variables[planFile],
                     approved |-> approved, ceiling |-> ceiling,
                     metric |-> e.metric, threshold |-> e.threshold,
                     approver |-> approver, approvedAt |-> now, expiresAt |-> now + ttl]
        IN  /\ ttl \in 1 .. policy.maxTtl
            /\ record' = {[body |-> body, integrity |-> body]}
            /\ created' = created \cup {[body |-> body, evaluation |-> e, plan |-> planFile, ratio |-> policy.ratio]}
            /\ UNCHANGED <<head, policy, now, reviews, planFile, result>>
  BY DEF CreateException
<1> DEFINE body == [head |-> head,
                    fingerprint |-> Fingerprint[planFile], variables |-> Variables[planFile],
                    approved |-> Increment(e.estimate), ceiling |-> ceiling,
                    metric |-> e.metric, threshold |-> e.threshold,
                    approver |-> approver, approvedAt |-> now, expiresAt |-> now + ttl]
<1>2. e \in Evaluation
  BY DEF ExceptionTypeOK
<1>3. /\ Increment(e.estimate) \in Int
      /\ e.metric \in Metric /\ e.threshold \in Nat
  BY <1>2, EstimatesArePriced DEF Evaluation
<1>4. now + ttl \in Nat /\ policy.ratio \in Nat
  BY <1>1, ExceptionAssumption DEF ExceptionTypeOK
<1>5. body \in Body
  BY <1>3, <1>4, ExceptionAssumption DEF ExceptionTypeOK, Body
<1>6. /\ record' = {[body |-> body, integrity |-> body]}
      /\ created' = created \cup {[body |-> body, evaluation |-> e, plan |-> planFile, ratio |-> policy.ratio]}
      /\ UNCHANGED <<head, policy, now, reviews, planFile, result>>
  BY <1>1
<1> HIDE DEF body
<1>7. record' \in SUBSET [body : Body, integrity : Body]
  BY <1>5, <1>6
<1>8. created' \in SUBSET [body : Body, evaluation : Evaluation, plan : Commit, ratio : Nat]
  BY <1>2, <1>4, <1>5, <1>6 DEF ExceptionTypeOK
<1> QED
  BY <1>6, <1>7, <1>8 DEF ExceptionTypeOK

\* Creating a record leaves in the history a FAIL, and a ceiling within its headroom.
LEMMA CreateExceptionRecorded ==
    ASSUME ExceptionTypeOK, ExceptionInv, NEW approver, NEW ceiling, NEW ttl,
           CreateException(approver, ceiling, ttl)
    PROVE  ExceptionInv'
<1>1. PICK e \in result :
        LET approved == Increment(e.estimate)
            body == [head |-> head,
                     fingerprint |-> Fingerprint[planFile], variables |-> Variables[planFile],
                     approved |-> approved, ceiling |-> ceiling,
                     metric |-> e.metric, threshold |-> e.threshold,
                     approver |-> approver, approvedAt |-> now, expiresAt |-> now + ttl]
        IN  /\ e.status = "FAIL"
            /\ Headroom(ceiling, approved)
            /\ created' = created \cup {[body |-> body, evaluation |-> e, plan |-> planFile, ratio |-> policy.ratio]}
            /\ result' = result
  BY DEF CreateException
<1> QED
  BY <1>1 DEF ExceptionInv, Headroom

-----------------------------------------------------------------------------
\* Every step keeps the types: policies, prices, edits and reviews change the
\* values of a record's surroundings and never their shape.
LEMMA TypesKept ==
    ASSUME ExceptionTypeOK, [Next]_vars PROVE ExceptionTypeOK'
<1>1. ASSUME NEW c \in Commit, Push(c) PROVE ExceptionTypeOK'
  BY <1>1 DEF ExceptionTypeOK, Push
<1>2. ASSUME NEW p \in Policies, EditPolicy(p) PROVE ExceptionTypeOK'
  BY <1>2 DEF ExceptionTypeOK, EditPolicy
<1>3. ASSUME DayPasses PROVE ExceptionTypeOK'
  BY <1>3 DEF ExceptionTypeOK, DayPasses
<1>4. ASSUME NEW login \in Login, Approve(login) PROVE ExceptionTypeOK'
  <2>1. [login |-> login, commit |-> head, state |-> "APPROVED"] \in Review
    BY DEF ExceptionTypeOK, Review
  <2> QED
    BY <1>4, <2>1 DEF ExceptionTypeOK, Approve
<1>5. ASSUME NEW i \in 1 .. MaxReviews, Dismiss(i) PROVE ExceptionTypeOK'
  <2>1. i \in DOMAIN reviews /\ reviews[i] \in Review
    BY <1>5 DEF ExceptionTypeOK, Dismiss
  <2>2. [reviews[i] EXCEPT !.state = "DISMISSED"] \in Review
    BY <2>1 DEF Review
  <2>3. reviews' = [reviews EXCEPT ![i] = [reviews[i] EXCEPT !.state = "DISMISSED"]]
    BY <1>5 DEF Dismiss
  <2>4. reviews' \in Seq(Review)
    BY <2>1, <2>2, <2>3 DEF ExceptionTypeOK
  <2> QED
    BY <1>5, <2>4 DEF ExceptionTypeOK, Dismiss
<1>6. ASSUME Plan PROVE ExceptionTypeOK'
  BY <1>6 DEF ExceptionTypeOK, Plan
<1>7. ASSUME NEW e \in AnyEstimate, Analyze(e) PROVE ExceptionTypeOK'
  <2>1. policy.metric \in Metric /\ policy.threshold \in Nat
    BY ExceptionAssumption DEF ExceptionTypeOK
  <2>2. [status |-> Evaluate(e, policy), estimate |-> e,
         metric |-> policy.metric, threshold |-> policy.threshold] \in Evaluation
    BY <2>1, EvaluateIsStatus DEF Evaluation
  <2> QED
    BY <1>7, <2>2 DEF ExceptionTypeOK, Analyze
<1>8. ASSUME NEW b \in Bodies, NEW rehash \in BOOLEAN, Edit(b, rehash) PROVE ExceptionTypeOK'
  <2>1. PICK r \in record :
          /\ record' = {[body |-> b, integrity |-> IF rehash THEN b ELSE r.integrity]}
          /\ UNCHANGED <<head, policy, now, reviews, planFile, result, created>>
    BY <1>8 DEF Edit
  <2>2. b \in Body /\ r.integrity \in Body
    BY BodiesAssumption DEF ExceptionTypeOK
  <2>3. record' \in SUBSET [body : Body, integrity : Body]
    BY <2>1, <2>2
  <2> QED
    BY <2>1, <2>3 DEF ExceptionTypeOK
<1>9. ASSUME NEW approver \in Named, NEW x \in Ceilings, NEW ttl \in 1 .. policy.maxTtl,
             Create(approver, x, ttl)
      PROVE  ExceptionTypeOK'
  BY <1>9, CreateExceptionTyped, ExceptionAssumption DEF Create
<1>10. ASSUME NEW approver \in Named, ApproveInRun(approver) PROVE ExceptionTypeOK'
  <2>1. PICK e \in result : CreateException(approver, Increment(e.estimate), policy.maxTtl)
    BY <1>10 DEF ApproveInRun
  <2>2. Increment(e.estimate) \in Int
    BY EstimatesArePriced DEF ExceptionTypeOK, Evaluation
  <2>3. policy.maxTtl \in Int
    BY ExceptionAssumption DEF ExceptionTypeOK
  <2> QED
    BY <2>1, <2>2, <2>3, CreateExceptionTyped
<1>11. ASSUME UNCHANGED vars PROVE ExceptionTypeOK'
  BY <1>11 DEF ExceptionTypeOK, vars
<1> QED
  BY <1>1, <1>2, <1>3, <1>4, <1>5, <1>6, <1>7, <1>8, <1>9, <1>10, <1>11 DEF Next

\* The history is only added to, and only by the creation of a record.
LEMMA HistoryKept ==
    ASSUME ExceptionTypeOK, ExceptionInv, [Next]_vars PROVE ExceptionInv'
<1>1. ASSUME created' = created, result' = result \/ \E e : result' = {e} PROVE ExceptionInv'
  BY <1>1 DEF ExceptionInv
<1>2. ASSUME NEW approver \in Named, NEW x \in Ceilings, NEW ttl \in 1 .. policy.maxTtl,
             Create(approver, x, ttl)
      PROVE  ExceptionInv'
  BY <1>2, CreateExceptionRecorded DEF Create
<1>3. ASSUME NEW approver \in Named, ApproveInRun(approver) PROVE ExceptionInv'
  BY <1>3, CreateExceptionRecorded DEF ApproveInRun
<1> QED
  BY <1>1, <1>2, <1>3
     DEF Next, vars, Push, EditPolicy, DayPasses, Approve, Dismiss, Plan, Analyze, Edit

\* Every reachable state is well typed and satisfies the inductive invariant:
\* each record ever created accepts a FAIL, under the metric, the threshold and
\* the increment of that FAIL, with a ceiling within the headroom of its day.
THEOREM ExceptionInvariant == Spec => [](ExceptionTypeOK /\ ExceptionInv)
<1>1. Init => ExceptionTypeOK /\ ExceptionInv
  BY ExceptionAssumption DEF Init, ExceptionTypeOK, ExceptionInv
<1>2. ExceptionTypeOK /\ ExceptionInv /\ [Next]_vars => (ExceptionTypeOK /\ ExceptionInv)'
  BY TypesKept, HistoryKept
<1> QED
  BY <1>1, <1>2, PTL DEF Spec

\* The reviews, the files and every record ever created stay well typed.
THEOREM ExceptionsKeepTypes == Spec => []ExceptionTypeOK
BY ExceptionInvariant, PTL

-----------------------------------------------------------------------------
\* A record that passes is for a cost within the headroom of a FAIL under the
\* metric and the threshold in force.
THEOREM DriftsAreBounded == Spec => []DriftIsBounded
<1>1. ExceptionTypeOK /\ ExceptionInv => DriftIsBounded
  <2> SUFFICES ASSUME ExceptionTypeOK, ExceptionInv,
                      NEW r \in record, NEW headGiven \in BOOLEAN,
                      VerifyEnvironmentApproval(r, headGiven),
                      NEW c \in created, c.body = r.body
               PROVE  LET approved == Increment(c.evaluation.estimate) IN
                      /\ c.evaluation.status = "FAIL"
                      /\ c.evaluation.metric = policy.metric
                      /\ c.evaluation.threshold = policy.threshold
                      /\ approved > 0
                            => \A e \in result :
                                  100 * Increment(e.estimate) <= c.ratio * approved
    BY DEF DriftIsBounded, Genuine
  <2>1. c.body.approved = Increment(c.evaluation.estimate)
    BY DEF ExceptionInv
  <2>2. /\ c.evaluation.status = "FAIL"
        /\ c.evaluation.metric = policy.metric
        /\ c.evaluation.threshold = policy.threshold
    BY DEF ExceptionInv, VerifyEnvironmentApproval, Binds
  <2>3. ASSUME NEW e \in result PROVE Increment(e.estimate) <= c.body.ceiling
    BY DEF ExceptionInv, VerifyEnvironmentApproval, Binds, WithinCeiling
  <2>4. ASSUME c.body.approved > 0, NEW e \in result
        PROVE  100 * Increment(e.estimate) <= c.ratio * c.body.approved
    <3>1. 100 * c.body.ceiling <= c.ratio * c.body.approved
      BY <2>4 DEF ExceptionInv
    <3>2. c.body.ceiling \in Int /\ c.ratio * c.body.approved \in Int
      BY DEF ExceptionTypeOK, Body
    <3>3. Increment(e.estimate) \in Int
      BY EstimatesArePriced DEF ExceptionTypeOK, Evaluation
    <3> DEFINE bound == c.ratio * c.body.approved
    <3> HIDE DEF bound
    <3>4. 100 * c.body.ceiling <= bound /\ bound \in Int
      BY <3>1, <3>2 DEF bound
    <3>5. 100 * Increment(e.estimate) <= bound
      BY <2>3, <3>2, <3>3, <3>4
    <3> QED
      BY <3>5 DEF bound
  <2> QED
    BY <2>1, <2>2, <2>4
<1> QED
  BY <1>1, ExceptionInvariant, PTL

\* A record of a command is younger than max_ttl_days when it passes, whatever
\* that was when it was created.
THEOREM AgesAreBounded == Spec => []AgeIsBounded
<1>1. ExceptionTypeOK => AgeIsBounded
  <2> SUFFICES ASSUME ExceptionTypeOK, NEW r \in record, NEW headGiven \in BOOLEAN,
                      VerifyEnvironmentApproval(r, headGiven)
               PROVE  now - r.body.approvedAt < policy.maxTtl
    BY DEF AgeIsBounded
  <2>1. now < r.body.expiresAt /\ r.body.expiresAt - r.body.approvedAt <= policy.maxTtl
    BY DEF VerifyEnvironmentApproval, Binds, Fresh
  <2>2. /\ now \in Nat /\ policy.maxTtl \in Nat
        /\ r.body.expiresAt \in Nat /\ r.body.approvedAt \in Nat
    BY ExceptionAssumption DEF ExceptionTypeOK, Body
  <2> QED
    BY <2>1, <2>2
<1> QED
  BY <1>1, ExceptionInvariant, PTL

\* No file of the repository replaces the reviewer: the approval that lets a record
\* pass is of the change that the record is used for, and, where the command is told
\* who the author is, by someone else.
THEOREM ReviewersSeeTheChange == Spec => []ReviewerSawTheChange
<1>1. ExceptionInv => ReviewerSawTheChange
  <2> SUFFICES ASSUME ExceptionInv, NEW r \in record,
                      NEW headGiven \in BOOLEAN, NEW authorGiven \in BOOLEAN,
                      VerifyException(r, headGiven, authorGiven),
                      policy.needsReview,
                      \/ headGiven /\ planFile = head
                      \/ \E c \in created : c.body = r.body /\ c.plan = c.body.head
               PROVE  \E i \in DOMAIN reviews :
                         /\ reviews[i].state = "APPROVED"
                         /\ reviews[i].login \in policy.approvers
                         /\ policy.nonAuthor /\ authorGiven => reviews[i].login # Author
                         /\ Fingerprint[reviews[i].commit] = Fingerprint[planFile]
                         /\ Variables[reviews[i].commit] = Variables[planFile]
    BY DEF ReviewerSawTheChange
  <2>1. PICK i \in DOMAIN reviews : Usable(reviews[i], r.body, authorGiven)
    BY DEF VerifyException, Reviewed
  <2>2. /\ r.body.fingerprint = Fingerprint[planFile]
        /\ r.body.variables = Variables[planFile]
    BY DEF VerifyException, Binds
  <2>3. /\ Fingerprint[r.body.head] = Fingerprint[planFile]
        /\ Variables[r.body.head] = Variables[planFile]
    <3>1. CASE headGiven /\ planFile = head
      BY <3>1 DEF VerifyException, Binds
    <3>2. ASSUME NEW c \in created, c.body = r.body, c.plan = c.body.head
          PROVE  /\ Fingerprint[r.body.head] = r.body.fingerprint
                 /\ Variables[r.body.head] = r.body.variables
      BY <3>2 DEF ExceptionInv
    <3> QED
      BY <2>2, <3>1, <3>2
  <2> QED
    BY <2>1, <2>3 DEF Usable
<1> QED
  BY <1>1, ExceptionInvariant, PTL

=============================================================================
