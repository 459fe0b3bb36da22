--------------------------- MODULE AnalyzeCommand ---------------------------
(***************************************************************************)
(* `finops analyze` and `finops verify-lock`, run again and again over one  *)
(* output directory (.finops), while the Terraform change and the policy    *)
(* are edited between the commands.                                         *)
(*                                                                          *)
(* analyze is a sequence of steps, any of which may be its last: it decides,*)
(* asks for an explanation, mints the cost lock, writes gate-result.json,   *)
(* then cost-estimate.json.  It removes nothing that an earlier command     *)
(* left behind.  verify-lock only reads, so it is the operator Verifies     *)
(* and not an action.                                                       *)
(***************************************************************************)
EXTENDS PolicyEngine

CONSTANTS
    Stack,        \* the stacks a command can be bound to
    Change,       \* the Terraform changes a plan file can hold
    Digest,        \* what plan fingerprints can be
    Fingerprint,  \* Fingerprint[c] of each change
    Estimates,    \* Estimates[c]: what change c may be priced at, the baseline moves
    Policies,     \* the policies that config file and environment can add up to
    MaxCommands   \* bound on the number of analyze commands

ASSUME CommandAssumption ==
    /\ Fingerprint \in [Change -> Digest]
    /\ \A p \in Policies :
          p.metric \in Metric /\ p.threshold \in Nat /\ p.allowNonAuthoritative \in BOOLEAN
    /\ \A c \in Change : \A e \in Estimates[c] : e.authoritative \in BOOLEAN
    /\ MaxCommands \in Nat

VARIABLES
    change,      \* the change in the plan file
    policy,      \* the policy in force
    lock,        \* cost-lock.json, as a set of at most one lock
    resultFile,  \* gate-result.json, as a set of at most one result
    costFile,    \* the execution cost-estimate.json is from, likewise
    cmd,         \* the newest analyze command
    decided      \* every decision ever made (no program variable: the history
                 \* that a lock is measured against)

vars == <<change, policy, lock, resultFile, costFile, cmd, decided>>

-----------------------------------------------------------------------------
Execution == 0 .. MaxCommands

Lock == [execution : Execution, stack : Stack, fingerprint : Digest, threshold : Nat,
         metric : Metric, authoritative : BOOLEAN]

Result == [execution : Execution, status : Status]

Decided == [execution : Execution, stack : Stack, fingerprint : Digest, threshold : Nat,
            metric : Metric, authoritative : BOOLEAN, status : Status]

Pc == {"idle", "started", "decided", "explained", "minted", "reported", "exited", "died"}

AnyEstimate == UNION {Estimates[c] : c \in Change}

\* What _empty_estimate() is put in place of: no estimate at all.
NotPriced == {}

Command == [pc : Pc, execution : Execution, stack : Stack, allowLock : BOOLEAN,
            status : Status, estimate : SUBSET AnyEstimate, exitCode : {-1, 0, 1, 2}]

AnalyzeTypeOK ==
    /\ change \in Change
    /\ policy \in Policies
    /\ lock \in SUBSET Lock
    /\ resultFile \in SUBSET Result
    /\ costFile \in SUBSET Execution
    /\ cmd \in Command
    /\ decided \in SUBSET Decided

Init ==
    /\ change \in Change
    /\ policy \in Policies
    /\ lock = {} /\ resultFile = {} /\ costFile = {}
    /\ \E s \in Stack :
          cmd = [pc |-> "idle", execution |-> 0, stack |-> s, allowLock |-> FALSE,
                 status |-> "ERROR", estimate |-> NotPriced, exitCode |-> -1]
    /\ decided = {}

-----------------------------------------------------------------------------
NoCommandRuns == cmd.pc \in {"idle", "exited", "died"}

EditChange(c) ==
    /\ NoCommandRuns
    /\ change' = c
    /\ UNCHANGED <<policy, lock, resultFile, costFile, cmd, decided>>

EditPolicy(p) ==
    /\ NoCommandRuns
    /\ policy' = p
    /\ UNCHANGED <<change, lock, resultFile, costFile, cmd, decided>>

\* --stack and --no-cost-lock; the result starts as an ERROR without estimate.
Start(s, allowLock) ==
    /\ NoCommandRuns
    /\ cmd.execution < MaxCommands
    /\ cmd' = [pc |-> "started", execution |-> cmd.execution + 1, stack |-> s,
               allowLock |-> allowLock, status |-> "ERROR",
               estimate |-> NotPriced, exitCode |-> -1]
    /\ UNCHANGED <<change, policy, lock, resultFile, costFile, decided>>

\* load_config or build_estimator raises a FinOpsError: main exits 2 with
\* nothing written.
ConfigurationFails ==
    /\ cmd.pc = "started"
    /\ cmd' = [cmd EXCEPT !.pc = "exited", !.exitCode = ExitCode("ERROR")]
    /\ UNCHANGED <<change, policy, lock, resultFile, costFile, decided>>

\* The plan cannot be normalised, a required baseline document is missing, the
\* estimator's preflight or its estimate fails: the command still writes its
\* ERROR, past the decision and past the lock.
CannotEstimate ==
    /\ cmd.pc = "started"
    /\ cmd' = [cmd EXCEPT !.pc = "minted"]
    /\ UNCHANGED <<change, policy, lock, resultFile, costFile, decided>>

DecisionRecord(e, status) ==
    [execution |-> cmd.execution, stack |-> cmd.stack, fingerprint |-> Fingerprint[change],
     threshold |-> policy.threshold, metric |-> policy.metric,
     authoritative |-> e.authoritative, status |-> status]

Decide(e) ==
    LET status == Evaluate(e, policy)
    IN  /\ cmd.pc = "started"
        /\ cmd' = [cmd EXCEPT !.pc = "decided", !.status = status, !.estimate = {e}]
        /\ decided' = decided \cup {DecisionRecord(e, status)}
        /\ UNCHANGED <<change, policy, lock, resultFile, costFile>>

\* An infinite observed value cannot be rounded to cents: as_float raises an
\* exception that no handler between here and the interpreter expects.
Unprintable ==
    cmd.status # "ERROR" /\ \E e \in cmd.estimate : Infinite(Observed(e, policy.metric))

\* The explanation of the decision.  When it fails, the decision stands, unless
\* ai.required and fail_safe.on_ai_failure ask for an ERROR.
Explain(fails) ==
    /\ cmd.pc = "decided"
    /\ ~Unprintable
    /\ cmd' = IF fails /\ policy.aiBlocks
              THEN [cmd EXCEPT !.pc = "minted", !.status = "ERROR"]
              ELSE [cmd EXCEPT !.pc = "explained"]
    /\ UNCHANGED <<change, policy, lock, resultFile, costFile, decided>>

\* An uncaught exception exits with code 1.
ExplainRaises ==
    /\ cmd.pc = "decided"
    /\ Unprintable
    /\ cmd' = [cmd EXCEPT !.pc = "exited", !.exitCode = 1]
    /\ UNCHANGED <<change, policy, lock, resultFile, costFile, decided>>

\* Mutant: the lock file is created and never overwritten.
MintsOnce == cmd.status = "PASS" /\ cmd.allowLock /\ lock = {}

Mints == cmd.status = "PASS" /\ cmd.allowLock

\* create_cost_lock: what the lock binds.
MintedLock(e) ==
    [execution |-> cmd.execution, stack |-> cmd.stack, fingerprint |-> Fingerprint[change],
     threshold |-> policy.threshold, metric |-> policy.metric,
     authoritative |-> e.authoritative]

\* write_cost_lock, on a PASS that may be locked.
MintLock ==
    /\ cmd.pc = "explained"
    /\ cmd' = [cmd EXCEPT !.pc = "minted"]
    /\ lock' = IF Mints THEN {MintedLock(e) : e \in cmd.estimate} ELSE lock
    /\ UNCHANGED <<change, policy, resultFile, costFile, decided>>

WriteResult ==
    /\ cmd.pc = "minted"
    /\ cmd' = [cmd EXCEPT !.pc = "reported"]
    /\ resultFile' = {[execution |-> cmd.execution, status |-> cmd.status]}
    /\ UNCHANGED <<change, policy, lock, costFile, decided>>

\* Mutant: the exit code is that of the decision, whatever came after it.
ExitCodeOfDecision(status) ==
    IF \E d \in decided : d.execution = cmd.execution /\ d.status = "PASS" THEN 0
    ELSE ExitCode(status)

CommandExitCode(status) == ExitCode(status)

\* cost-estimate.json is written only when there is an estimate.
WriteEstimate ==
    /\ cmd.pc = "reported"
    /\ cmd' = [cmd EXCEPT !.pc = "exited", !.exitCode = CommandExitCode(cmd.status)]
    /\ costFile' = IF cmd.estimate = NotPriced THEN costFile ELSE {cmd.execution}
    /\ UNCHANGED <<change, policy, lock, resultFile, decided>>

\* A file that was being written is truncated: whatever it held before is lost.
Torn(file, written) == file' = file \/ (written /\ file' = {})

\* Killed in or between two steps, or out of disk.
Die ==
    /\ ~NoCommandRuns
    /\ cmd' = [cmd EXCEPT !.pc = "died"]
    /\ Torn(lock, cmd.pc = "explained" /\ Mints)
    /\ Torn(resultFile, cmd.pc = "minted")
    /\ Torn(costFile, cmd.pc = "reported" /\ cmd.estimate # NotPriced)
    /\ UNCHANGED <<change, policy, decided>>

Next ==
    \/ \E c \in Change : EditChange(c)
    \/ \E p \in Policies : EditPolicy(p)
    \/ \E s \in Stack, allowLock \in BOOLEAN : Start(s, allowLock)
    \/ ConfigurationFails
    \/ CannotEstimate
    \/ \E e \in Estimates[change] : Decide(e)
    \/ \E fails \in BOOLEAN : Explain(fails)
    \/ ExplainRaises
    \/ MintLock
    \/ WriteResult
    \/ WriteEstimate
    \/ Die

Spec == Init /\ [][Next]_vars

-----------------------------------------------------------------------------
(* --- verify-lock ----------------------------------------------------------- *)

\* Mutant: whoever priced the lock, it is good.
TrustedByAnyone(k) == TRUE

\* The policy in force accepts the estimator the lock was priced by.
Trusted(k) == k.authoritative \/ policy.allowNonAuthoritative

\* `finops verify-lock --stack s` on the lock, the change and the policy as they
\* are now.  The integrity hash, schema and status of a lock the engine wrote
\* are always right.
Verifies(s) ==
    \E k \in lock :
        /\ k.stack = s
        /\ Trusted(k)
        /\ policy.bindToPlan => k.fingerprint = Fingerprint[change]
        /\ k.threshold = policy.threshold
        /\ k.metric = policy.metric

-----------------------------------------------------------------------------
(* --- what the commands guarantee ------------------------------------------- *)

\* A lock that verifies was minted by a command that passed: whatever has been
\* edited, evaluated, failed or killed since, one PASS was given to this stack, to
\* a change with this fingerprint, under the threshold and metric now in force,
\* from an estimator the policy now accepts.
VerifiedLockWasPassed ==
    \A s \in Stack : Verifies(s) =>
        \E d \in decided :
            /\ d.status = "PASS" /\ d.stack = s
            /\ d.threshold = policy.threshold /\ d.metric = policy.metric
            /\ policy.bindToPlan => d.fingerprint = Fingerprint[change]
            /\ d.authoritative \/ policy.allowNonAuthoritative

\* Exit code 0 speaks for the files: result, estimate and lock in the output
\* directory are those of this command and say PASS, although a failing
\* explanation can still turn a PASS into an ERROR after it was decided.
ExitZeroMatchesFiles ==
    cmd.pc = "exited" /\ cmd.exitCode = 0 =>
        /\ resultFile = {[execution |-> cmd.execution, status |-> "PASS"]}
        /\ costFile = {cmd.execution}
        /\ cmd.allowLock => \E k \in lock : k.execution = cmd.execution

\* A command that exits 0 and may mint a lock leaves one that verify-lock, run
\* next, accepts, whatever lock it found there.
PassVerifies ==
    [][/\ cmd.pc # "exited" /\ cmd'.pc = "exited"
       /\ cmd'.exitCode = 0 /\ cmd.allowLock
       => Verifies(cmd.stack)']_vars

-----------------------------------------------------------------------------
(* --- what the documentation says and the commands do not do ---------------- *)

\* "AI failure never changes the gate. ai.factory.analyze() cannot raise; ... the
\* deterministic decision stands": a command that decided and was not killed
\* reports its decision.
DecisionStands ==
    cmd.pc = "exited" /\ (\A p \in Policies : ~p.aiBlocks) =>
        \A d \in decided : d.execution = cmd.execution =>
            resultFile = {[execution |-> d.execution, status |-> d.status]}

=============================================================================
