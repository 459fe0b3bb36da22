------------------------ MODULE AnalyzeCommandProofs ------------------------
(***************************************************************************)
(* Machine-checked proofs about AnalyzeCommand, for any stacks, changes,    *)
(* estimates and policies and any number of commands.                       *)
(***************************************************************************)
EXTENDS AnalyzeCommand, TLAPS

-----------------------------------------------------------------------------
(* --- the inductive invariant ----------------------------------------------- *)

Running == {"decided", "explained", "minted", "reported"}

\* While a command is past its decision, the decision is on record, and a PASS
\* has an estimate the policy trusts.
DecisionInv ==
    /\ cmd.pc \in {"decided", "explained"}
          => \A e \in cmd.estimate : DecisionRecord(e, cmd.status) \in decided
    /\ cmd.pc \in Running /\ cmd.status = "PASS"
          => /\ cmd.estimate # {}
             /\ \A e \in cmd.estimate : e.authoritative \/ policy.allowNonAuthoritative
    /\ cmd.pc = "started" => cmd.status = "ERROR"

\* Every lock was minted by a PASS that bound the same things.
LockInv ==
    \A k \in lock : \E d \in decided :
        /\ d.status = "PASS" /\ d.stack = k.stack /\ d.fingerprint = k.fingerprint
        /\ d.threshold = k.threshold /\ d.metric = k.metric
        /\ d.authoritative = k.authoritative

\* The files of a command that passed, from the lock on.
FilesInv ==
    /\ cmd.pc \in {"minted", "reported"} /\ cmd.status = "PASS" /\ cmd.allowLock
          => \E k \in lock : k.execution = cmd.execution
    /\ cmd.pc \in {"minted", "reported"} /\ cmd.status = "PASS" /\ cmd.allowLock
          => Verifies(cmd.stack)
    /\ cmd.pc = "reported"
          => resultFile = {[execution |-> cmd.execution, status |-> cmd.status]}

CommandInv == AnalyzeTypeOK /\ DecisionInv /\ LockInv /\ FilesInv /\ ExitZeroMatchesFiles

LEMMA EvaluateType ==
    ASSUME NEW e, NEW p
    PROVE  /\ Evaluate(e, p) \in Status
           /\ Evaluate(e, p) = "PASS" => e.authoritative \/ p.allowNonAuthoritative
  BY DEF Evaluate, Status, CannotBeTrusted

LEMMA InitCommandInv == Init => CommandInv
<1> SUFFICES ASSUME Init PROVE CommandInv
  OBVIOUS
<1> USE DEF Init
<1>1. AnalyzeTypeOK
  BY CommandAssumption DEF AnalyzeTypeOK, Command, Execution, Pc, Status, NotPriced
<1>2. DecisionInv /\ LockInv /\ FilesInv /\ ExitZeroMatchesFiles
  BY DEF DecisionInv, LockInv, FilesInv, ExitZeroMatchesFiles, Running
<1> QED
  BY <1>1, <1>2 DEF CommandInv

-----------------------------------------------------------------------------
(* --- each step preserves it ------------------------------------------------ *)

LEMMA StartPreserves ==
    ASSUME CommandInv, NEW s \in Stack, NEW allowLock \in BOOLEAN, Start(s, allowLock)
    PROVE  CommandInv'
<1> USE DEF CommandInv, Start
<1>1. AnalyzeTypeOK'
  <2>1. cmd.execution + 1 \in Execution
    BY CommandAssumption DEF AnalyzeTypeOK, Command, Execution
  <2> QED
    BY <2>1 DEF AnalyzeTypeOK, Command, Pc, Status, NotPriced
<1>2. DecisionInv' /\ FilesInv' /\ ExitZeroMatchesFiles'
  BY DEF DecisionInv, FilesInv, ExitZeroMatchesFiles, Running
<1>3. LockInv'
  BY DEF LockInv
<1> QED
  BY <1>1, <1>2, <1>3

\* Nothing is edited while a command runs.
LEMMA EditPreserves ==
    ASSUME CommandInv, (\E c \in Change : EditChange(c)) \/ (\E p \in Policies : EditPolicy(p))
    PROVE  CommandInv'
<1> USE DEF CommandInv, EditChange, EditPolicy, NoCommandRuns
<1>1. AnalyzeTypeOK'
  BY DEF AnalyzeTypeOK
<1>2. DecisionInv' /\ FilesInv'
  BY DEF DecisionInv, FilesInv, Running
<1>3. LockInv' /\ ExitZeroMatchesFiles'
  BY DEF LockInv, ExitZeroMatchesFiles
<1> QED
  BY <1>1, <1>2, <1>3

LEMMA DecidePreserves ==
    ASSUME CommandInv, NEW e \in Estimates[change], Decide(e)
    PROVE  CommandInv'
<1> DEFINE status == Evaluate(e, policy)
<1>1. status \in Status /\ (status = "PASS" => e.authoritative \/ policy.allowNonAuthoritative)
  BY EvaluateType
<1> HIDE DEF status
<1>2. /\ cmd.pc = "started"
      /\ cmd' = [cmd EXCEPT !.pc = "decided", !.status = status, !.estimate = {e}]
      /\ decided' = decided \cup {DecisionRecord(e, status)}
      /\ UNCHANGED <<change, policy, lock, resultFile, costFile>>
  BY DEF Decide, status
<1> USE DEF CommandInv
<1>3. AnalyzeTypeOK'
  <2>1. e \in AnyEstimate /\ e.authoritative \in BOOLEAN
    BY CommandAssumption DEF AnyEstimate, AnalyzeTypeOK
  <2>2. DecisionRecord(e, status) \in Decided
    BY <1>1, <2>1, CommandAssumption DEF DecisionRecord, Decided, AnalyzeTypeOK, Command
  <2>3. cmd' \in Command
    BY <1>1, <1>2, <2>1 DEF AnalyzeTypeOK, Command, Pc
  <2> QED
    BY <1>2, <2>2, <2>3 DEF AnalyzeTypeOK
<1>4. cmd'.pc = "decided" /\ cmd'.status = status /\ cmd'.estimate = {e}
      /\ cmd'.execution = cmd.execution /\ cmd'.stack = cmd.stack
  BY <1>2 DEF AnalyzeTypeOK, Command
<1>5. DecisionInv'
  <2>1. \A x \in cmd'.estimate : x = e
    BY <1>4
  <2>2. DecisionRecord(e, cmd.status)' = DecisionRecord(e, status)
    BY <1>2, <1>4 DEF DecisionRecord
  <2> QED
    BY <1>1, <1>2, <1>4, <2>1, <2>2 DEF DecisionInv
<1>6. LockInv'
  BY <1>2 DEF LockInv
<1>7. FilesInv' /\ ExitZeroMatchesFiles'
  BY <1>4 DEF FilesInv, ExitZeroMatchesFiles
<1> QED
  BY <1>3, <1>5, <1>6, <1>7

LEMMA ExplainPreserves ==
    ASSUME CommandInv, (\E fails \in BOOLEAN : Explain(fails)) \/ ExplainRaises
    PROVE  CommandInv'
<1> USE DEF CommandInv
<1>1. /\ cmd.pc = "decided"
      /\ UNCHANGED <<change, policy, lock, resultFile, costFile, decided>>
      /\ \/ cmd' = [cmd EXCEPT !.pc = "minted", !.status = "ERROR"]
         \/ cmd' = [cmd EXCEPT !.pc = "explained"]
         \/ cmd' = [cmd EXCEPT !.pc = "exited", !.exitCode = 1]
  BY DEF Explain, ExplainRaises
<1>2. CASE cmd' = [cmd EXCEPT !.pc = "minted", !.status = "ERROR"]
  <2>1. cmd'.pc = "minted" /\ cmd'.status = "ERROR"
    BY <1>2 DEF AnalyzeTypeOK, Command
  <2>2. AnalyzeTypeOK'
    BY <1>1, <1>2 DEF AnalyzeTypeOK, Command, Pc, Status
  <2>3. DecisionInv' /\ FilesInv' /\ ExitZeroMatchesFiles'
    BY <2>1 DEF DecisionInv, FilesInv, ExitZeroMatchesFiles, Running
  <2>4. LockInv'
    BY <1>1 DEF LockInv
  <2> QED
    BY <2>2, <2>3, <2>4
<1>3. CASE cmd' = [cmd EXCEPT !.pc = "explained"]
  <2>1. /\ cmd'.pc = "explained" /\ cmd'.status = cmd.status /\ cmd'.estimate = cmd.estimate
        /\ cmd'.stack = cmd.stack /\ cmd'.execution = cmd.execution
    BY <1>3 DEF AnalyzeTypeOK, Command
  <2>2. AnalyzeTypeOK'
    BY <1>1, <1>3 DEF AnalyzeTypeOK, Command, Pc
  <2>3. DecisionInv'
    BY <1>1, <2>1 DEF DecisionInv, DecisionRecord, Running
  <2>4. LockInv' /\ FilesInv' /\ ExitZeroMatchesFiles'
    BY <1>1, <2>1 DEF LockInv, FilesInv, ExitZeroMatchesFiles
  <2> QED
    BY <2>2, <2>3, <2>4
<1>4. CASE cmd' = [cmd EXCEPT !.pc = "exited", !.exitCode = 1]
  <2>1. cmd'.pc = "exited" /\ cmd'.exitCode = 1
    BY <1>4 DEF AnalyzeTypeOK, Command
  <2>2. AnalyzeTypeOK'
    BY <1>1, <1>4 DEF AnalyzeTypeOK, Command, Pc
  <2>3. DecisionInv' /\ FilesInv' /\ ExitZeroMatchesFiles'
    BY <2>1 DEF DecisionInv, FilesInv, ExitZeroMatchesFiles, Running
  <2>4. LockInv'
    BY <1>1 DEF LockInv
  <2> QED
    BY <2>2, <2>3, <2>4
<1> QED
  BY <1>1, <1>2, <1>3, <1>4

LEMMA MintPreserves ==
    ASSUME CommandInv, MintLock PROVE CommandInv'
<1> USE DEF CommandInv
<1>1. /\ cmd.pc = "explained"
      /\ cmd' = [cmd EXCEPT !.pc = "minted"]
      /\ lock' = IF Mints THEN {MintedLock(e) : e \in cmd.estimate} ELSE lock
      /\ UNCHANGED <<change, policy, resultFile, costFile, decided>>
  BY DEF MintLock
<1>2. /\ cmd'.pc = "minted" /\ cmd'.status = cmd.status /\ cmd'.estimate = cmd.estimate
      /\ cmd'.stack = cmd.stack /\ cmd'.execution = cmd.execution
      /\ cmd'.allowLock = cmd.allowLock
  BY <1>1 DEF AnalyzeTypeOK, Command
<1>3. \A e \in cmd.estimate : MintedLock(e) \in Lock
  <2> TAKE e \in cmd.estimate
  <2>1. e.authoritative \in BOOLEAN
    BY CommandAssumption DEF AnalyzeTypeOK, Command, AnyEstimate
  <2> QED
    BY <2>1, CommandAssumption DEF MintedLock, Lock, AnalyzeTypeOK, Command
<1>4. AnalyzeTypeOK'
  <2>1. lock' \in SUBSET Lock
    BY <1>1, <1>3 DEF AnalyzeTypeOK
  <2> QED
    BY <1>1, <2>1 DEF AnalyzeTypeOK, Command, Pc
<1>5. DecisionInv'
  BY <1>1, <1>2 DEF DecisionInv, Running
<1>6. LockInv'
  <2>1. CASE Mints
    <3> SUFFICES ASSUME NEW e \in cmd.estimate
                 PROVE  \E d \in decided :
                           /\ d.status = "PASS" /\ d.stack = MintedLock(e).stack
                           /\ d.fingerprint = MintedLock(e).fingerprint
                           /\ d.threshold = MintedLock(e).threshold
                           /\ d.metric = MintedLock(e).metric
                           /\ d.authoritative = MintedLock(e).authoritative
      BY <1>1, <2>1 DEF LockInv
    <3>1. DecisionRecord(e, "PASS") \in decided
      BY <1>1, <2>1 DEF DecisionInv, Mints
    <3> WITNESS DecisionRecord(e, "PASS") \in decided
    <3> QED
      BY DEF DecisionRecord, MintedLock
  <2>2. CASE ~Mints
    BY <1>1, <2>2 DEF LockInv
  <2> QED
    BY <2>1, <2>2
<1>7. FilesInv'
  <2> SUFFICES ASSUME cmd.status = "PASS", cmd.allowLock
               PROVE  (\E k \in lock : k.execution = cmd.execution)' /\ Verifies(cmd.stack)'
    BY <1>2 DEF FilesInv
  <2>1. PICK e \in cmd.estimate : e.authoritative \/ policy.allowNonAuthoritative
    BY <1>1 DEF DecisionInv, Running
  <2>2. MintedLock(e) \in lock'
    BY <1>1 DEF Mints
  <2>3. /\ MintedLock(e).execution = cmd.execution /\ MintedLock(e).stack = cmd.stack
        /\ MintedLock(e).authoritative = e.authoritative
        /\ MintedLock(e).fingerprint = Fingerprint[change]
        /\ MintedLock(e).threshold = policy.threshold /\ MintedLock(e).metric = policy.metric
    BY DEF MintedLock
  <2>4. Verifies(cmd.stack)'
    BY <1>1, <1>2, <2>1, <2>2, <2>3 DEF Verifies, Trusted
  <2> QED
    BY <1>2, <2>2, <2>3, <2>4
<1>8. ExitZeroMatchesFiles'
  BY <1>2 DEF ExitZeroMatchesFiles
<1> QED
  BY <1>4, <1>5, <1>6, <1>7, <1>8

\* The remaining steps write no lock: they keep it or lose it.
LEMMA ErrorPreserves ==
    ASSUME CommandInv, ConfigurationFails \/ CannotEstimate PROVE CommandInv'
<1> USE DEF CommandInv
<1>1. /\ cmd.pc = "started" /\ cmd.status = "ERROR"
      /\ UNCHANGED <<change, policy, lock, resultFile, costFile, decided>>
      /\ \/ cmd' = [cmd EXCEPT !.pc = "exited", !.exitCode = 2]
         \/ cmd' = [cmd EXCEPT !.pc = "minted"]
  BY DEF ConfigurationFails, CannotEstimate, DecisionInv, ExitCode
<1>2. /\ cmd'.status = "ERROR"
      /\ cmd'.pc = "minted" \/ (cmd'.pc = "exited" /\ cmd'.exitCode = 2)
  BY <1>1 DEF AnalyzeTypeOK, Command
<1>3. cmd' \in Command
  <2>1. /\ [cmd EXCEPT !.pc = "exited", !.exitCode = 2] \in Command
        /\ [cmd EXCEPT !.pc = "minted"] \in Command
    BY DEF AnalyzeTypeOK, Command, Pc
  <2> QED
    BY <1>1, <2>1
<1>4. AnalyzeTypeOK'
  BY <1>1, <1>3 DEF AnalyzeTypeOK
<1>5. DecisionInv' /\ FilesInv' /\ ExitZeroMatchesFiles'
  BY <1>2 DEF DecisionInv, FilesInv, ExitZeroMatchesFiles, Running
<1>6. LockInv'
  BY <1>1 DEF LockInv
<1> QED
  BY <1>4, <1>5, <1>6

LEMMA WriteResultPreserves ==
    ASSUME CommandInv, WriteResult PROVE CommandInv'
<1> USE DEF CommandInv
<1>1. /\ cmd.pc = "minted"
      /\ cmd' = [cmd EXCEPT !.pc = "reported"]
      /\ resultFile' = {[execution |-> cmd.execution, status |-> cmd.status]}
      /\ UNCHANGED <<change, policy, lock, costFile, decided>>
  BY DEF WriteResult
<1>2. /\ cmd'.pc = "reported" /\ cmd'.status = cmd.status /\ cmd'.estimate = cmd.estimate
      /\ cmd'.stack = cmd.stack /\ cmd'.execution = cmd.execution
      /\ cmd'.allowLock = cmd.allowLock
  BY <1>1 DEF AnalyzeTypeOK, Command
<1>3. AnalyzeTypeOK'
  BY <1>1 DEF AnalyzeTypeOK, Command, Pc, Result
<1>4. DecisionInv' /\ LockInv' /\ ExitZeroMatchesFiles'
  BY <1>1, <1>2 DEF DecisionInv, LockInv, ExitZeroMatchesFiles, Running
<1>5. Verifies(cmd.stack)' <=> Verifies(cmd.stack)
  BY <1>1, <1>2 DEF Verifies, Trusted
<1>6. FilesInv'
  BY <1>1, <1>2, <1>5 DEF FilesInv
<1> QED
  BY <1>3, <1>4, <1>6

LEMMA WriteEstimatePreserves ==
    ASSUME CommandInv, WriteEstimate PROVE CommandInv'
<1> USE DEF CommandInv
<1> DEFINE code == CommandExitCode(cmd.status)
<1>1. code \in {0, 1, 2} /\ (code = 0 => cmd.status = "PASS")
  BY DEF CommandExitCode, ExitCode, AnalyzeTypeOK, Command, Status
<1> HIDE DEF code
<1>2. /\ cmd.pc = "reported"
      /\ cmd' = [cmd EXCEPT !.pc = "exited", !.exitCode = code]
      /\ costFile' = IF cmd.estimate = NotPriced THEN costFile ELSE {cmd.execution}
      /\ UNCHANGED <<change, policy, lock, resultFile, decided>>
  BY DEF WriteEstimate, code
<1>3. /\ cmd'.pc = "exited" /\ cmd'.exitCode = code /\ cmd'.execution = cmd.execution
      /\ cmd'.allowLock = cmd.allowLock
  BY <1>2 DEF AnalyzeTypeOK, Command
<1>4. AnalyzeTypeOK'
  BY <1>1, <1>2 DEF AnalyzeTypeOK, Command, Pc
<1>5. DecisionInv' /\ LockInv' /\ FilesInv'
  BY <1>2, <1>3 DEF DecisionInv, LockInv, FilesInv, Running
<1>6. ExitZeroMatchesFiles'
  BY <1>1, <1>2, <1>3 DEF ExitZeroMatchesFiles, FilesInv, DecisionInv, Running, NotPriced
<1> QED
  BY <1>4, <1>5, <1>6

LEMMA DiePreserves ==
    ASSUME CommandInv, Die PROVE CommandInv'
<1> USE DEF CommandInv
<1>1. /\ cmd' = [cmd EXCEPT !.pc = "died"]
      /\ lock' = lock \/ lock' = {}
      /\ resultFile' = resultFile \/ resultFile' = {}
      /\ costFile' = costFile \/ costFile' = {}
      /\ UNCHANGED <<change, policy, decided>>
  BY DEF Die, Torn
<1>2. cmd'.pc = "died" /\ cmd' \in Command
  BY <1>1 DEF AnalyzeTypeOK, Command, Pc
<1>3. AnalyzeTypeOK'
  BY <1>1, <1>2 DEF AnalyzeTypeOK
<1>4. LockInv'
  BY <1>1 DEF LockInv
<1>5. DecisionInv' /\ FilesInv' /\ ExitZeroMatchesFiles'
  BY <1>2 DEF DecisionInv, FilesInv, ExitZeroMatchesFiles, Running
<1> QED
  BY <1>3, <1>4, <1>5

LEMMA NextCommandInv ==
    ASSUME CommandInv, [Next]_vars PROVE CommandInv'
<1>1. CASE UNCHANGED vars
  <2> USE <1>1 DEF vars
  <2>1. AnalyzeTypeOK' /\ LockInv' /\ ExitZeroMatchesFiles'
    BY DEF CommandInv, AnalyzeTypeOK, LockInv, ExitZeroMatchesFiles
  <2>2. DecisionInv' /\ FilesInv'
    BY DEF CommandInv, DecisionInv, DecisionRecord, FilesInv, Verifies, Trusted
  <2> QED
    BY <2>1, <2>2 DEF CommandInv
<1>2. CASE Next
  BY <1>2, StartPreserves, EditPreserves, DecidePreserves, ExplainPreserves, MintPreserves,
     ErrorPreserves, WriteResultPreserves, WriteEstimatePreserves, DiePreserves DEF Next
<1> QED
  BY <1>1, <1>2

-----------------------------------------------------------------------------
(* --- what follows ------------------------------------------------------------ *)

\* The invariant holds in every reachable state.
THEOREM CommandInvariant == Spec => []CommandInv
  BY InitCommandInv, NextCommandInv, PTL DEF Spec

\* The files, the decisions on record and the command stay well typed.
THEOREM CommandsKeepTypes == Spec => []AnalyzeTypeOK
<1>1. CommandInv => AnalyzeTypeOK
  BY DEF CommandInv
<1> QED
  BY <1>1, CommandInvariant, PTL

\* Whatever was edited, evaluated or killed since it was minted, a lock verifies
\* only for what some PASS was given to.
THEOREM LocksArePasses == Spec => []VerifiedLockWasPassed
<1>1. CommandInv => VerifiedLockWasPassed
  <2> SUFFICES ASSUME LockInv, NEW s \in Stack, Verifies(s)
               PROVE  \E d \in decided :
                         /\ d.status = "PASS" /\ d.stack = s
                         /\ d.threshold = policy.threshold /\ d.metric = policy.metric
                         /\ policy.bindToPlan => d.fingerprint = Fingerprint[change]
                         /\ d.authoritative \/ policy.allowNonAuthoritative
    BY DEF CommandInv, VerifiedLockWasPassed
  <2>1. PICK k \in lock :
           /\ k.stack = s /\ Trusted(k) /\ k.threshold = policy.threshold
           /\ k.metric = policy.metric
           /\ policy.bindToPlan => k.fingerprint = Fingerprint[change]
    BY DEF Verifies
  <2> QED
    BY <2>1 DEF LockInv, Trusted
<1> QED
  BY <1>1, CommandInvariant, PTL

\* Exit code 0 is backed by the files of the same command.
THEOREM ExitZeroIsBacked == Spec => []ExitZeroMatchesFiles
<1>1. CommandInv => ExitZeroMatchesFiles
  BY DEF CommandInv
<1> QED
  BY <1>1, CommandInvariant, PTL

\* A command that exits 0 leaves a lock that verifies.
THEOREM PassesVerify == Spec => PassVerifies
<1>1. CommandInv /\ [Next]_vars =>
         [/\ cmd.pc # "exited" /\ cmd'.pc = "exited"
          /\ cmd'.exitCode = 0 /\ cmd.allowLock
          => Verifies(cmd.stack)']_vars
  <2> SUFFICES ASSUME CommandInv, Next, cmd.pc # "exited", cmd'.pc = "exited",
                      cmd'.exitCode = 0, cmd.allowLock
               PROVE  Verifies(cmd.stack)'
    OBVIOUS
  <2>1. WriteEstimate
    <3>1. cmd \in Command
      BY DEF CommandInv, AnalyzeTypeOK
    <3>2. ~(\E c \in Change : EditChange(c)) /\ ~(\E p \in Policies : EditPolicy(p))
      BY DEF EditChange, EditPolicy
    <3>3. ~(\E s \in Stack, allowLock \in BOOLEAN : Start(s, allowLock))
      BY DEF Start
    <3>4. ~ConfigurationFails /\ ~ExplainRaises
      <4>1. ExitCode("ERROR") = 2
        BY DEF ExitCode
      <4>2. ConfigurationFails => cmd'.exitCode = ExitCode("ERROR")
        BY <3>1 DEF ConfigurationFails, Command
      <4>3. ExplainRaises => cmd'.exitCode = 1
        BY <3>1 DEF ExplainRaises, Command
      <4> QED
        BY <4>1, <4>2, <4>3
    <3>5. ~CannotEstimate /\ ~(\E e \in Estimates[change] : Decide(e))
      <4>1. CannotEstimate => cmd'.pc = "minted"
        BY <3>1 DEF CannotEstimate, Command
      <4>2. ASSUME NEW e \in Estimates[change], Decide(e) PROVE cmd'.pc = "decided"
        BY <3>1, <4>2 DEF Decide, Command
      <4> QED
        BY <4>1, <4>2
    <3>6. ~(\E fails \in BOOLEAN : Explain(fails))
      <4> SUFFICES ASSUME NEW fails \in BOOLEAN, Explain(fails) PROVE FALSE
        OBVIOUS
      <4>1. CASE fails /\ policy.aiBlocks
        BY <3>1, <4>1 DEF Explain, Command
      <4>2. CASE ~(fails /\ policy.aiBlocks)
        BY <3>1, <4>2 DEF Explain, Command
      <4> QED
        BY <4>1, <4>2
    <3>7. ~MintLock /\ ~WriteResult /\ ~Die
      <4>1. MintLock => cmd'.pc = "minted"
        BY <3>1 DEF MintLock, Command
      <4>2. WriteResult => cmd'.pc = "reported"
        BY <3>1 DEF WriteResult, Command
      <4>3. Die => cmd'.pc = "died"
        BY <3>1 DEF Die, Command
      <4> QED
        BY <4>1, <4>2, <4>3
    <3> QED
      BY <3>2, <3>3, <3>4, <3>5, <3>6, <3>7 DEF Next
  <2>2. cmd.status = "PASS" /\ cmd.pc = "reported" /\ cmd'.stack = cmd.stack
    BY <2>1 DEF WriteEstimate, CommandExitCode, ExitCode, CommandInv, AnalyzeTypeOK, Command, Status
  <2>3. Verifies(cmd.stack)
    BY <2>2 DEF CommandInv, FilesInv
  <2> QED
    BY <2>1, <2>2, <2>3 DEF WriteEstimate, Verifies, Trusted
<1> QED
  BY <1>1, CommandInvariant, PTL DEF Spec, PassVerifies

=============================================================================
