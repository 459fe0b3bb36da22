\* Two commands over one output directory, edits and kills in between.
SPECIFICATION Spec
CONSTANTS
    web = web
    api = api
    Stack = {web, api}
    Change <- MCChange
    Digest <- MCChange
    Fingerprint <- MCFingerprint
    Estimates <- MCEstimates
    Policies <- MCPolicies
    MaxCommands = 2
INVARIANTS
    AnalyzeTypeOK
    VerifiedLockWasPassed
    ExitZeroMatchesFiles
PROPERTIES
    PassVerifies
