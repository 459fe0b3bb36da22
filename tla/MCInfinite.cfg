\* A percentage of nothing.
SPECIFICATION Spec
CONSTANTS
    web = web
    api = api
    Stack = {web}
    Change <- MCChange
    Digest <- MCChange
    Fingerprint <- MCFingerprint
    Estimates <- MCEstimates
    Policies <- PlainPolicies
    MaxCommands = 1
INVARIANTS
    DecisionStands
