\* One record of a pull request of two commits, edited, reviewed and used.
SPECIFICATION Spec
CONSTANTS
    local = local
    abroad = abroad
    author = author
    peer = peer
    Commit <- MCCommit
    Login = {author, peer}
    Author = author
    Digest = {"resources", "region", "otherRegion"}
    Fingerprint <- MCFingerprint
    Variables <- MCVariables
    Estimates <- MCEstimates
    Policies <- MCPolicies
    Bodies <- MCBodies
    Named = {peer}
    Ceilings = {15}
    MaxTime = 1
    MaxReviews = 1
    MaxRecords = 1
INVARIANTS
    ExceptionTypeOK
    ExceptionInv
    DriftIsBounded
    AgeIsBounded
    ReviewerSawTheChange
