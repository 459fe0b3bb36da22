\* The repository variable and the policy file disagree.
SPECIFICATION Spec
CONSTANTS
    web = web
    api = api
    Stack = {web}
    Address <- MCAddress
    Attr = {1, 2}
    Absent = 0
    Run = {r1}
    Holder = {r1}
    NoRun = NoRun
    Branch = {main}
    Commit <- MCCommit
    Content <- OneStackContent
    Touches <- OneStackTouches
    Deployable = {web}
    Cost <- MCCost
    GateThreshold = 200
    PolicyThreshold = 100
    Faulty = {}
    FaultyBarriers = FALSE
INVARIANTS
    PassIsAuthorized
