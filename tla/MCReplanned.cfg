\* The deploy job plans from a state nobody priced.
SPECIFICATION Spec
CONSTANTS
    web = web
    api = api
    Stack = {web}
    Address <- MCAddress
    Attr = {1, 2}
    Absent = 0
    Run = {r1, r2}
    Holder = {r1, r2}
    NoRun = NoRun
    Branch = {main}
    Commit <- MCCommit
    Content <- OneStackContent
    Touches <- OneStackTouches
    Deployable = {web}
    Cost <- MCCost
    GateThreshold = 100
    PolicyThreshold = 100
    Faulty = {}
    FaultyBarriers = FALSE
INVARIANTS
    UnreviewedIncreaseIsBounded
