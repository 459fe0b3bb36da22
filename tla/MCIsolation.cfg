\* One run of two stacks, of which the registry lets only web be deployed:
\* whatever becomes of api, web is deployed and api never is.
SPECIFICATION FairSpec
CONSTANTS
    web = web
    api = api
    Stack = {web, api}
    Address <- MCAddress
    Attr = {1, 2}
    Absent = 0
    Run = {r1}
    Holder = {r1}
    NoRun = NoRun
    Branch = {main}
    Commit <- TwoStackCommit
    Content <- TwoStackContent
    Touches <- TwoStackTouches
    Deployable = {web}
    Cost <- MCCost
    GateThreshold = 100
    PolicyThreshold = 100
    Faulty = {api}
    FaultyBarriers = FALSE
PROPERTIES
    PassIsDeployed
    ApprovedIsDeployed
    ImplementsContract
