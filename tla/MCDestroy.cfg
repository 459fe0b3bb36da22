\* Any number of destroys of one stack and a run of the cost gate, with every fault.
SPECIFICATION DestroyFairSpec
CONSTANTS
    Stack = {web}
    Address <- MCAddress
    Attr = {1}
    Absent = 0
    Run = {r1}
    Destroyer = d
    Holder = {r1, d}
    NoRun = NoRun
    Nothing = Nothing
    Branch = {main}
    Commit = {"both"}
    Content <- MCContent
    Touches <- MCTouches
    Deployable = {web}
    Cloud = {"AWS", "Azure"}
    CloudOf <- MCCloudOf
    Cost <- MCCost
    GateThreshold = 100
    PolicyThreshold = 100
    Faulty = {web}
    FaultyBarriers = TRUE
INVARIANTS
    DestroyTypeOK
    OneWriterPerStack
    PlansAreCurrent
    LifecycleInv
PROPERTIES
    ImplementsLifecycle
    RunsSettle
    DestroysSettle
    GroupIsReleased
