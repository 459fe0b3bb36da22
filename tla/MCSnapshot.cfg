\* Another run applies between the read of the baseline and the plan.
SPECIFICATION Spec
CONSTANTS
    Null = Null
    Triggers <- MCTriggers
    Address <- MCAddress
    Content <- MCContent
    Size <- MCSize
    Bill <- MCBill
    Refers <- MCRefers
    Drifts <- MCDrifts
    Policies <- MCPolicies
    MaxDeploys = 1
CHECK_DEADLOCK FALSE
INVARIANTS
    DiffersOnlyByTheChange
