\* Evaluations of pull requests and dispatches, with whatever Infracost prices.
SPECIFICATION FairSpec
CONSTANTS
    Null = Null
    Triggers <- MCTriggers
    Address <- MCAddress
    Content <- MCContent
    Size <- MCSize
    Bill <- MCBill
    Refers <- MCRefers
    Drifts <- MCDrifts
    Policies <- MCPolicies
    MaxDeploys = 1
CHECK_DEADLOCK FALSE
INVARIANTS
    EvaluationTypeOK
    TouchedStacksAreEvaluated
    UnderstatedIsFlagged
    BreakdownReconciles
    MovedCostIsListed
    PricedMeansFullyPriced
    DecisionNeedsBothScans
    UntouchedCancels
PROPERTIES
    EvaluationSettles
