CONSTANTS
    Query = {q1, q2}
    Workers = 2
    Items = 2
    PlanGiven = TRUE
    Congested <- MCCongested
SPECIFICATION FairSpec
INVARIANTS UnitTypeFirst PlansKeptApart NoneCutOff
PROPERTY RunReturns
CHECK_DEADLOCK FALSE
