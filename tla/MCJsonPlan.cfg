CONSTANTS
    Query = {q1, q2}
    Workers = 2
    Items = 1
    PlanGiven = TRUE
    Congested <- MCCongested
SPECIFICATION Spec
INVARIANT PlanForOneQuery
CHECK_DEADLOCK FALSE
