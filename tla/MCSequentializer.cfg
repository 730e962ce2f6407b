CONSTANTS
    Nodes <- MCNode
    Null <- MCNull
    Rank <- MCRank
    Plans <- MCPlans
SPECIFICATION FairSpec
INVARIANTS ChildrenFirst ListedOnce WholePlanListed
PROPERTIES WalkEnds
CHECK_DEADLOCK FALSE
