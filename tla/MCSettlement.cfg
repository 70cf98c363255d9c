SPECIFICATION FairSpec
CONSTANTS
    Emissions <- MCEmissions
    MaxBlocks = 2
    MaxWrong = 1
    MaturityDelay = 1
INVARIANTS L1FollowsTheChain PaidOnce
PROPERTY SafeOutputsSettle
CHECK_DEADLOCK FALSE
