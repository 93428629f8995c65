\* A plugin with requests larger than a pipe, a filter with requests that fit.
SPECIFICATION FairSpec
CONSTANTS
    NULL = NULL
    Capacity = 2
    MaxRequest = 5
    MaxResponse = 4
    MaxFiltered = 2
INVARIANTS TypeOK OkMeansComplete CleansUp SurvivesTheChild ReadNeverBlocks NoMutualWait
PROPERTIES CommunicateReturns
CHECK_DEADLOCK FALSE
