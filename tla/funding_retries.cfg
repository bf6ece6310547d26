SPECIFICATION FairSpec
CONSTANTS
    Workflows = {w1}
    Types <- FundingOnly
    Faults <- ActivityFaults
    RetryCap = 2
PROPERTIES ExecutionEnds
