SPECIFICATION Spec
CONSTANTS
    i1 = i1
    i2 = i2
    Combinations <- TwoRuns
    Items <- Files
    FaultSets <- OnlyFill
    MaxSweeps = 1
INVARIANT
    DatasetIsPopulated
