SPECIFICATION Spec
CONSTANTS
    i1 = i1
    i2 = i2
    Combinations <- TwoRuns
    Items <- Files
    FaultSets <- MCFaultSets
    MaxSweeps = 2
INVARIANTS
    EveryRunReported
    TableOfSavedRuns
    WholeDatasetScored
