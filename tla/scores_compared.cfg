\* Every pair of lists of up to two authors.
SPECIFICATION Spec
CONSTANTS
    Doe = Doe  Dow = Dow  Roe = Roe  o1 = o1  o2 = o2  CERN = CERN  v1 = v1  v2 = v2  Nil = Nil
    Creators <- MCCreators
    Names <- MCNames
    Ratio <- MCRatio
    Items <- MCItems
    Threshold = 80
    MaxCreators = 2
INVARIANTS OrderIrrelevant RepetitionIsPerfect NoCreditForOthersOrcids FabricationsCounted CleanReportIsTrue
