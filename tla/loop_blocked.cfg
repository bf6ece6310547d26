SPECIFICATION FairSpec
CONSTANTS
    w1 = w1
    w2 = w2
    Workflows <- Two
    Minute = 7
    Loads <- MCLoads
INVARIANT
    RowsEndWhenQuick
PROPERTIES
    RecordSpec
    ExecutionsEnd
