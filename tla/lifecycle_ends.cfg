\* Every fault, the ambiguous start among them, for the type whose activities
\* all have a limit of attempts.
SPECIFICATION FairSpec
CONSTANTS
    Workflows = {w1}
    Types <- ExtractOnly
    Faults <- AllFaults
    RetryCap = 2
INVARIANTS OrphanExplained
PROPERTIES ExecutionEnds RowSettles
