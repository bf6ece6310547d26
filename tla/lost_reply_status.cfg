\* The start request raises although Temporal takes it.
SPECIFICATION Spec
CONSTANTS
    Workflows = {w1}
    Types <- ExtractOnly
    Faults <- LostReply
    RetryCap = 1
INVARIANTS CouldNotStart
