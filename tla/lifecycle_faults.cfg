\* Every fault but the ambiguous start.
SPECIFICATION Spec
CONSTANTS
    Workflows = {w1}
    Types <- BothTypes
    Faults <- NoLostReply
    RetryCap = 2
INVARIANTS TimesOrdered StatusOfExecution
PROPERTIES RecordSpec
