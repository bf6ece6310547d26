\* Up to three signals, and commands that may be missing.
SPECIFICATION FairSpecStack
CONSTANTS
    MaxSignals = 3
    SpawnMayFail = TRUE
INVARIANTS LeftBehindExplained
PROPERTIES TornDownTogether SignalStops
