\* Connections dialled for already-running sources are never closed.
CONSTANTS
    Keys <- MCKeys
    Values <- MCValues
    Definitions <- MCDefinitions
    ValidValues <- MCValidValues
    MaxUpdates = 1
    MaxCrashes = 0
    MaxConnFailures = 0
SPECIFICATION Spec
INVARIANT NoLeakedConnection
CHECK_DEADLOCK FALSE
