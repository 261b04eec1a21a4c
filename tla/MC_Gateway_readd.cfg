\* A source removed from the configmap and declared again is never restarted.
CONSTANTS
    Keys <- MCKeys
    Values <- MCValues
    Definitions <- MCDefinitions
    ValidValues <- MCValidValues
    MaxUpdates = 2
    MaxCrashes = 0
    MaxConnFailures = 0
SPECIFICATION Spec
INVARIANT DeclaredSourcesServed
CHECK_DEADLOCK FALSE
