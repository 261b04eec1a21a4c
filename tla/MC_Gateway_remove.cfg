\* A source reports two terminal statuses: Remove and its own Error or Completed.
CONSTANTS
    Keys <- MCKeys
    Values <- MCValues
    Definitions <- MCDefinitions
    ValidValues <- MCValidValues
    MaxUpdates = 1
    MaxCrashes = 0
    MaxConnFailures = 0
SPECIFICATION Spec
INVARIANT OneTerminalStatus
CHECK_DEADLOCK FALSE
