\* One configmap edit (any mix of removed, added and changed sources), one
\* restart after the dial panic and one broken connection.  The process
\* idles once the last edit is handled and every goroutine has returned,
\* hence no deadlock check.
CONSTANTS
    Keys <- MCKeys
    Values <- MCValues
    Definitions <- MCDefinitions
    ValidValues <- MCValidValues
    MaxUpdates = 1
    MaxCrashes = 1
    MaxConnFailures = 1
SPECIFICATION Spec
INVARIANT SingleWorkerPerSource
INVARIANT UndeclaredWorkersCancelled
PROPERTY CancelledWorkerExits
CHECK_DEADLOCK FALSE
