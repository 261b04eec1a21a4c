\* Three dependencies and two triggers, three completed runs, and an API server
\* that may fail any Update.  The controller idles once the pod has stopped
\* and every pass is done, hence no deadlock check.
CONSTANTS
    Dependencies = {d1, d2, d3}
    Triggers = {t1, t2}
    MaxRuns = 3
    TransientErrors = TRUE
SPECIFICATION Spec
INVARIANT TypeOK
INVARIANT CompleteOnlyWhenAllFired
CHECK_DEADLOCK FALSE
