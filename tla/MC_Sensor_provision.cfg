\* A failed Get of the Deployment or Service is taken as "exists".
CONSTANTS
    Dependencies = {d1}
    Triggers = {t1}
    MaxRuns = 2
    TransientErrors = FALSE
SPECIFICATION Spec
INVARIANT ActiveImpliesProvisioned
CHECK_DEADLOCK FALSE
