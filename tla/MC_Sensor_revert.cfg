\* The pod completes a node while the New pass is retried after a failed
\* Create; only conflicts fail an Update.
CONSTANTS
    Dependencies = {d1, d2}
    Triggers = {t1}
    MaxRuns = 2
    TransientErrors = FALSE
SPECIFICATION Spec
PROPERTY NodePhasesForward
CHECK_DEADLOCK FALSE
