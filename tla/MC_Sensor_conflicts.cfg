\* As MC_Sensor.cfg, but the only failed Update is a version conflict, with
\* the controller and the informer fair.
CONSTANTS
    Dependencies = {d1, d2, d3}
    Triggers = {t1, t2}
    MaxRuns = 3
    TransientErrors = FALSE
SPECIFICATION LiveSpec
PROPERTY ImplementsLifecycle
PROPERTY RunEventuallyCounted
CHECK_DEADLOCK FALSE
