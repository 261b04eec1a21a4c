--------------------------- MODULE SensorLifecycle ---------------------------
(***************************************************************************)
(* What the sensor controller promises about one Sensor, seen from the    *)
(* API server (spec.md sections 3 and 8): its phase follows New -> Active *)
(* -> Complete or Error, a Complete sensor is re-run back to New, and      *)
(* CompletionCount grows by exactly one with each re-run and never         *)
(* otherwise.  Nothing else about the resource is observable here.         *)
(***************************************************************************)
EXTENDS Naturals

VARIABLES
    phase,  \* Status.Phase
    count   \* Status.CompletionCount

vars == <<phase, count>>

Init == phase = "New" /\ count = 0

\* Validation, initialization and provisioning succeeded.
Activate == phase = "New" /\ phase' = "Active" /\ UNCHANGED count

\* The sensor spec failed validation.
Fail == phase = "New" /\ phase' = "Error" /\ UNCHANGED count

\* Every dependency and trigger has completed.
Complete == phase = "Active" /\ phase' = "Complete" /\ UNCHANGED count

\* The completed run is counted and the sensor starts over.
ReRun == phase = "Complete" /\ phase' = "New" /\ count' = count + 1

Next == Activate \/ Fail \/ Complete \/ ReRun

Spec == Init /\ [][Next]_vars

=============================================================================
