----------------------------- MODULE MC_Sensor -----------------------------
EXTENDS Sensor
=============================================================================
